------------------------------ MODULE ModFolder ------------------------------
(***************************************************************************)
(* launcher/minecraft/mod/ModFolderModel: the list of a folder's mods, the *)
(* scan of the folder and the reading of each mod's own description on     *)
(* worker threads, the directory watcher, and the page that shows the      *)
(* list.  Everybody else may change the folder at any time.                *)
(*                                                                         *)
(* The id of a mod is the name of its file, with or without ".disabled".   *)
(* A file is its modification time, which stands for its content as well:  *)
(* no two changes give a file the same time, and a file is replaced, not   *)
(* written in place, which a directory watcher need not notice.            *)
(* The folder itself stays there.  Mods that are folders, the metadata     *)
(* beside the mods (.index) and views are left out.                        *)
(***************************************************************************)
EXTENDS Naturals, SequencesExt

CONSTANTS Mod,         \* names of mods, without ".disabled"
          MaxChanges   \* bound on the changes of the folder

ASSUME ModFolderAssumption == IsFiniteSet(Mod) /\ MaxChanges \in Nat

VARIABLES folder,     \* the time of the file with each name, 0 if there is none
          list,       \* mods, modsIndex and activeTickets
          scan,       \* m_update and its task, or what the last one has seen
          scheduled,  \* scheduled_update
          page,       \* of the list: closed, in openedImpl(), or open and watching
          event,      \* directoryChanged() is due
          changes,    \* the number of changes so far
          mixed       \* a mod was toggled at a bad moment (history), see setModStatus
vars == <<folder, list, scan, scheduled, page, event, changes, mixed>>

Id == Mod \X BOOLEAN
Enabled(m) == <<m, FALSE>>
Disabled(m) == <<m, TRUE>>
Toggled(id) == <<id[1], ~id[2]>>

Time == 0..MaxChanges + 1
Folder == [Id -> Time]
Present(f) == {id \in Id : f[id] # 0}

\* ticket is 0 unless the mod is being resolved, details the file they were read
\* from; known is FALSE once destroy() was called (MOD_UNKNOWN).
Row == [id : Id, time : Time, ticket : Nat, details : Time, known : BOOLEAN]
Ticket == [id : Id, read : BOOLEAN, details : Time]

TypeOK == /\ folder \in Folder
          /\ list.rows \in Seq(Row)
          /\ DOMAIN list.index \subseteq Id
          /\ \A id \in DOMAIN list.index : list.index[id] \in Nat \ {0}
          /\ \A t \in DOMAIN list.tickets : t \in Nat \ {0} /\ list.tickets[t] \in Ticket
          /\ scan \in [state : {"none", "running", "read"}, mods : Folder]
          /\ scheduled \in BOOLEAN
          /\ page \in {"closed", "opening", "open"}
          /\ event \in BOOLEAN
          /\ changes \in 0..MaxChanges
          /\ mixed \in BOOLEAN

Unread == [id \in Id |-> 0]

Init == /\ folder \in [Id -> {0, MaxChanges + 1}]
        /\ list = [rows |-> <<>>, index |-> <<>>, tickets |-> <<>>]
        /\ scan = [state |-> "none", mods |-> Unread]
        /\ scheduled = FALSE
        /\ page = "closed"
        /\ event = FALSE
        /\ changes = 0
        /\ mixed = FALSE

-----------------------------------------------------------------------------
(* What finishUpdate() makes of the list l and of what the scan has seen. *)

newRow(id, time, ticket) ==
  [id |-> id, time |-> time, ticket |-> ticket, details |-> 0, known |-> TRUE]

\* nextResolutionTicket: any number that is not in use any more will do.
nextTicket(l) == 1 + Max({0} \cup DOMAIN l.tickets \cup {row.ticket : row \in ToSet(l.rows)})

\* Wrong on purpose, as the definitions below whose names end in Mutant: each is a bug
\* that a property of this module has to notice.
ResolvingMutant(l, is) == {}
\* The tickets of the rows is.
Resolving(l, is) == {l.rows[i].ticket : i \in is \cap DOMAIN l.rows} \ {0}

\* Ids that are listed already, but whose file has changed.
Changed(l) == {id \in DOMAIN l.index \cap Present(scan.mods) :
                 /\ l.index[id] \in DOMAIN l.rows
                 /\ l.rows[l.index[id]].time # scan.mods[id]}
RowsOf(l, ids) == {l.index[id] : id \in ids}

reindexMutant(rows) ==
  [id \in {row.id : row \in ToSet(rows)} |-> Max({i \in DOMAIN rows : rows[i].id = id}) - 1]
reindex(rows) ==
  [id \in {row.id : row \in ToSet(rows)} |-> Max({i \in DOMAIN rows : rows[i].id = id})]

\* The map f with x leading to v.
Inserted(f, x, v) == [y \in DOMAIN f \cup {x} |-> IF y = x THEN v ELSE f[y]]

\* The numbers in S, in their order.
InOrder(S) == CHOOSE s \in [1..Cardinality(S) -> S] : \A i, j \in DOMAIN s : i < j => s[i] < s[j]

\* Changed rows are replaced and resolved anew, the rows of files that are gone are
\* removed, the others appended, in one of the orders a QSet may have.  Only once mixed
\* does the index lead out of the list, or from two ids to one row.
updated(l) ==
  LET changed == Changed(l)
      gone == RowsOf(l, DOMAIN l.index \ Present(scan.mods))
      added == SetToSeq(Present(scan.mods) \ DOMAIN l.index)
      todo == SetToSeq(changed) \o added
      first == nextTicket(l)
      ticket(id) == first + CHOOSE k \in DOMAIN todo : todo[k] = id
      new(id) == newRow(id, scan.mods[id], ticket(id))
      left == InOrder(DOMAIN l.rows \ gone)
      Now(i) == IF \E id \in changed : l.index[id] = i
                THEN new(CHOOSE id \in changed : l.index[id] = i) ELSE l.rows[i]
      rows == [k \in DOMAIN left |-> Now(left[k])] \o [k \in DOMAIN added |-> new(added[k])]
      kept == DOMAIN l.tickets \ Resolving(l, RowsOf(l, changed) \cup gone)
  IN [rows |-> rows,
      index |-> reindex(rows),
      tickets |-> [t \in {ticket(id) : id \in ToSet(todo)} \cup kept |->
                     IF t \in kept THEN l.tickets[t]
                     ELSE [id |-> todo[t - first], read |-> FALSE, details |-> 0]]]

-----------------------------------------------------------------------------
(* Scanning, watching and reading. *)

update == \/ /\ scan.state = "none"
             /\ scan' = [state |-> "running", mods |-> Unread]
             /\ UNCHANGED scheduled
          \/ /\ scan.state # "none"
             /\ scheduled' = TRUE
             /\ UNCHANGED scan

\* The GUI thread handles something; openedImpl() is the one handler in two steps,
\* since a scan may read the folder before it is watched.
GuiFree == page # "opening"

\* openedImpl(): startWatching() up to the watcher ...
openedImpl == /\ page = "closed"
              /\ page' = "opening"
              /\ update
              /\ UNCHANGED <<folder, list, event, changes, mixed>>

\* ... and the rest, with the update that follows it.
addPathMutant == /\ page = "opening"
                 /\ page' = "open"
                 /\ UNCHANGED <<folder, list, scan, scheduled, event, changes, mixed>>

addPath == /\ page = "opening"
           /\ page' = "open"
           /\ update
           /\ UNCHANGED <<folder, list, event, changes, mixed>>

closedImpl == /\ page = "open"
              /\ page' = "closed"
              /\ event' = FALSE
              /\ UNCHANGED <<folder, list, scan, scheduled, changes, mixed>>

directoryChanged == /\ event /\ GuiFree
                    /\ event' = FALSE
                    /\ update
                    /\ UNCHANGED <<folder, list, page, changes, mixed>>

\* The instance starts or stops running.
runningStateChanged == /\ GuiFree
                       /\ update
                       /\ UNCHANGED <<folder, list, page, event, changes, mixed>>

\* ModFolderLoadTask, on a worker thread.
loadTask == /\ scan.state = "running"
            /\ scan' = [state |-> "read", mods |-> folder]
            /\ UNCHANGED <<folder, list, scheduled, page, event, changes, mixed>>

finishUpdate == /\ scan.state = "read" /\ GuiFree
                /\ scan' = IF scheduled THEN [state |-> "running", mods |-> Unread]
                           ELSE [scan EXCEPT !.state = "none"]
                /\ scheduled' = FALSE
                /\ UNCHANGED <<folder, page, event, changes, mixed>>
                /\ list' = updated(list)

\* LocalModParseTask, on a worker thread: from the file that had the name when the
\* task was made, if there still is one.
parseTask(t) == /\ t \in DOMAIN list.tickets
                /\ ~list.tickets[t].read
                /\ list' = [list EXCEPT !.tickets[t] =
                                [id |-> @.id, read |-> TRUE, details |-> folder[@.id]]]
                /\ UNCHANGED <<folder, scan, scheduled, page, event, changes, mixed>>

\* modsIndex[id] makes an entry for the first row when there is none.
parsed(l, t) ==
  LET id == l.tickets[t].id
      i == IF id \in DOMAIN l.index THEN l.index[id] ELSE 1
      rows == IF i \notin DOMAIN l.rows THEN l.rows
              ELSE [l.rows EXCEPT ![i].ticket = 0,
                                  ![i].details = l.tickets[t].details]
  IN [l EXCEPT !.rows = rows, !.index = Inserted(@, id, i),
               !.tickets = Restrict(@, DOMAIN @ \ {t})]

finishModParse(t) == /\ t \in DOMAIN list.tickets /\ GuiFree
                     /\ list.tickets[t].read
                     /\ list' = parsed(list, t)
                     /\ UNCHANGED <<folder, scan, scheduled, page, event, changes, mixed>>

-----------------------------------------------------------------------------
(* Changes of the folder. *)

\* The folder becomes f; the watcher notices.
FolderBecomes(f) == /\ changes < MaxChanges
                    /\ folder' = f
                    /\ changes' = changes + 1
                    /\ event' = (event \/ page = "open")

\* Another program, the game or another part of the launcher: a file comes, is
\* replaced or goes.
ChangedByAnother == /\ \E id \in Id : \/ FolderBecomes([folder EXCEPT ![id] = changes + 1])
                                      \/ /\ folder[id] # 0
                                         /\ FolderBecomes([folder EXCEPT ![id] = 0])
                    /\ UNCHANGED <<list, scan, scheduled, page, mixed>>

\* A row's file is renamed, which fails if it is gone or the other name is taken.
\* The moment is bad while the mod is resolved, or when the other name is still listed.
setModStatus(i) ==
  /\ page = "open" /\ i \in DOMAIN list.rows
  /\ LET row == list.rows[i]
         newId == Toggled(row.id)
     IN /\ row.known
        /\ folder[row.id] # 0 /\ folder[newId] = 0
        /\ FolderBecomes([folder EXCEPT ![newId] = folder[row.id], ![row.id] = 0])
        /\ list' = [list EXCEPT !.rows[i].id = newId,
                                !.index = Inserted(Restrict(@, DOMAIN @ \ {row.id}), newId, i)]
        /\ mixed' = (mixed \/ row.ticket # 0 \/ newId \in DOMAIN list.index)
  /\ UNCHANGED <<scan, scheduled, page>>

\* The row stays until the next scan, also if its file cannot be deleted.
deleteMods(i) ==
  /\ page = "open" /\ i \in DOMAIN list.rows
  /\ list' = [list EXCEPT !.rows[i].known = FALSE]
  /\ \/ /\ folder[list.rows[i].id] # 0
        /\ FolderBecomes([folder EXCEPT ![list.rows[i].id] = 0])
     \/ UNCHANGED <<folder, event, changes>>
  /\ UNCHANGED <<scan, scheduled, page, mixed>>

\* A file from elsewhere takes the place of the one with its name, disabled or not;
\* the old one is removed first, and either step may fail.
installMod(m) ==
  LET old == IF folder[Enabled(m)] # 0 THEN Enabled(m) ELSE Disabled(m)
      cleared == [folder EXCEPT ![old] = 0]
  IN /\ page = "open"
     /\ \/ /\ FolderBecomes([cleared EXCEPT ![Enabled(m)] = changes + 1])
           /\ update
        \/ /\ folder[old] # 0
           /\ FolderBecomes(cleared)
           /\ UNCHANGED <<scan, scheduled>>
     /\ UNCHANGED <<list, page, mixed>>

Next == \/ openedImpl \/ addPath \/ closedImpl
        \/ directoryChanged \/ runningStateChanged
        \/ loadTask \/ finishUpdate
        \/ \E t \in DOMAIN list.tickets : parseTask(t) \/ finishModParse(t)
        \/ ChangedByAnother
        \/ \E i \in DOMAIN list.rows : setModStatus(i) \/ deleteMods(i)
        \/ \E m \in Mod : installMod(m)

Spec == Init /\ [][Next]_vars

\* Workers run and the event loop turns.
Fairness == /\ WF_vars(addPath)
            /\ WF_vars(directoryChanged)
            /\ WF_vars(loadTask)
            /\ WF_vars(finishUpdate)
            /\ WF_vars(\E t \in DOMAIN list.tickets : parseTask(t))
            /\ WF_vars(\E t \in DOMAIN list.tickets : finishModParse(t))
FairSpec == Spec /\ Fairness

-----------------------------------------------------------------------------
(* Properties. *)

\* While the page is open, a change of the folder that no scan has seen is on its way:
\* the watcher has something to tell, a scan has still to read, or another one follows
\* (ModFolderModel.cpp:71-116, 198-209; ModFolderPage.cpp:277-290 on what opening the
\* page must not miss).
NothingDue == page = "open" /\ ~event /\ ~scheduled /\ scan.state # "running"
NoChangeMissed == NothingDue => scan.mods = folder

\* An open page comes to show the folder as it is, each mod once, with what was read
\* from its present file: whatever order scans, reads and changes come in, as long as
\* no mod was toggled at a bad moment (ModFolderModel.cpp:118-243).
Shown == {<<row.id, row.time, row.details>> : row \in ToSet(list.rows)}
ShowsFolder == /\ Shown = {<<id, folder[id], folder[id]>> : id \in Present(folder)}
               /\ Len(list.rows) = Cardinality(Present(folder))
ShownIsTrue == page = "open" ~> (page # "open" \/ ShowsFolder \/ mixed)
=============================================================================
