------------------------------- MODULE Updater -------------------------------
(***************************************************************************)
(* launcher/updater: an update of the launcher's own installation, in two  *)
(* passes that are processes of their own, and the launcher's next start.  *)
(* The first pass checks and backs up; the second one, once the first is   *)
(* gone, replaces the files.  A lock file in the data directory is all     *)
(* that they and the launcher know of each other.                          *)
(*                                                                         *)
(* A release is its files, and a file is the version it is from.           *)
(* Downloads, archives and the probing of the second pass's program are    *)
(* left out: each of them succeeds or fails before anything is touched.    *)
(***************************************************************************)
EXTENDS Integers, SequencesExt

CONSTANTS File, Launcher,   \* what a release consists of, the launcher's own file
          Version,
          None,             \* no version, no file: one that is not there
          MaxAttempts,      \* bounds: updates that are started,
          MaxFaults,        \* writes that fail,
          MaxCrashes,       \* passes that die
          Patient           \* a lock is ignored only when no updater runs

ASSUME UpdaterAssumption ==
  /\ Launcher \in File
  /\ None \notin Version \cup File
  /\ MaxAttempts \in Nat /\ MaxFaults \in Nat /\ MaxCrashes \in Nat
  /\ Patient \in BOOLEAN

VARIABLES install,      \* the installation: the version each of its files is from
          backups,      \* the directories backup_*, newest first
          lock,         \* .meshmc_update.lock
          failMarker,   \* .meshmc_update.fail is there
          first, second,   \* the two passes
          target,       \* the version that is being installed
          launcher,
          attempt, faults, crashes,   \* counted against the bounds
          told,         \* the user knows of the mix that is installed (history)
          before,       \* the installation when the update was started (history)
          backedUp      \* every file was copied to a backup in this update (history)
counts == <<attempt, faults, crashes>>
history == <<told, before, backedUp>>
vars == <<install, backups, lock, failMarker, first, second, target, launcher, counts, history>>

Opt(S) == S \cup {None}
NoLock == [there |-> FALSE, stage |-> 0, attempt |-> 0]
NoSecond == [phase |-> "none", waits |-> FALSE, todo |-> {}, removed |-> None, failed |-> FALSE]
Files == [File -> Opt(Version)]
Backup == [stamp : Version, files : Files]
kBackupsToKeep == 2

TypeOK ==
  /\ install \in Files /\ before \in Files
  /\ backups \in Seq(Backup) /\ Len(backups) <= kBackupsToKeep
  /\ \A m, n \in DOMAIN backups : backups[m].stamp = backups[n].stamp => m = n
  /\ lock \in [there : BOOLEAN, stage : 0..2, attempt : 0..MaxAttempts]
  /\ failMarker \in BOOLEAN
  /\ first \in {"none", "checking", "unpacking", "handing", "waiting", "unchanged", "unknown"}
  /\ second \in [phase : {"none", "started", "claimed", "installing", "unlocking", "restarting"},
                 waits : BOOLEAN, todo : SUBSET File, removed : Opt(File), failed : BOOLEAN]
  /\ target \in Opt(Version)
  /\ launcher \in {"off", "starting", "askLock", "askFail", "on"}
  /\ attempt \in 0..MaxAttempts /\ faults \in 0..MaxFaults /\ crashes \in 0..MaxCrashes
  /\ told \in BOOLEAN /\ backedUp \in BOOLEAN

Whole(files) == \E v \in Version : files = [f \in File |-> v]
Release(v) == [f \in File |-> v]

\* A launcher that was updated before, or never was.
Init == /\ \E v \in Version : install = Release(v)
        /\ before = install
        /\ backups \in {<<>>} \cup
             {<<[stamp |-> v, files |-> Release(v)], [stamp |-> w, files |-> Release(w)]>> :
                 v \in Version, w \in Version}
        /\ \A m, n \in DOMAIN backups : backups[m].stamp = backups[n].stamp => m = n
        /\ \A n \in DOMAIN backups : backups[n].files # install
        /\ lock = NoLock
        /\ failMarker = FALSE
        /\ first = "none"
        /\ second = NoSecond
        /\ target = None
        /\ launcher = "on"
        /\ attempt = 0 /\ faults = 0 /\ crashes = 0
        /\ told = FALSE /\ backedUp = FALSE

\* One more write that fails.
Fault == faults < MaxFaults /\ faults' = faults + 1
NoFault == UNCHANGED faults

NoUpdater == first = "none" /\ second.phase = "none"

-----------------------------------------------------------------------------
(* The launcher. *)

Launched == UNCHANGED <<install, backups, first, second, target, counts, before, backedUp>>

\* MeshMCExternalUpdater::performUpdate(): the launcher starts the updater and exits.
performUpdate(v) ==
  /\ launcher = "on" /\ NoUpdater
  /\ attempt < MaxAttempts
  /\ v # install[Launcher]
  /\ launcher' = "off"
  /\ first' = "checking"
  /\ target' = v
  /\ attempt' = attempt + 1
  /\ UNCHANGED <<install, backups, lock, failMarker, second, faults, crashes, history>>

\* The user starts the launcher, or closes it.
startLauncher ==
  /\ launcher = "off" /\ install[Launcher] # None
  /\ launcher' = "starting"
  /\ Launched /\ UNCHANGED <<lock, failMarker, told>>
exitLauncher ==
  /\ launcher = "on"
  /\ launcher' = "off"
  /\ Launched /\ UNCHANGED <<lock, failMarker, told>>

\* reportUpdateMarkers(): up to the first question that it asks ...
reportUpdateMarkers ==
  /\ launcher = "starting"
  /\ launcher' = IF lock.there THEN "askLock" ELSE IF failMarker THEN "askFail" ELSE "on"
  /\ Launched /\ UNCHANGED <<lock, failMarker, told>>

\* ... and on from there: the user ignores what it says, or exits.
ignoreLock ==
  /\ launcher = "askLock"
  /\ Patient => NoUpdater
  /\ lock' = NoLock
  /\ told' = TRUE
  /\ launcher' = IF failMarker THEN "askFail" ELSE "on"
  /\ Launched /\ UNCHANGED failMarker
ignoreFail ==
  /\ launcher = "askFail"
  /\ failMarker' = FALSE
  /\ told' = TRUE
  /\ launcher' = "on"
  /\ Launched /\ UNCHANGED lock
abortStart ==
  /\ launcher \in {"askLock", "askFail"}
  /\ launcher' = "off"
  /\ Launched /\ UNCHANGED <<lock, failMarker, told>>

-----------------------------------------------------------------------------
(* The lock file. *)

\* UpdateLockFile::write(), which may leave what was there, or an empty file.
write(stage) ==
  \/ NoFault /\ lock' = [there |-> TRUE, stage |-> stage, attempt |-> attempt]
  \/ Fault /\ lock' \in {lock, [NoLock EXCEPT !.there = TRUE]}

-----------------------------------------------------------------------------
(* The first pass. *)

\* installFrom(): the user may cancel when there is a lock; otherwise it is written.
installFrom ==
  /\ first = "checking"
  /\ \/ /\ lock.there
        /\ first' = "none"
        /\ UNCHANGED <<lock, faults, history>>
     \/ /\ first' = "unpacking"
        /\ before' = install
        /\ backedUp' = FALSE
        /\ told' = (~Whole(install) /\ (told \/ lock.there))
        /\ write(1)
  /\ UNCHANGED <<install, backups, failMarker, second, target, launcher, attempt, crashes>>

\* What becomes of the lock when installFrom() ends in a state of the first pass.
lockAfterMutant(p) == IF p # "none" THEN NoLock ELSE lock
lockAfter(p) == IF p = "unchanged" THEN NoLock ELSE lock

\* Every way out of unpackAndHandOff() leads here, to a message or to the exit.
ends(p) ==
  /\ first' = p
  /\ lock' = lockAfter(p)

\* The release cannot be unpacked, has no launcher or no program for the second pass; or,
\* after the backup, the marker cannot be written or that program not be started.
unpackFails ==
  /\ first \in {"unpacking", "handing"}
  /\ ends("unchanged")
  /\ UNCHANGED <<install, backups, failMarker, second, target, launcher, counts, history>>

\* The backups with this stamp: one at most.
Older(stamp) == {n \in DOMAIN backups : backups[n].stamp = stamp}

\* The backup of the files in S on top of an older one of the same stamp.
copied(stamp, S) ==
  LET old == IF Older(stamp) = {} THEN [f \in File |-> None]
             ELSE backups[Min(Older(stamp))].files
  IN [stamp |-> stamp,
      files |-> [f \in File |-> IF f \in S /\ install[f] # None THEN install[f] ELSE old[f]]]

\* Directories are sorted by when they were modified last: one that is written to again
\* counts as new, or stays where it was when only its subdirectories changed.
Placed(b) ==
  IF Older(b.stamp) = {} THEN {<<b>> \o backups}
  ELSE LET n == Min(Older(b.stamp))
       IN {<<b>> \o RemoveAt(backups, n), [backups EXCEPT ![n] = b]}

pruneBackupsOneMoreMutant(bs) == SubSeq(bs, 1, Min({Len(bs), kBackupsToKeep + 1}))
pruneBackupsMutant(bs) == SubSeq(bs, 1 + Max({0, Len(bs) - kBackupsToKeep}), Len(bs))
pruneBackups(bs) == SubSeq(bs, 1, Min({Len(bs), kBackupsToKeep}))

\* Named after the launcher's version, or the updater's when there is no launcher.
Stamps == IF install[Launcher] # None THEN {install[Launcher]} ELSE Version

\* backupInstallation(): what cannot be copied is logged, and the update goes on.
backupInstallation ==
  /\ first = "unpacking"
  /\ first' = "handing"
  /\ \/ \E S \in {File} \cup {File \ {f} : f \in File}, stamp \in Stamps :
          /\ IF S = File THEN NoFault ELSE Fault
          /\ backedUp' = (S = File)
          /\ \E bs \in Placed(copied(stamp, S)) : backups' = pruneBackups(bs)
     \/ /\ Fault
        /\ UNCHANGED <<backups, backedUp>>
  /\ UNCHANGED <<install, lock, failMarker, second, target, launcher, attempt, crashes, told,
                 before>>

\* The second pass is started.
handOff ==
  /\ first = "handing"
  /\ first' = "waiting"
  /\ second' = [NoSecond EXCEPT !.phase = "started"]
  /\ UNCHANGED <<install, backups, lock, failMarker, target, launcher, counts, history>>

\* waitForInstallStageTakeover(): the takeover is seen; the second pass is seen to be dead;
\* or neither in 30 seconds.
waitForInstallStageTakeover ==
  /\ first = "waiting"
  /\ \/ lock.stage = 2 /\ ends("none")
     \/ lock.stage # 2 /\ second.phase = "none" /\ ends("unchanged")
     \/ lock.stage # 2 /\ second.phase # "none" /\ ends("unknown")
  /\ UNCHANGED <<install, backups, failMarker, second, target, launcher, counts, history>>

\* The message is closed, and the first pass exits.
dismiss ==
  /\ first \in {"unchanged", "unknown"}
  /\ first' = "none"
  /\ UNCHANGED <<install, backups, lock, failMarker, second, target, launcher, counts, history>>

-----------------------------------------------------------------------------
(* The second pass. *)

claimLockForInstallStage ==
  /\ second.phase = "started"
  /\ second' = [second EXCEPT !.phase = "claimed",
                              !.waits = (lock.stage = 1 /\ lock.attempt = attempt)]
  /\ write(2)
  /\ UNCHANGED <<install, backups, failMarker, first, target, launcher, attempt, crashes,
                 history>>

\* The first pass has exited, or has had 30 seconds to.  Its own 30 seconds began earlier
\* and a second passes before anything is copied: by then it has given up, and has seen a
\* takeover that it could see, as it looks five times a second.
FirstHasDecided == first = "waiting" => ~second.waits /\ lock.stage # 2

beginInstallMutant ==
  /\ second.phase = "claimed"
  /\ second' = [second EXCEPT !.phase = "installing", !.todo = File]
  /\ UNCHANGED <<install, backups, lock, failMarker, first, target, launcher, counts, history>>

beginInstall ==
  /\ second.phase = "claimed"
  /\ FirstHasDecided
  /\ second' = [second EXCEPT !.phase = "installing", !.todo = File]
  /\ UNCHANGED <<install, backups, lock, failMarker, first, target, launcher, counts, history>>

\* copyOverFile(): the old file is removed, then the new one is copied.  When one of them
\* fails the install goes on with the next file.
removeOld(f) ==
  /\ second.phase = "installing" /\ second.removed = None
  /\ f \in second.todo
  /\ \/ /\ NoFault
        /\ second' = [second EXCEPT !.removed = f]
        /\ install' = [install EXCEPT ![f] = None]
     \/ /\ Fault /\ install[f] # None
        /\ second' = [second EXCEPT !.todo = @ \ {f}, !.failed = TRUE]
        /\ UNCHANGED install
  /\ UNCHANGED <<backups, lock, failMarker, first, target, launcher, attempt, crashes, history>>

copyNew ==
  /\ second.phase = "installing" /\ second.removed # None
  /\ \/ /\ NoFault
        /\ second' = [second EXCEPT !.todo = @ \ {second.removed}, !.removed = None]
        /\ install' = [install EXCEPT ![second.removed] = target]
     \/ /\ Fault
        /\ second' = [second EXCEPT !.todo = @ \ {second.removed}, !.removed = None,
                                    !.failed = TRUE]
        /\ UNCHANGED install
  /\ UNCHANGED <<backups, lock, failMarker, first, target, launcher, attempt, crashes, history>>

\* The end of finishUpdate(): the marker, the lock, and the launcher's restart.
writeMarker ==
  /\ second.phase = "installing" /\ second.todo = {}
  /\ second' = [second EXCEPT !.phase = "unlocking"]
  /\ \/ NoFault /\ failMarker' = (failMarker \/ second.failed)
     \/ Fault /\ failMarker' \in {failMarker, failMarker /\ ~second.failed}
  /\ UNCHANGED <<install, backups, lock, first, target, launcher, attempt, crashes, history>>

removeLock ==
  /\ second.phase = "unlocking"
  /\ second' = [second EXCEPT !.phase = "restarting"]
  /\ lock' = NoLock
  /\ UNCHANGED <<install, backups, failMarker, first, target, launcher, counts, history>>

restartLauncher ==
  /\ second.phase = "restarting"
  /\ second' = NoSecond
  /\ launcher' = IF launcher = "off" /\ install[Launcher] # None THEN "starting" ELSE launcher
  /\ UNCHANGED <<install, backups, lock, failMarker, first, target, counts, history>>

-----------------------------------------------------------------------------
\* A pass dies, at any time; the first one perhaps in the middle of the backup.
firstDies ==
  /\ first # "none" /\ crashes < MaxCrashes
  /\ crashes' = crashes + 1
  /\ first' = "none"
  /\ \/ UNCHANGED backups
     \/ /\ first = "unpacking"
        /\ \E S \in SUBSET File, stamp \in Stamps :
             \E bs \in Placed(copied(stamp, S)) : backups' = pruneBackups(bs)
  /\ UNCHANGED <<install, lock, failMarker, second, target, launcher, attempt, faults, history>>

secondDies ==
  /\ second.phase # "none" /\ crashes < MaxCrashes
  /\ crashes' = crashes + 1
  /\ second' = NoSecond
  /\ UNCHANGED <<install, backups, lock, failMarker, first, target, launcher, attempt, faults,
                 history>>

Next == \/ \E v \in Version : performUpdate(v)
        \/ startLauncher \/ exitLauncher
        \/ reportUpdateMarkers \/ ignoreLock \/ ignoreFail \/ abortStart
        \/ installFrom \/ unpackFails \/ backupInstallation \/ handOff
        \/ waitForInstallStageTakeover \/ dismiss
        \/ claimLockForInstallStage \/ beginInstall
        \/ \E f \in File : removeOld(f)
        \/ copyNew \/ writeMarker \/ removeLock \/ restartLauncher
        \/ firstDies \/ secondDies

Spec == Init /\ [][Next]_vars

-----------------------------------------------------------------------------
(* Properties. *)

\* An installation that is a mix of two versions is not used unknowingly: the launcher
\* comes up on one only after the user has been told, whichever pass died or could not
\* write, and however the lock and the marker were left (MeshUpdaterApp.cpp:1310-1322,
\* 2045-2056, Application.cpp:1925-1994).
NoSilentMix ==
  [][launcher # "on" /\ launcher' = "on" => Whole(install) \/ told']_vars

\* When the user reads that the update has failed and the installation has not been
\* changed, it has not been, and nothing is left that could still change it
\* (MeshUpdaterApp.cpp:1314-1325, 1505-1530).
NothingChangedIsTrue == first = "unchanged" => install = before /\ second.phase = "none"

\* What an update has backed up can be put back as long as no other update is started,
\* whatever has been pruned (MeshUpdaterApp.cpp:1763-1870, 2211-2229).
RollBack ==
  backedUp => \E n \in DOMAIN backups :
                \A f \in File : before[f] # None => backups[n].files[f] = before[f]
=============================================================================
