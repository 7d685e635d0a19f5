--------------------------- MODULE Updater_proofs ---------------------------
(***************************************************************************)
(* Proofs about Updater: with any files, versions, updates and dying       *)
(* passes, if at most one write fails and the user does not ignore a lock  *)
(* while an updater runs, no mix of two versions is started unknowingly    *)
(* and "has not been changed" is true when it is said.  What was backed up *)
(* can be put back whatever fails and whatever the user does.              *)
(***************************************************************************)
EXTENDS Updater, TLAPS

\* What the theorems assume beyond the module: two failing writes can leave a mix that
\* nothing tells of.
Mild == MaxFaults <= 1 /\ Patient

Phases == {"none", "started", "claimed", "installing", "unlocking", "restarting"}

Typed ==
  /\ install \in Files
  /\ faults \in 0..MaxFaults
  /\ second \in [phase : Phases, waits : BOOLEAN, todo : SUBSET File, removed : Opt(File),
                 failed : BOOLEAN]
  /\ failMarker \in BOOLEAN
  /\ first # "none" \/ second.phase # "none" => target \in Version

\* The second pass runs when the first one has given way to it, and touches nothing
\* before that has decided what to say.
Order ==
  /\ first \in {"checking", "unpacking", "handing", "unchanged"} => second.phase = "none"
  /\ first = "waiting" => second.phase \in {"none", "started", "claimed"}
  /\ first \in {"unpacking", "handing", "waiting", "unchanged"} => install = before

\* The lock is the one that this update wrote, unless a write failed.
Own == [there |-> TRUE, stage |-> 1, attempt |-> attempt]
Announced ==
  /\ \/ first \in {"unpacking", "handing"}
     \/ first = "waiting" /\ second.phase = "started"
     => lock = Own \/ faults # 0
  /\ first = "waiting" /\ second.phase = "claimed" => second.waits \/ lock.stage = 2

\* The second pass works behind a lock.
Held ==
  /\ second.phase = "started" => lock.there \/ faults # 0
  /\ second.phase \in {"claimed", "installing", "unlocking"} => lock.there

\* A file that the second pass is done with is new, unless a write failed.
Progress ==
  /\ second.failed => faults # 0
  /\ second.phase = "installing" =>
       /\ second.removed \in second.todo \cup {None}
       /\ second.failed \/ \A f \in File \ second.todo : install[f] = target

\* A mix that the user was not told of: a lock or a marker tells of it, and the marker
\* when the lock is about to go.
Silent == ~Whole(install) /\ ~told
Known ==
  /\ Silent => lock.there \/ failMarker
  /\ \/ first \in {"unpacking", "handing", "waiting", "unchanged"}
     \/ second.phase = "unlocking"
     => (Silent => failMarker)

IInv == Typed /\ Order /\ Announced /\ Held /\ Progress /\ Known

-----------------------------------------------------------------------------
(* The launcher. *)

LEMMA PerformUpdateStep ==
  ASSUME IInv, NEW v \in Version, performUpdate(v)
  PROVE  IInv'
<1>1. /\ first = "none" /\ second.phase = "none"
      /\ first' = "checking" /\ target' = v
      /\ UNCHANGED <<install, lock, failMarker, second, faults, told, before>>
  BY DEF performUpdate, NoUpdater, history
<1>2. Typed'
  BY <1>1 DEF IInv, Typed
<1>3. Order' /\ Announced' /\ Held'
  BY <1>1 DEF IInv, Order, Announced, Held
<1>4. Progress' /\ Known'
  BY <1>1 DEF IInv, Progress, Known, Silent
<1> QED
  BY <1>2, <1>3, <1>4 DEF IInv

\* Nothing but the launcher's own state changes.
LEMMA LauncherStep ==
  ASSUME IInv, Launched, UNCHANGED <<lock, failMarker, told>>
  PROVE  IInv'
<1>1. UNCHANGED <<install, lock, failMarker, first, second, target, attempt, faults, told, before>>
  BY DEF Launched, counts
<1>2. Typed'
  BY <1>1 DEF IInv, Typed
<1>3. Order' /\ Announced' /\ Held'
  BY <1>1 DEF IInv, Order, Announced, Held, Own
<1>4. Progress' /\ Known'
  BY <1>1 DEF IInv, Progress, Known, Silent
<1> QED
  BY <1>2, <1>3, <1>4 DEF IInv

LEMMA IgnoreLockStep ==
  ASSUME Mild, IInv, ignoreLock
  PROVE  IInv'
<1>1. /\ first = "none" /\ second.phase = "none" /\ told'
      /\ UNCHANGED <<install, failMarker, first, second, target, faults>>
  BY DEF ignoreLock, Launched, counts, Mild, NoUpdater
<1>2. Typed'
  BY <1>1 DEF IInv, Typed
<1>3. Order' /\ Announced' /\ Held'
  BY <1>1 DEF Order, Announced, Held
<1>4. Progress' /\ Known'
  BY <1>1 DEF IInv, Progress, Known, Silent
<1> QED
  BY <1>2, <1>3, <1>4 DEF IInv

LEMMA IgnoreFailStep ==
  ASSUME IInv, ignoreFail
  PROVE  IInv'
<1>1. /\ told' /\ failMarker' = FALSE
      /\ UNCHANGED <<install, lock, first, second, target, attempt, faults, before>>
  BY DEF ignoreFail, Launched, counts
<1>2. Typed'
  BY <1>1 DEF IInv, Typed
<1>3. Order' /\ Announced' /\ Held'
  BY <1>1 DEF IInv, Order, Announced, Held, Own
<1>4. Progress' /\ Known'
  BY <1>1 DEF IInv, Progress, Known, Silent
<1> QED
  BY <1>2, <1>3, <1>4 DEF IInv

-----------------------------------------------------------------------------
(* The first pass. *)

\* A lock that is written is there, as it was meant or because a write failed.
LEMMA Written ==
  ASSUME Mild, Typed, NEW stage \in 1..2, write(stage)
  PROVE  /\ faults' \in 0..MaxFaults
         /\ faults # 0 => faults' = faults
         /\ \/ lock' = [there |-> TRUE, stage |-> stage, attempt |-> attempt] /\ faults' = faults
            \/ lock' = lock /\ faults' # 0 /\ faults = 0
            \/ lock' = [NoLock EXCEPT !.there = TRUE] /\ faults' # 0 /\ faults = 0
<1>1. MaxFaults \in Nat
  BY UpdaterAssumption
<1>2. CASE NoFault /\ lock' = [there |-> TRUE, stage |-> stage, attempt |-> attempt]
  BY <1>2 DEF NoFault, Typed
<1>3. CASE Fault /\ lock' \in {lock, [NoLock EXCEPT !.there = TRUE]}
  BY <1>1, <1>3 DEF Fault, Typed, Mild
<1> QED
  BY <1>2, <1>3 DEF write

LEMMA InstallFromStep ==
  ASSUME Mild, IInv, installFrom
  PROVE  IInv'
<1>1. /\ first = "checking" /\ second.phase = "none"
      /\ UNCHANGED <<install, failMarker, second, target, attempt>>
  BY DEF installFrom, IInv, Order
<1>2. CASE lock.there /\ first' = "none" /\ UNCHANGED <<lock, faults, history>>
  <2>1. Typed'
    BY <1>1, <1>2 DEF IInv, Typed
  <2>2. Order' /\ Announced' /\ Held'
    BY <1>1, <1>2 DEF Order, Announced, Held
  <2>3. Progress' /\ Known'
    BY <1>1, <1>2 DEF IInv, Progress, Known, Silent, history
  <2> QED
    BY <2>1, <2>2, <2>3 DEF IInv
<1>3. CASE /\ first' = "unpacking"
           /\ before' = install
           /\ told' = (~Whole(install) /\ (told \/ lock.there))
           /\ write(1)
  <2>1. /\ faults' \in 0..MaxFaults
        /\ faults # 0 => faults' = faults
        /\ \/ lock' = [there |-> TRUE, stage |-> 1, attempt |-> attempt] /\ faults' = faults
           \/ lock' = lock /\ faults' # 0 /\ faults = 0
           \/ lock' = [NoLock EXCEPT !.there = TRUE] /\ faults' # 0 /\ faults = 0
    BY <1>3, Written DEF IInv
  <2>2. Typed'
    BY <1>1, <1>3, <2>1 DEF IInv, Typed
  <2>3. Order' /\ Held'
    BY <1>1, <1>3 DEF Order, Held
  <2>4. Announced'
    BY <1>1, <1>3, <2>1 DEF Announced, Own
  <2>5. Progress'
    BY <1>1, <2>1 DEF IInv, Typed, Progress
  <2>6. Silent' => failMarker
    BY <1>1, <1>3 DEF IInv, Known, Silent
  <2> QED
    BY <1>1, <1>3, <2>2, <2>3, <2>4, <2>5, <2>6 DEF IInv, Known
<1> QED
  BY <1>2, <1>3 DEF installFrom

\* The first pass gives up before the second one is started.
LEMMA UnpackFailsStep ==
  ASSUME IInv, unpackFails
  PROVE  IInv'
<1>1. /\ first \in {"unpacking", "handing"} /\ first' = "unchanged"
      /\ second.phase = "none"
      /\ UNCHANGED <<install, failMarker, second, target, faults, told, before>>
  BY DEF unpackFails, ends, IInv, Order, counts, history
<1>2. Typed'
  BY <1>1 DEF IInv, Typed
<1>3. Order' /\ Announced' /\ Held'
  BY <1>1 DEF IInv, Order, Announced, Held
<1>4. Progress' /\ Known'
  BY <1>1 DEF IInv, Progress, Known, Silent
<1> QED
  BY <1>2, <1>3, <1>4 DEF IInv

LEMMA BackupStep ==
  ASSUME Mild, IInv, backupInstallation
  PROVE  IInv'
<1>1. /\ first = "unpacking" /\ first' = "handing"
      /\ faults' = faults \/ (faults = 0 /\ faults' = 1 /\ MaxFaults = 1)
      /\ UNCHANGED <<install, lock, failMarker, second, target, attempt, told, before>>
  <2>1. NoFault \/ Fault
    BY DEF backupInstallation
  <2>2. MaxFaults \in Nat
    BY UpdaterAssumption
  <2> QED
    BY <2>1, <2>2 DEF backupInstallation, NoFault, Fault, IInv, Typed, Mild
<1>2. Typed'
  BY <1>1 DEF IInv, Typed
<1>3. Order' /\ Announced' /\ Held'
  BY <1>1 DEF IInv, Order, Announced, Held, Own
<1>4. Progress' /\ Known'
  BY <1>1 DEF IInv, Progress, Known, Silent
<1> QED
  BY <1>2, <1>3, <1>4 DEF IInv

LEMMA HandOffStep ==
  ASSUME IInv, handOff
  PROVE  IInv'
<1>1. /\ first = "handing" /\ first' = "waiting"
      /\ second' = [NoSecond EXCEPT !.phase = "started"]
      /\ UNCHANGED <<install, lock, failMarker, target, attempt, faults, told, before>>
  BY DEF handOff, counts, history
<1>2. second' = [phase |-> "started", waits |-> FALSE, todo |-> {}, removed |-> None,
                 failed |-> FALSE]
  BY <1>1 DEF NoSecond
<1>3. Typed'
  <2>1. second' \in [phase : Phases, waits : BOOLEAN, todo : SUBSET File, removed : Opt(File),
                    failed : BOOLEAN]
    BY <1>2 DEF Phases, Opt
  <2>2. target \in Version
    BY <1>1 DEF IInv, Typed
  <2> QED
    BY <1>1, <2>1, <2>2 DEF IInv, Typed
<1>4. Order' /\ Announced' /\ Held'
  BY <1>1, <1>2 DEF IInv, Order, Announced, Held, Own
<1>5. Progress' /\ Known'
  BY <1>1, <1>2 DEF IInv, Progress, Known, Silent
<1> QED
  BY <1>3, <1>4, <1>5 DEF IInv

LEMMA TakeoverStep ==
  ASSUME IInv, waitForInstallStageTakeover
  PROVE  IInv'
<1>1. /\ first = "waiting"
      /\ \/ first' \in {"none", "unknown"} /\ lock' = lock
         \/ first' = "unchanged" /\ second.phase = "none"
      /\ UNCHANGED <<install, failMarker, second, target, attempt, faults, told, before>>
  BY DEF waitForInstallStageTakeover, ends, lockAfter, counts, history
<1>2. Typed'
  BY <1>1 DEF IInv, Typed
<1>3. Order' /\ Announced' /\ Held'
  BY <1>1 DEF IInv, Order, Announced, Held
<1>4. Progress' /\ Known'
  BY <1>1 DEF IInv, Progress, Known, Silent
<1> QED
  BY <1>2, <1>3, <1>4 DEF IInv

\* The first pass exits, with a message or without one.
LEMMA FirstEndsStep ==
  ASSUME IInv, dismiss \/ firstDies
  PROVE  IInv'
<1>1. /\ first # "none" /\ first' = "none"
      /\ UNCHANGED <<install, lock, failMarker, second, target, attempt, faults, told, before>>
  BY DEF dismiss, firstDies, counts, history
<1>2. Typed'
  BY <1>1 DEF IInv, Typed
<1>3. Order' /\ Announced' /\ Held'
  BY <1>1 DEF IInv, Order, Announced, Held
<1>4. Progress' /\ Known'
  BY <1>1 DEF IInv, Progress, Known, Silent
<1> QED
  BY <1>2, <1>3, <1>4 DEF IInv

-----------------------------------------------------------------------------
(* The second pass. *)

LEMMA ClaimStep ==
  ASSUME Mild, IInv, claimLockForInstallStage
  PROVE  IInv'
<1>1. /\ second.phase = "started"
      /\ second' = [second EXCEPT !.phase = "claimed",
                                  !.waits = (lock.stage = 1 /\ lock.attempt = attempt)]
      /\ write(2)
      /\ UNCHANGED <<install, failMarker, first, target, attempt, told, before>>
  BY DEF claimLockForInstallStage, history
<1>2. /\ faults' \in 0..MaxFaults
      /\ faults # 0 => faults' = faults
      /\ \/ lock' = [there |-> TRUE, stage |-> 2, attempt |-> attempt] /\ faults' = faults
         \/ lock' = lock /\ faults' # 0 /\ faults = 0
         \/ lock' = [NoLock EXCEPT !.there = TRUE] /\ faults' # 0 /\ faults = 0
  BY <1>1, Written DEF IInv
<1>3. lock'.there
  BY <1>1, <1>2 DEF IInv, Held, NoLock
<1>4. /\ second' \in [phase : Phases, waits : BOOLEAN, todo : SUBSET File,
                      removed : Opt(File), failed : BOOLEAN]
      /\ second'.phase = "claimed"
      /\ second'.waits = (lock.stage = 1 /\ lock.attempt = attempt)
      /\ second'.failed = second.failed
  BY <1>1 DEF IInv, Typed, Phases
<1>5. Typed'
  BY <1>1, <1>2, <1>4 DEF IInv, Typed
<1>6. Order' /\ Held'
  BY <1>1, <1>3, <1>4 DEF IInv, Order, Held
<1>7. Announced'
  <2>1. CASE first = "waiting"
    <3>1. lock = Own \/ faults # 0
      BY <1>1, <2>1 DEF IInv, Announced
    <3>2. lock'.stage = 2 \/ second'.waits
      BY <1>2, <1>4, <3>1 DEF Own
    <3> QED
      BY <1>1, <1>4, <2>1, <3>2 DEF Announced
  <2>2. CASE first # "waiting"
    BY <1>1, <1>4, <2>2 DEF IInv, Announced, Order
  <2> QED
    BY <2>1, <2>2
<1>8. Progress' /\ Known'
  BY <1>1, <1>2, <1>3, <1>4 DEF IInv, Typed, Progress, Known, Silent
<1> QED
  BY <1>5, <1>6, <1>7, <1>8 DEF IInv

LEMMA BeginStep ==
  ASSUME IInv, beginInstall
  PROVE  IInv'
<1>1. /\ second.phase = "claimed" /\ FirstHasDecided
      /\ second' = [second EXCEPT !.phase = "installing", !.todo = File]
      /\ UNCHANGED <<install, lock, failMarker, first, target, attempt, faults, told, before>>
  BY DEF beginInstall, counts, history
<1>2. first # "waiting"
  BY <1>1 DEF IInv, Announced, FirstHasDecided
<1>3. /\ second' \in [phase : Phases, waits : BOOLEAN, todo : SUBSET File,
                      removed : Opt(File), failed : BOOLEAN]
      /\ second'.phase = "installing" /\ second'.todo = File
      /\ second'.removed = second.removed
      /\ second'.failed = second.failed
  BY <1>1 DEF IInv, Typed, Phases
<1>4. second'.removed \in File \cup {None}
  BY <1>3 DEF Opt
<1>5. Typed'
  BY <1>1, <1>3 DEF IInv, Typed
<1>6. Order' /\ Announced' /\ Held'
  BY <1>1, <1>2, <1>3 DEF IInv, Order, Announced, Held
<1>7. Progress' /\ Known'
  BY <1>1, <1>2, <1>3, <1>4 DEF IInv, Progress, Known, Silent
<1> QED
  BY <1>5, <1>6, <1>7 DEF IInv

\* While files are replaced the first pass is gone and the lock is there: whatever
\* becomes of the files, only their progress is left to show.
LEMMA InstallingStep ==
  ASSUME IInv, second.phase = "installing", second'.phase = "installing",
         Typed', Progress', UNCHANGED <<lock, failMarker, first, target, attempt, told>>
  PROVE  IInv'
<1>1. first \notin {"checking", "unpacking", "handing", "waiting", "unchanged"}
  BY DEF IInv, Order
<1>2. Order' /\ Announced' /\ Held'
  BY <1>1 DEF IInv, Order, Announced, Held
<1>3. Known'
  BY <1>1 DEF IInv, Known, Held
<1> QED
  BY <1>2, <1>3 DEF IInv

\* What a write that fails adds to the count.
LEMMA FaultCounted ==
  ASSUME Mild, Typed, Fault
  PROVE  faults = 0 /\ faults' = 1 /\ faults' \in 0..MaxFaults
<1>1. MaxFaults \in Nat
  BY UpdaterAssumption
<1> QED
  BY <1>1 DEF Mild, Typed, Fault

LEMMA RemoveOldStep ==
  ASSUME Mild, IInv, NEW f \in File, removeOld(f)
  PROVE  IInv'
<1>1. /\ second.phase = "installing" /\ second.removed = None /\ f \in second.todo
      /\ UNCHANGED <<lock, failMarker, first, target, attempt, told>>
  BY DEF removeOld, history
<1>2. None \notin File /\ None \in Opt(Version) /\ f \in Opt(File) /\ None \in Opt(File)
  BY UpdaterAssumption DEF Opt
<1>3. CASE /\ NoFault
           /\ second' = [second EXCEPT !.removed = f]
           /\ install' = [install EXCEPT ![f] = None]
  <2>1. Typed'
    BY <1>1, <1>2, <1>3 DEF IInv, Typed, Files, NoFault
  <2>2. Progress'
    BY <1>1, <1>3 DEF IInv, Typed, Files, NoFault, Progress
  <2>3. second'.phase = "installing"
    BY <1>1, <1>3 DEF IInv, Typed
  <2> QED
    BY <1>1, <2>1, <2>2, <2>3, InstallingStep
<1>4. CASE /\ Fault
           /\ second' = [second EXCEPT !.todo = @ \ {f}, !.failed = TRUE]
           /\ UNCHANGED install
  <2>1. faults' = 1 /\ faults' \in 0..MaxFaults
    BY <1>4, FaultCounted DEF IInv
  <2>2. Typed'
    BY <1>1, <1>4, <2>1 DEF IInv, Typed
  <2>3. Progress'
    BY <1>1, <1>4, <2>1 DEF IInv, Typed, Progress
  <2>4. second'.phase = "installing"
    BY <1>1, <1>4 DEF IInv, Typed
  <2> QED
    BY <1>1, <2>2, <2>3, <2>4, InstallingStep
<1> QED
  BY <1>3, <1>4 DEF removeOld

LEMMA CopyNewStep ==
  ASSUME Mild, IInv, copyNew
  PROVE  IInv'
<1>1. /\ second.phase = "installing" /\ second.removed # None
      /\ UNCHANGED <<lock, failMarker, first, target, attempt, told>>
  BY DEF copyNew, history
<1>2. None \notin File /\ None \in Opt(File)
  BY UpdaterAssumption DEF Opt
<1>3. second.removed \in second.todo /\ second.removed \in File
  BY <1>1 DEF IInv, Typed, Progress
<1>4. target \in Version /\ target \in Opt(Version)
  BY <1>1 DEF IInv, Typed, Opt
<1>5. CASE /\ NoFault
           /\ second' = [second EXCEPT !.todo = @ \ {second.removed}, !.removed = None]
           /\ install' = [install EXCEPT ![second.removed] = target]
  <2>1. Typed'
    BY <1>1, <1>2, <1>3, <1>4, <1>5 DEF IInv, Typed, Files, NoFault
  <2>2. /\ second'.phase = "installing" /\ second'.removed = None
        /\ second'.todo = second.todo \ {second.removed}
        /\ second'.failed = second.failed
    BY <1>1, <1>5 DEF IInv, Typed
  <2>3. second.failed \/ \A f \in File \ (second.todo \ {second.removed}) : install'[f] = target
    BY <1>1, <1>3, <1>5 DEF IInv, Typed, Files, Progress
  <2>4. Progress'
    BY <1>1, <1>5, <2>2, <2>3 DEF IInv, Progress, NoFault
  <2> QED
    BY <1>1, <2>1, <2>2, <2>4, InstallingStep
<1>6. CASE /\ Fault
           /\ second' = [second EXCEPT !.todo = @ \ {second.removed}, !.removed = None,
                                       !.failed = TRUE]
           /\ UNCHANGED install
  <2>1. faults' = 1 /\ faults' \in 0..MaxFaults
    BY <1>6, FaultCounted DEF IInv
  <2>2. Typed'
    BY <1>1, <1>2, <1>6, <2>1 DEF IInv, Typed
  <2>3. second'.phase = "installing" /\ second'.removed = None /\ second'.failed
    BY <1>1, <1>6 DEF IInv, Typed
  <2>4. Progress'
    BY <2>1, <2>3 DEF Progress
  <2> QED
    BY <1>1, <2>2, <2>3, <2>4, InstallingStep
<1> QED
  BY <1>5, <1>6 DEF copyNew

LEMMA WriteMarkerStep ==
  ASSUME Mild, IInv, writeMarker
  PROVE  IInv'
<1>1. /\ second.phase = "installing" /\ second.todo = {}
      /\ second' = [second EXCEPT !.phase = "unlocking"]
      /\ UNCHANGED <<install, lock, first, target, attempt, told>>
  BY DEF writeMarker, history
<1>2. /\ second' \in [phase : Phases, waits : BOOLEAN, todo : SUBSET File,
                      removed : Opt(File), failed : BOOLEAN]
      /\ second'.phase = "unlocking" /\ second'.failed = second.failed
  BY <1>1 DEF IInv, Typed, Phases
<1>3. second.failed \/ Whole(install)
  <2>1. target \in Version
    BY <1>1 DEF IInv, Typed
  <2>2. ~second.failed => install = [f \in File |-> target]
    BY <1>1 DEF IInv, Typed, Files, Progress
  <2> QED
    BY <2>1, <2>2 DEF Whole
<1>4. /\ faults' \in 0..MaxFaults /\ (second.failed => faults' # 0)
      /\ second.failed => failMarker'
      /\ ~second.failed => failMarker' = failMarker
  <2>1. CASE NoFault /\ failMarker' = (failMarker \/ second.failed)
    <3>1. second.failed => failMarker'
      BY <2>1
    <3>2. ~second.failed => failMarker' = failMarker
      BY <2>1 DEF IInv, Typed
    <3>3. UNCHANGED faults
      BY <2>1 DEF NoFault
    <3> QED
      BY <3>1, <3>2, <3>3 DEF IInv, Typed, Progress
  <2>2. CASE Fault /\ failMarker' \in {failMarker, failMarker /\ ~second.failed}
    <3>1. faults = 0 /\ faults' = 1 /\ faults' \in 0..MaxFaults
      BY <2>2, FaultCounted DEF IInv
    <3>2. ~second.failed
      BY <3>1 DEF IInv, Progress
    <3>3. failMarker' = failMarker
      BY <2>2, <3>2 DEF IInv, Typed
    <3> QED
      BY <3>1, <3>2, <3>3
  <2> QED
    BY <2>1, <2>2 DEF writeMarker
<1>5. first \notin {"checking", "unpacking", "handing", "waiting", "unchanged"}
  BY <1>1 DEF IInv, Order
<1>6. Typed'
  <2>1. failMarker' \in BOOLEAN
    BY DEF writeMarker, IInv, Typed
  <2> QED
    BY <1>1, <1>2, <1>4, <2>1 DEF IInv, Typed
<1>7. Order' /\ Announced' /\ Held' /\ Progress'
  BY <1>1, <1>2, <1>4, <1>5 DEF IInv, Order, Announced, Held, Progress
<1>8. Silent' => failMarker'
  BY <1>1, <1>3, <1>4 DEF Silent
<1> QED
  BY <1>6, <1>7, <1>8 DEF IInv, Known

LEMMA RemoveLockStep ==
  ASSUME IInv, removeLock
  PROVE  IInv'
<1>1. /\ second.phase = "unlocking"
      /\ second' = [second EXCEPT !.phase = "restarting"]
      /\ UNCHANGED <<install, failMarker, first, target, attempt, faults, told, before>>
  BY DEF removeLock, counts, history
<1>2. /\ second' \in [phase : Phases, waits : BOOLEAN, todo : SUBSET File,
                      removed : Opt(File), failed : BOOLEAN]
      /\ second'.phase = "restarting" /\ second'.failed = second.failed
  BY <1>1 DEF IInv, Typed, Phases
<1>3. first \notin {"checking", "unpacking", "handing", "waiting", "unchanged"}
  BY <1>1 DEF IInv, Order
<1>4. Typed'
  BY <1>1, <1>2 DEF IInv, Typed
<1>5. Order' /\ Announced' /\ Held' /\ Progress'
  BY <1>1, <1>2, <1>3 DEF IInv, Order, Announced, Held, Progress
<1>6. Known'
  BY <1>1, <1>2, <1>3 DEF IInv, Known, Silent
<1> QED
  BY <1>4, <1>5, <1>6 DEF IInv

\* The second pass exits, having restarted the launcher or not.
LEMMA SecondEndsStep ==
  ASSUME IInv, restartLauncher \/ secondDies
  PROVE  IInv'
<1>1. /\ second.phase # "none" /\ second' = NoSecond
      /\ UNCHANGED <<install, lock, failMarker, first, target, attempt, faults, told, before>>
  BY DEF restartLauncher, secondDies, counts, history
<1>2. /\ second' \in [phase : Phases, waits : BOOLEAN, todo : SUBSET File,
                      removed : Opt(File), failed : BOOLEAN]
      /\ second'.phase = "none" /\ ~second'.failed
  BY <1>1 DEF NoSecond, Phases, Opt
<1>3. Typed'
  BY <1>1, <1>2 DEF IInv, Typed
<1>4. first \notin {"checking", "unpacking", "handing", "unchanged"}
  BY <1>1 DEF IInv, Order
<1>5. Order' /\ Announced' /\ Held' /\ Progress'
  BY <1>1, <1>2, <1>4 DEF IInv, Order, Announced, Held, Progress
<1>6. Known'
  BY <1>1, <1>2 DEF IInv, Known, Silent
<1> QED
  BY <1>3, <1>5, <1>6 DEF IInv

-----------------------------------------------------------------------------
LEMMA InitInv == Init => IInv
<1> SUFFICES ASSUME Init
             PROVE  IInv
  OBVIOUS
<1>1. PICK v \in Version : install = Release(v)
  BY DEF Init
<1>2. Whole(install)
  BY <1>1 DEF Whole, Release
<1>3. /\ first = "none" /\ faults = 0
      /\ second.phase = "none" /\ ~second.failed
      /\ second \in [phase : Phases, waits : BOOLEAN, todo : SUBSET File,
                     removed : Opt(File), failed : BOOLEAN]
  BY DEF Init, NoSecond, Phases, Opt
<1>4. install \in Files
  BY <1>1 DEF Release, Files, Opt
<1>5. faults \in 0..MaxFaults /\ failMarker \in BOOLEAN
  <2>1. MaxFaults \in Nat
    BY UpdaterAssumption
  <2>2. failMarker = FALSE
    BY DEF Init
  <2>3. faults \in 0..MaxFaults
    BY <1>3, <2>1
  <2>4. failMarker \in BOOLEAN
    BY <2>2
  <2> QED
    BY <2>3, <2>4
<1>6. Typed
  BY <1>3, <1>4, <1>5 DEF Typed
<1>7. Order /\ Announced /\ Held /\ Progress
  BY <1>3 DEF Order, Announced, Held, Progress
<1>8. Known
  BY <1>2, <1>3 DEF Known, Silent
<1> QED
  BY <1>6, <1>7, <1>8 DEF IInv

LEMMA NextInv ==
  ASSUME Mild
  PROVE  IInv /\ [Next]_vars => IInv'
<1> SUFFICES ASSUME IInv, [Next]_vars
             PROVE  IInv'
  OBVIOUS
<1>1. ASSUME NEW v \in Version, performUpdate(v)
      PROVE  IInv'
  BY <1>1, PerformUpdateStep
<1>2. CASE startLauncher \/ exitLauncher \/ reportUpdateMarkers \/ abortStart
  <2>1. Launched /\ UNCHANGED <<lock, failMarker, told>>
    BY <1>2 DEF startLauncher, exitLauncher, reportUpdateMarkers, abortStart
  <2> QED
    BY <2>1, LauncherStep
<1>3. CASE ignoreLock
  BY <1>3, IgnoreLockStep
<1>4. CASE ignoreFail
  BY <1>4, IgnoreFailStep
<1>5. CASE installFrom
  BY <1>5, InstallFromStep
<1>6. CASE unpackFails
  BY <1>6, UnpackFailsStep
<1>7. CASE backupInstallation
  BY <1>7, BackupStep
<1>8. CASE handOff
  BY <1>8, HandOffStep
<1>9. CASE waitForInstallStageTakeover
  BY <1>9, TakeoverStep
<1>10. CASE dismiss \/ firstDies
  BY <1>10, FirstEndsStep
<1>11. CASE claimLockForInstallStage
  BY <1>11, ClaimStep
<1>12. CASE beginInstall
  BY <1>12, BeginStep
<1>13. ASSUME NEW f \in File, removeOld(f)
       PROVE  IInv'
  BY <1>13, RemoveOldStep
<1>14. CASE copyNew
  BY <1>14, CopyNewStep
<1>15. CASE writeMarker
  BY <1>15, WriteMarkerStep
<1>16. CASE removeLock
  BY <1>16, RemoveLockStep
<1>17. CASE restartLauncher \/ secondDies
  BY <1>17, SecondEndsStep
<1>18. CASE UNCHANGED vars
  <2>1. Launched /\ UNCHANGED <<lock, failMarker, told>>
    BY <1>18 DEF vars, Launched, counts, history
  <2> QED
    BY <2>1, LauncherStep
<1> QED
  BY <1>1, <1>2, <1>3, <1>4, <1>5, <1>6, <1>7, <1>8, <1>9, <1>10, <1>11, <1>12, <1>13, <1>14,
     <1>15, <1>16, <1>17, <1>18 DEF Next

LEMMA Invariance ==
  ASSUME Mild
  PROVE  Spec => []IInv
<1>1. Init => IInv
  BY InitInv
<1>2. IInv /\ [Next]_vars => IInv'
  BY NextInv
<1> QED
  BY <1>1, <1>2, PTL DEF Spec

-----------------------------------------------------------------------------
(* Backups, however many writes fail and locks are ignored.                *)

Distinct(bs) == \A m, n \in DOMAIN bs : bs[m].stamp = bs[n].stamp => m = n
Listed(bs) == bs \in Seq(Backup) /\ Len(bs) <= kBackupsToKeep /\ Distinct(bs)

\* Until the second pass is started nothing is installed, and a backup that was begun is
\* not counted as made.
Untouched == /\ first \in {"checking", "unpacking", "handing"} => second.phase = "none"
             /\ first = "unpacking" => ~backedUp /\ install = before
RInv == TypeOK /\ Untouched /\ RollBack

\* Of two numbers.
LEMMA MinOfTwo ==
  ASSUME NEW k \in Nat, NEW n \in Nat
  PROVE  Min({k, n}) = IF k < n THEN k ELSE n
<1>1. \E x \in {k, n} : \A y \in {k, n} : x <= y
  OBVIOUS
<1>2. Min({k, n}) \in {k, n} /\ \A y \in {k, n} : Min({k, n}) <= y
  BY <1>1 DEF Min
<1> QED
  BY <1>2

\* Pruning keeps the newest backups, in their places.
LEMMA Pruned ==
  ASSUME NEW bs \in Seq(Backup), Distinct(bs)
  PROVE  /\ Listed(pruneBackups(bs))
         /\ \A n \in DOMAIN bs : n <= kBackupsToKeep =>
              n \in DOMAIN pruneBackups(bs) /\ pruneBackups(bs)[n] = bs[n]
<1> DEFINE k == IF Len(bs) < kBackupsToKeep THEN Len(bs) ELSE kBackupsToKeep
<1>1. Len(bs) \in Nat /\ kBackupsToKeep = 2 /\ k \in 0..Len(bs) /\ k <= kBackupsToKeep
  BY DEF kBackupsToKeep
<1>2. pruneBackups(bs) = SubSeq(bs, 1, k)
  BY <1>1, MinOfTwo DEF pruneBackups
<1>3. \A n \in 1..k : bs[n] \in Backup
  BY <1>1
<1> HIDE DEF k
<1>4. /\ SubSeq(bs, 1, k) \in Seq(Backup) /\ Len(SubSeq(bs, 1, k)) = k
      /\ DOMAIN SubSeq(bs, 1, k) = 1..k
      /\ \A n \in 1..k : SubSeq(bs, 1, k)[n] = bs[n]
  BY <1>1, <1>3
<1>5. \A n \in DOMAIN bs : n <= kBackupsToKeep => n \in 1..k
  BY <1>1 DEF k
<1>6. Distinct(SubSeq(bs, 1, k))
  BY <1>1, <1>4 DEF Distinct
<1> QED
  BY <1>1, <1>2, <1>4, <1>5, <1>6 DEF Listed

\* There is one backup of a stamp at most.
LEMMA TheOlder ==
  ASSUME Listed(backups), NEW stamp, Older(stamp) # {}
  PROVE  /\ Min(Older(stamp)) \in 1..Len(backups)
         /\ backups[Min(Older(stamp))].stamp = stamp
<1>1. PICK n \in Older(stamp) : TRUE
  OBVIOUS
<1>2. n \in 1..Len(backups) /\ n \in Nat /\ \A m \in Older(stamp) : m = n
  BY <1>1 DEF Older, Listed, Distinct
<1>3. \A y \in Older(stamp) : n <= y
  BY <1>2
<1>4. Min(Older(stamp)) \in Older(stamp)
  BY <1>1, <1>3 DEF Min
<1> QED
  BY <1>2, <1>4 DEF Older

\* The backup of some files is a backup, and that of all of them has each that is there.
LEMMA CopiedIsBackup ==
  ASSUME TypeOK, NEW stamp \in Version, NEW S
  PROVE  /\ copied(stamp, S) \in Backup /\ copied(stamp, S).stamp = stamp
         /\ \A f \in File \cap S : install[f] # None => copied(stamp, S).files[f] = install[f]
<1> DEFINE old == IF Older(stamp) = {} THEN [f \in File |-> None]
                  ELSE backups[Min(Older(stamp))].files
<1>1. Listed(backups)
  BY DEF TypeOK, Listed, Distinct
<1>2. old \in Files
  <2>1. CASE Older(stamp) = {}
    BY <2>1 DEF Files, Opt
  <2>2. CASE Older(stamp) # {}
    <3>1. backups[Min(Older(stamp))] \in Backup
      BY <1>1, <2>2, TheOlder DEF Listed
    <3> QED
      BY <2>2, <3>1 DEF Backup
  <2> QED
    BY <2>1, <2>2
<1>3. install \in Files
  BY DEF TypeOK
<1>4. copied(stamp, S) =
        [stamp |-> stamp,
         files |-> [f \in File |-> IF f \in S /\ install[f] # None THEN install[f] ELSE old[f]]]
  BY DEF copied
<1> HIDE DEF old
<1> QED
  BY <1>2, <1>3, <1>4 DEF Backup, Files

\* Without its n-th element.
LEMMA Without ==
  ASSUME NEW s \in Seq(Backup), NEW n \in 1..Len(s)
  PROVE  /\ RemoveAt(s, n) \in Seq(Backup) /\ Len(RemoveAt(s, n)) = Len(s) - 1
         /\ \A i \in 1..(Len(s) - 1) : RemoveAt(s, n)[i] = s[IF i < n THEN i ELSE i + 1]
<1>1. Len(s) \in Nat /\ n \in Nat /\ \A i \in 1..Len(s) : s[i] \in Backup
  OBVIOUS
<1> DEFINE front == SubSeq(s, 1, n - 1)
           back == SubSeq(s, n + 1, Len(s))
<1>2. /\ front \in Seq(Backup) /\ Len(front) = n - 1
      /\ \A i \in 1..(n - 1) : front[i] = s[i]
  BY <1>1
<1>3. /\ back \in Seq(Backup) /\ Len(back) = Len(s) - n
      /\ \A i \in 1..(Len(s) - n) : back[i] = s[i + n]
  BY <1>1
<1>4. RemoveAt(s, n) = front \o back
  BY DEF RemoveAt
<1> HIDE DEF front, back
<1> QED
  BY <1>1, <1>2, <1>3, <1>4

\* A new backup comes first, or where there was one with its stamp.
LEMMA PlacedDistinct ==
  ASSUME Listed(backups), NEW b \in Backup, NEW bs \in Placed(b)
  PROVE  /\ bs \in Seq(Backup) /\ Distinct(bs)
         /\ \E n \in DOMAIN bs : n <= kBackupsToKeep /\ bs[n] = b
<1>0. /\ backups \in Seq(Backup) /\ Len(backups) \in Nat /\ Len(backups) <= 2
      /\ kBackupsToKeep = 2 /\ Distinct(backups)
  BY DEF Listed, kBackupsToKeep
<1>f. ASSUME NEW r \in Seq(Backup), Distinct(r), bs = <<b>> \o r,
             \A i \in DOMAIN r : r[i].stamp # b.stamp
      PROVE  /\ bs \in Seq(Backup) /\ Distinct(bs)
             /\ \E n \in DOMAIN bs : n <= kBackupsToKeep /\ bs[n] = b
  <2>1. /\ bs \in Seq(Backup) /\ Len(bs) = Len(r) + 1 /\ Len(r) \in Nat /\ bs[1] = b
        /\ \A i \in 2..(Len(r) + 1) : bs[i] = r[i - 1] /\ i - 1 \in DOMAIN r
    BY <1>f
  <2>2. Distinct(bs)
    BY <1>f, <2>1 DEF Distinct
  <2>3. 1 \in DOMAIN bs /\ 1 <= kBackupsToKeep
    BY <1>0, <2>1
  <2> QED
    BY <2>1, <2>2, <2>3
<1>1. CASE Older(b.stamp) = {}
  <2>1. bs = <<b>> \o backups
    BY <1>1 DEF Placed
  <2> QED
    BY <1>0, <1>1, <1>f, <2>1 DEF Older
<1>2. CASE Older(b.stamp) # {}
  <2> DEFINE n == Min(Older(b.stamp))
  <2>1. n \in 1..Len(backups) /\ backups[n].stamp = b.stamp
    BY <1>2, TheOlder
  <2>2. bs = <<b>> \o RemoveAt(backups, n) \/ bs = [backups EXCEPT ![n] = b]
    BY <1>2 DEF Placed
  <2> HIDE DEF n
  <2>3. CASE bs = <<b>> \o RemoveAt(backups, n)
    <3> DEFINE r == RemoveAt(backups, n)
    <3>1. /\ r \in Seq(Backup) /\ Len(r) = Len(backups) - 1
          /\ \A i \in 1..(Len(backups) - 1) : r[i] = backups[IF i < n THEN i ELSE i + 1]
      BY <1>0, <2>1, Without
    <3> HIDE DEF r
    <3>2. \A i \in DOMAIN r : /\ (IF i < n THEN i ELSE i + 1) \in DOMAIN backups
                              /\ (IF i < n THEN i ELSE i + 1) # n
                              /\ r[i] = backups[IF i < n THEN i ELSE i + 1]
      BY <1>0, <2>1, <3>1
    <3>3. n \in DOMAIN backups
      BY <1>0, <2>1
    <3>4. \A i \in DOMAIN r : r[i].stamp # b.stamp
      BY <1>0, <2>1, <3>2, <3>3 DEF Distinct
    <3>5. Distinct(r)
      <4> SUFFICES ASSUME NEW i \in DOMAIN r, NEW j \in DOMAIN r, r[i].stamp = r[j].stamp
                   PROVE  i = j
        BY DEF Distinct
      <4>1. (IF i < n THEN i ELSE i + 1) = (IF j < n THEN j ELSE j + 1)
        BY <1>0, <3>2 DEF Distinct
      <4>2. i \in Nat /\ j \in Nat /\ n \in Nat
        BY <2>1, <3>1
      <4> QED
        BY <4>1, <4>2
    <3> QED
      BY <1>f, <2>3, <3>1, <3>4, <3>5 DEF r
  <2>4. CASE bs = [backups EXCEPT ![n] = b]
    <3>1. /\ bs \in Seq(Backup) /\ DOMAIN bs = DOMAIN backups /\ n \in DOMAIN bs
          /\ n <= kBackupsToKeep /\ bs[n] = b
      BY <1>0, <2>1, <2>4
    <3>2. \A i \in DOMAIN bs : bs[i].stamp = backups[i].stamp
      BY <1>0, <2>1, <2>4
    <3>3. Distinct(bs)
      BY <1>0, <3>1, <3>2 DEF Distinct
    <3> QED
      BY <3>1, <3>3
  <2> QED
    BY <2>2, <2>3, <2>4
<1> QED
  BY <1>1, <1>2

\* What is left of the backups once one was made.
LEMMA BackedUp ==
  ASSUME TypeOK, NEW S, NEW stamp \in Stamps, NEW bs \in Placed(copied(stamp, S))
  PROVE  /\ Listed(pruneBackups(bs))
         /\ \E n \in DOMAIN pruneBackups(bs) :
              \A f \in File \cap S : install[f] # None =>
                pruneBackups(bs)[n].files[f] = install[f]
<1>1. stamp \in Version /\ Listed(backups)
  BY UpdaterAssumption DEF TypeOK, Stamps, Files, Opt, Listed, Distinct
<1>2. /\ copied(stamp, S) \in Backup
      /\ \A f \in File \cap S : install[f] # None => copied(stamp, S).files[f] = install[f]
  BY <1>1, CopiedIsBackup
<1>3. /\ bs \in Seq(Backup) /\ Distinct(bs)
      /\ \E n \in DOMAIN bs : n <= kBackupsToKeep /\ bs[n] = copied(stamp, S)
  BY <1>1, <1>2, PlacedDistinct
<1> QED
  BY <1>2, <1>3, Pruned

\* Whatever becomes of the lock when it is written.
LEMMA WrittenTyped ==
  ASSUME TypeOK, NEW stage \in 0..2, write(stage)
  PROVE  /\ lock' \in [there : BOOLEAN, stage : 0..2, attempt : 0..MaxAttempts]
         /\ faults' \in 0..MaxFaults
<1>1. MaxFaults \in Nat /\ MaxAttempts \in Nat
  BY UpdaterAssumption
<1>2. CASE NoFault /\ lock' = [there |-> TRUE, stage |-> stage, attempt |-> attempt]
  BY <1>2 DEF NoFault, TypeOK
<1>3. CASE Fault /\ lock' \in {lock, [NoLock EXCEPT !.there = TRUE]}
  <2>1. [NoLock EXCEPT !.there = TRUE]
          \in [there : BOOLEAN, stage : 0..2, attempt : 0..MaxAttempts]
    <3>1. NoLock \in [there : BOOLEAN, stage : 0..2, attempt : 0..MaxAttempts]
      BY <1>1 DEF NoLock
    <3> QED
      BY <3>1
  <2>2. faults' \in 0..MaxFaults
    BY <1>1, <1>3 DEF Fault, TypeOK
  <2>3. lock \in [there : BOOLEAN, stage : 0..2, attempt : 0..MaxAttempts]
    BY DEF TypeOK
  <2> QED
    BY <1>3, <2>1, <2>2, <2>3
<1> QED
  BY <1>2, <1>3 DEF write

LEMMA FaultTyped ==
  ASSUME TypeOK, Fault \/ NoFault
  PROVE  faults' \in 0..MaxFaults
BY UpdaterAssumption DEF TypeOK, Fault, NoFault

\* What the second pass and its end may change.
Seconds == [phase : Phases, waits : BOOLEAN, todo : SUBSET File, removed : Opt(File),
            failed : BOOLEAN]
Locks == [there : BOOLEAN, stage : 0..2, attempt : 0..MaxAttempts]
LEMMA SecondStep ==
  ASSUME RInv, second.phase # "none", second' \in Seconds, install' \in Files, lock' \in Locks,
         failMarker' \in BOOLEAN, faults' \in 0..MaxFaults, crashes' \in 0..MaxCrashes,
         launcher' \in {launcher, "starting"},
         UNCHANGED <<backups, first, target, attempt, told, before, backedUp>>
  PROVE  RInv'
<1>1. TypeOK'
  BY DEF RInv, TypeOK, Seconds, Phases, Locks
<1> QED
  BY <1>1 DEF RInv, Untouched, RollBack

LEMMA NextRInv == RInv /\ [Next]_vars => RInv'
<1> SUFFICES ASSUME RInv, [Next]_vars
             PROVE  RInv'
  OBVIOUS
<1> USE DEF RInv
<1>0. /\ second \in Seconds /\ lock \in Locks /\ install \in Files /\ failMarker \in BOOLEAN
      /\ faults \in 0..MaxFaults /\ crashes \in 0..MaxCrashes /\ target \in Opt(Version)
      /\ NoLock \in Locks /\ NoSecond \in Seconds
  BY UpdaterAssumption DEF TypeOK, Seconds, Phases, Locks, NoLock, NoSecond, Opt
<1>1. ASSUME NEW v \in Version, performUpdate(v)
      PROVE  RInv'
  BY <1>1, UpdaterAssumption
  DEF performUpdate, NoUpdater, history, TypeOK, Untouched, RollBack, Opt
<1>2. CASE Launched /\ UNCHANGED <<lock, failMarker, told>> /\ launcher' \in {"off", "starting", "askLock", "askFail", "on"}
  BY <1>2 DEF Launched, counts, TypeOK, Untouched, RollBack
<1>3. CASE ignoreLock
  <2>1. NoLock \in [there : BOOLEAN, stage : 0..2, attempt : 0..MaxAttempts]
    BY UpdaterAssumption DEF NoLock
  <2> QED
    BY <1>3, <2>1 DEF ignoreLock, Launched, counts, TypeOK, Untouched, RollBack
<1>4. CASE ignoreFail
  BY <1>4 DEF ignoreFail, Launched, counts, TypeOK, Untouched, RollBack
<1>5. CASE installFrom
  <2>1. CASE lock.there /\ first' = "none" /\ UNCHANGED <<lock, faults, history>>
    BY <1>5, <2>1 DEF installFrom, history, TypeOK, Untouched, RollBack
  <2>2. CASE /\ first' = "unpacking" /\ before' = install /\ backedUp' = FALSE
             /\ told' = (~Whole(install) /\ (told \/ lock.there))
             /\ write(1)
    <3>1. /\ lock' \in [there : BOOLEAN, stage : 0..2, attempt : 0..MaxAttempts]
          /\ faults' \in 0..MaxFaults
      BY <2>2, WrittenTyped
    <3>2. told' \in BOOLEAN
      BY <2>2
    <3> QED
      BY <1>5, <2>2, <3>1, <3>2 DEF installFrom, TypeOK, Untouched, RollBack
  <2> QED
    BY <1>5, <2>1, <2>2 DEF installFrom
<1>6. CASE unpackFails \/ waitForInstallStageTakeover \/ dismiss
  <2>1. NoLock \in [there : BOOLEAN, stage : 0..2, attempt : 0..MaxAttempts]
    BY UpdaterAssumption DEF NoLock
  <2> QED
    BY <1>6, <2>1 DEF unpackFails, waitForInstallStageTakeover, dismiss, ends, lockAfter,
                      counts, history, TypeOK, Untouched, RollBack
<1>7. CASE backupInstallation
  <2>0. /\ first = "unpacking" /\ first' = "handing" /\ faults' \in 0..MaxFaults
        /\ second.phase = "none" /\ ~backedUp /\ install = before
        /\ UNCHANGED <<install, lock, failMarker, second, target, launcher, attempt, crashes,
                       told, before>>
    BY <1>7, FaultTyped DEF backupInstallation, Untouched
  <2>1. ASSUME NEW S, NEW stamp \in Stamps, backedUp' = (S = File),
               NEW bs \in Placed(copied(stamp, S)), backups' = pruneBackups(bs)
        PROVE  RInv'
    <3>1. /\ Listed(backups')
          /\ \E n \in DOMAIN backups' :
               \A f \in File \cap S : install[f] # None => backups'[n].files[f] = install[f]
      BY <2>1, BackedUp
    <3>2. RollBack'
      BY <2>0, <2>1, <3>1 DEF RollBack
    <3>3. backedUp' \in BOOLEAN
      BY <2>1
    <3> QED
      BY <2>0, <3>1, <3>2, <3>3 DEF TypeOK, Untouched, Listed, Distinct
  <2>2. CASE UNCHANGED <<backups, backedUp>>
    BY <2>0, <2>2 DEF TypeOK, Untouched, RollBack
  <2> QED
    BY <1>7, <2>1, <2>2 DEF backupInstallation
<1>8. CASE handOff
  <2>1. second' = [NoSecond EXCEPT !.phase = "started"] /\ first' = "waiting"
        /\ UNCHANGED <<install, backups, lock, failMarker, target, launcher, attempt, faults,
                       crashes, told, before, backedUp>>
    BY <1>8 DEF handOff, counts, history
  <2>2. second' \in Seconds
    BY <1>0, <2>1 DEF Seconds, Phases
  <2>3. TypeOK'
    BY <2>1, <2>2 DEF TypeOK, Seconds, Phases
  <2> QED
    BY <2>1, <2>3 DEF Untouched, RollBack
<1>9. CASE claimLockForInstallStage
  <2>1. lock' \in Locks /\ faults' \in 0..MaxFaults
    BY <1>9, WrittenTyped DEF claimLockForInstallStage, Locks
  <2> DEFINE w == (lock.stage = 1 /\ lock.attempt = attempt)
  <2>2. w \in BOOLEAN /\ second' = [second EXCEPT !.phase = "claimed", !.waits = w]
    BY <1>9 DEF claimLockForInstallStage
  <2> HIDE DEF w
  <2>3. second' \in Seconds
    BY <1>0, <2>2 DEF Seconds, Phases
  <2> QED
    BY <1>0, <1>9, <2>1, <2>3, SecondStep DEF claimLockForInstallStage, history
<1>10. CASE beginInstall
  <2>1. second' \in Seconds
    BY <1>0, <1>10 DEF beginInstall, Seconds, Phases
  <2> QED
    BY <1>0, <1>10, <2>1, SecondStep DEF beginInstall, counts, history
<1>11. ASSUME NEW f \in File, removeOld(f)
       PROVE  RInv'
  <2>1. faults' \in 0..MaxFaults
    BY <1>11, FaultTyped DEF removeOld
  <2>2. install' \in Files
    BY <1>11 DEF removeOld, TypeOK, Files, Opt
  <2>3. second' \in Seconds
    BY <1>0, <1>11 DEF removeOld, Seconds, Opt
  <2> QED
    BY <1>0, <1>11, <2>1, <2>2, <2>3, SecondStep DEF removeOld, history
<1>12. CASE copyNew
  <2>1. faults' \in 0..MaxFaults
    BY <1>12, FaultTyped DEF copyNew
  <2>2. install' \in Files
    BY <1>12 DEF copyNew, TypeOK, Files, Opt
  <2>3. second' \in Seconds
    BY <1>0, <1>12 DEF copyNew, Seconds, Opt
  <2> QED
    BY <1>0, <1>12, <2>1, <2>2, <2>3, SecondStep DEF copyNew, history
<1>13. CASE writeMarker
  <2>1. faults' \in 0..MaxFaults
    BY <1>13, FaultTyped DEF writeMarker
  <2>2. failMarker' \in BOOLEAN
    BY <1>0, <1>13 DEF writeMarker
  <2>3. second' \in Seconds
    BY <1>0, <1>13 DEF writeMarker, Seconds, Phases
  <2> QED
    BY <1>0, <1>13, <2>1, <2>2, <2>3, SecondStep DEF writeMarker, history
<1>14. CASE removeLock
  <2>1. second' \in Seconds
    BY <1>0, <1>14 DEF removeLock, Seconds, Phases
  <2> QED
    BY <1>0, <1>14, <2>1, SecondStep DEF removeLock, counts, history
<1>15. CASE restartLauncher \/ secondDies
  <2>1. crashes' \in 0..MaxCrashes /\ launcher' \in {launcher, "starting"}
        /\ second.phase # "none" /\ second' = NoSecond
        /\ UNCHANGED <<install, backups, lock, failMarker, first, target, attempt, faults,
                       told, before, backedUp>>
    BY <1>0, <1>15, UpdaterAssumption DEF restartLauncher, secondDies, counts, history
  <2> QED
    BY <1>0, <2>1, SecondStep
<1>16. CASE firstDies
  <2>0. /\ first' = "none" /\ crashes' \in 0..MaxCrashes
        /\ UNCHANGED <<install, lock, failMarker, second, target, launcher, attempt, faults,
                       told, before, backedUp>>
    BY <1>16, UpdaterAssumption DEF firstDies, history, TypeOK
  <2>1. Listed(backups')
    BY <1>16, BackedUp DEF firstDies, TypeOK, Listed, Distinct
  <2>2. RollBack'
    BY <1>16, <2>0 DEF firstDies, Untouched, RollBack
  <2> QED
    BY <2>0, <2>1, <2>2 DEF TypeOK, Untouched, Listed, Distinct
<1>17. CASE UNCHANGED vars
  BY <1>17 DEF vars, counts, history, TypeOK, Untouched, RollBack
<1>18. ASSUME startLauncher \/ exitLauncher \/ reportUpdateMarkers \/ abortStart
       PROVE  /\ Launched /\ UNCHANGED <<lock, failMarker, told>>
              /\ launcher' \in {"off", "starting", "askLock", "askFail", "on"}
  BY <1>18 DEF startLauncher, exitLauncher, reportUpdateMarkers, abortStart
<1> QED
  BY <1>1, <1>2, <1>3, <1>4, <1>5, <1>6, <1>7, <1>8, <1>9, <1>10, <1>11, <1>12, <1>13, <1>14,
     <1>15, <1>16, <1>17, <1>18 DEF Next

LEMMA InitRInv == Init => RInv
<1> SUFFICES ASSUME Init
             PROVE  RInv
  OBVIOUS
<1>1. \A v \in Version : Release(v) \in Files
  BY DEF Release, Files, Opt
<1>2. backups \in Seq(Backup) /\ Len(backups) <= kBackupsToKeep
  <2>1. CASE backups = <<>>
    BY <2>1 DEF kBackupsToKeep
  <2>2. ASSUME NEW v \in Version, NEW w \in Version,
               backups = <<[stamp |-> v, files |-> Release(v)],
                           [stamp |-> w, files |-> Release(w)]>>
        PROVE  backups \in Seq(Backup) /\ Len(backups) <= kBackupsToKeep
    <3> DEFINE b == [stamp |-> v, files |-> Release(v)]
               c == [stamp |-> w, files |-> Release(w)]
    <3>1. b \in Backup /\ c \in Backup
      BY <1>1 DEF Backup
    <3>2. backups = <<b, c>>
      BY <2>2
    <3> HIDE DEF b, c
    <3> QED
      BY <3>1, <3>2 DEF kBackupsToKeep
  <2> QED
    BY <2>1, <2>2 DEF Init
<1>3. /\ NoLock \in [there : BOOLEAN, stage : 0..2, attempt : 0..MaxAttempts]
      /\ 0 \in 0..MaxAttempts /\ 0 \in 0..MaxFaults /\ 0 \in 0..MaxCrashes
  BY UpdaterAssumption DEF NoLock
<1>4. NoSecond \in [phase : Phases, waits : BOOLEAN, todo : SUBSET File, removed : Opt(File),
                    failed : BOOLEAN]
  BY DEF NoSecond, Phases, Opt
<1>5. install \in Files /\ before \in Files /\ target \in Opt(Version)
  BY <1>1 DEF Init, Opt
<1>6. failMarker \in BOOLEAN /\ told \in BOOLEAN /\ backedUp \in BOOLEAN /\ ~backedUp
  BY Zenon DEF Init
<1>7. TypeOK
  BY <1>2, <1>3, <1>4, <1>5, <1>6 DEF Init, TypeOK, Phases
<1> QED
  BY <1>6, <1>7 DEF Init, Untouched, RollBack, RInv

LEMMA RInvariance == Spec => []RInv
BY InitRInv, NextRInv, PTL DEF Spec

\* The installation, the backups, the lock and both passes have the values the code can
\* give them, and no more backups are kept than are meant to be.
THEOREM TypeCorrect == Spec => []TypeOK
<1>1. RInv => TypeOK
  BY DEF RInv
<1> QED
  BY <1>1, RInvariance, PTL

\* However many writes fail and passes die, and also when the user ignores a lock: what an
\* update has backed up is there, every file of it, until another update is started; no
\* pruning and no dying pass takes it away (MeshUpdaterApp.cpp:1763-1870, 2211-2229).
THEOREM RollBackHolds == Spec => []RollBack
<1>1. RInv => RollBack
  BY DEF RInv
<1> QED
  BY <1>1, RInvariance, PTL

-----------------------------------------------------------------------------
(* The theorems about what the user is told. *)

\* With one write that fails, whichever, and any number of passes that die: when the user
\* reads that nothing was changed, nothing was, and nothing is left that could change it
\* (MeshUpdaterApp.cpp:1314-1325, 1505-1530).
THEOREM NothingChangedHolds ==
  ASSUME Mild
  PROVE  Spec => []NothingChangedIsTrue
<1>1. IInv => NothingChangedIsTrue
  BY DEF IInv, Order, NothingChangedIsTrue
<1> QED
  BY <1>1, Invariance, PTL

\* Under the same assumptions the launcher never comes up on a mix of two versions that
\* the user was not told of (Application.cpp:1925-1994, MeshUpdaterApp.cpp:2045-2056).
THEOREM NoSilentMixHolds ==
  ASSUME Mild
  PROVE  Spec => NoSilentMix
<1> DEFINE Told == launcher # "on" /\ launcher' = "on" => Whole(install) \/ told'
<1>1. IInv /\ [Next]_vars => [Told]_vars
  <2> SUFFICES ASSUME IInv, Next, launcher # "on", launcher' = "on"
               PROVE  Whole(install) \/ told'
    OBVIOUS
  <2>1. CASE reportUpdateMarkers
    <3>1. ~lock.there /\ ~failMarker /\ told' = told
      BY <2>1 DEF reportUpdateMarkers
    <3> QED
      BY <3>1 DEF IInv, Known, Silent
  <2>2. CASE ignoreLock \/ ignoreFail
    BY <2>2 DEF ignoreLock, ignoreFail
  <2>3. CASE startLauncher \/ exitLauncher \/ abortStart \/ \E v \in Version : performUpdate(v)
    BY <2>3 DEF startLauncher, exitLauncher, abortStart, performUpdate
  <2>4. CASE installFrom \/ unpackFails \/ backupInstallation \/ handOff
             \/ waitForInstallStageTakeover \/ dismiss \/ firstDies \/ secondDies
    BY <2>4 DEF installFrom, unpackFails, backupInstallation, handOff,
                waitForInstallStageTakeover, dismiss, firstDies, secondDies
  <2>5. CASE claimLockForInstallStage \/ beginInstall \/ (\E f \in File : removeOld(f))
             \/ copyNew \/ writeMarker \/ removeLock \/ restartLauncher
    BY <2>5 DEF claimLockForInstallStage, beginInstall, removeOld, copyNew, writeMarker,
                removeLock, restartLauncher
  <2> QED
    BY <2>1, <2>2, <2>3, <2>4, <2>5 DEF Next
<1>2. Spec => [][Told]_vars
  BY <1>1, Invariance, PTL DEF Spec
<1> QED
  BY <1>2 DEF NoSilentMix
=============================================================================
