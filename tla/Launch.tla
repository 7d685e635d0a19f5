------------------------------- MODULE Launch -------------------------------
(***************************************************************************)
(* launcher/launch and launcher/minecraft/launch: a LaunchTask with its    *)
(* steps, the LaunchController that drives it and the processes it starts. *)
(*                                                                         *)
(* A step is known by its number and told apart by its kind:               *)
(*   plain    ends inside start() or later, cannot be aborted (CheckJava,  *)
(*            ScanModFolders, ExtractNatives, TextPrint, ...)              *)
(*   check    asks for a progress dialog first, cannot be aborted          *)
(*            (CreateBackup, Update when offline)                          *)
(*   update   asks for a progress dialog first (Update)                    *)
(*   lookup   LookupServerAddress                                          *)
(*   command  runs a process (PreLaunchCommand, PostLaunchCommand,         *)
(*            DirectJavaLaunch)                                            *)
(*   game     runs a helper process that waits to be told (MeshMCPartLaunch)*)
(*                                                                         *)
(* Steps that end inside start() call each other: `frame' says what is on  *)
(* the call stack, and no event comes in while anything is.                *)
(***************************************************************************)
EXTENDS Naturals, Sequences

CONSTANTS Steps,            \* the kinds of the steps, in order
          EarlyKillMisses   \* a signal may reach a process before it leads its group

Kind == {"plain", "check", "update", "lookup", "command", "game"}
N == Len(Steps)
Index == 1..N

\* The order of createLaunchTask(): nothing but a command comes after the game.
ASSUME StepsAssumption ==
  /\ Steps \in Seq(Kind) /\ Steps # <<>>
  /\ \A i, j \in Index : i < j /\ Steps[i] = "game" => Steps[j] = "command"

VARIABLES launch,     \* the LaunchTask
          step,       \* the state of each step as a Task
          proc,       \* the LoggedProcess of each step
          game,       \* MeshMCPartLaunch, and what it has last written to the helper
          stopping,   \* the updates that have been asked to stop
          instance,   \* the flags of the instance
          frame,      \* calls in progress: of a step's start(), of LaunchTask::abort() and
                      \* the kind of step it was made for
          asking,     \* "Kill Minecraft?" is on the screen
          profiling,  \* the profiler has been started
          undone,     \* the steps whose finalize() has been called (history)
          accepted    \* the kind of step whose abort() has been accepted last (history)
vars == <<launch, step, proc, game, stopping, instance, frame, asking, profiling,
          undone, accepted>>

State == {"NotStarted", "Running", "Waiting", "Failed", "Aborted", "Finished"}
TaskState == {"Inactive", "Running", "Succeeded", "Failed"}
OrNone(S) == S \cup {"none"}
Process == [state : {"NotRunning", "Starting", "Running", "Over"},
            is_aborting : BOOLEAN, killed : BOOLEAN]

TypeOK == /\ launch \in [state : State, task : TaskState, currentStep : 0..N]
          /\ step \in [Index -> TaskState]
          /\ proc \in [Index -> Process]
          /\ game \in [mayProceed : BOOLEAN, told : {"nothing", "launch", "abort"},
                       timer : BOOLEAN]
          /\ stopping \subseteq Index
          /\ instance \in [running : BOOLEAN, crashed : BOOLEAN]
          /\ frame \in [starting : BOOLEAN, aborting : OrNone(Kind)]
          /\ asking \in BOOLEAN /\ profiling \in BOOLEAN /\ accepted \in OrNone(Kind)
          /\ undone \in Seq(Index)

current == launch.currentStep
Idle == ~frame.starting /\ frame.aborting = "none"
Alive(p) == p.state \in {"Starting", "Running"}

NoProcess == [i \in Index |-> [state |-> "NotRunning", is_aborting |-> FALSE, killed |-> FALSE]]
NoGame == [mayProceed |-> FALSE, told |-> "nothing", timer |-> FALSE]

Init == /\ launch = [state |-> "NotStarted", task |-> "Inactive", currentStep |-> 0]
        /\ step = [i \in Index |-> "Inactive"]
        /\ proc = NoProcess
        /\ game = NoGame
        /\ stopping = {}
        /\ instance = [running |-> FALSE, crashed |-> FALSE]
        /\ frame = [starting |-> FALSE, aborting |-> "none"]
        /\ asking = FALSE /\ profiling = FALSE /\ accepted = "none"
        /\ undone = <<>>

-----------------------------------------------------------------------------
(* LaunchTask. *)

\* Application::launch() lets an instance through that does not run, and
\* launchInstance() makes a new LaunchTask with new steps and starts it.
launchInstance ==
  /\ Idle /\ ~asking
  /\ ~instance.running
  /\ launch' = [state |-> "Running", task |-> "Running", currentStep |-> 1]
  /\ instance' = [running |-> TRUE, crashed |-> FALSE]
  /\ frame' = [frame EXCEPT !.starting = TRUE]
  /\ step' = [i \in Index |-> "Inactive"]
  /\ proc' = NoProcess
  /\ game' = NoGame
  /\ stopping' = {}
  /\ undone' = <<>>
  /\ profiling' = FALSE /\ accepted' = "none"
  /\ UNCHANGED asking

\* Wrong on purpose, as are the definitions below whose names end in Mutant: each
\* is a bug that a property of this module has to notice.
finalizeMutant(c) == undone \o [i \in 1..(c - 1) |-> c - i]

\* The loop of finalizeSteps().
finalize(c) == undone \o [i \in 1..c |-> c + 1 - i]

onStepFinishedMutant(l, f, ok) ==
  IF ok /\ l.currentStep <= N
  THEN /\ launch' = [l EXCEPT !.currentStep = @ + 1]
       /\ frame' = [f EXCEPT !.starting = TRUE]
       /\ UNCHANGED <<instance, undone>>
  ELSE /\ launch' = [l EXCEPT !.task = "Failed"]
       /\ frame' = f
       /\ instance' = [running |-> FALSE, crashed |-> TRUE]
       /\ undone' = finalize(l.currentStep)

\* onStepFinished(), when the launch is l and f is on the stack: the next step, or the
\* end by finalizeSteps(), emitSucceeded() and emitFailed().
onStepFinished(l, f, ok) ==
  IF ok /\ l.currentStep < N
  THEN /\ launch' = [l EXCEPT !.currentStep = @ + 1]
       /\ frame' = [f EXCEPT !.starting = TRUE]
       /\ UNCHANGED <<instance, undone>>
  ELSE /\ launch' = [l EXCEPT !.task = IF ok THEN "Succeeded" ELSE "Failed"]
       /\ frame' = f
       /\ instance' = [running |-> FALSE, crashed |-> instance.crashed \/ ~ok]
       /\ undone' = finalize(l.currentStep)

\* emitSucceeded() or emitFailed() of step c: nothing when it is not running.
emitEnd(c, l, f, ok) ==
  IF step[c] = "Running"
  THEN /\ step' = [step EXCEPT ![c] = IF ok THEN "Succeeded" ELSE "Failed"]
       /\ onStepFinished(l, f, ok)
  ELSE /\ launch' = l
       /\ frame' = f
       /\ UNCHANGED <<step, instance, undone>>

\* How a step of kind k may end inside its start(): no helper, no java, ...
EndsAtOnce(k) == CASE k \in {"plain", "check"} -> BOOLEAN
                   [] k \in {"command", "game"} -> {FALSE}
                   [] k \in {"update", "lookup"} -> {}

\* start() of the current step.  onProgressRequested() calls proceed() back at once.
startStep ==
  LET k == Steps[current]
      l == IF k \in {"check", "update"} THEN [launch EXCEPT !.state = "Waiting"] ELSE launch
      f == [frame EXCEPT !.starting = FALSE]
  IN
  /\ frame.starting
  /\ \/ \E ok \in EndsAtOnce(k) :
          /\ step' = [step EXCEPT ![current] = IF ok THEN "Succeeded" ELSE "Failed"]
          /\ onStepFinished(l, f, ok)
          /\ UNCHANGED proc
     \/ /\ step' = [step EXCEPT ![current] = "Running"]
        /\ proc' = IF k \in {"command", "game"}
                   THEN [proc EXCEPT ![current].state = "Starting"] ELSE proc
        /\ launch' = l
        /\ frame' = f
        /\ UNCHANGED <<instance, undone>>
  /\ UNCHANGED <<game, stopping, asking, profiling, accepted>>

\* The answer that a step without a process was waiting for.
StepEnds(ok) ==
  /\ Idle
  /\ launch.task = "Running"
  /\ step[current] = "Running"
  /\ Steps[current] \notin {"command", "game"}
  /\ Steps[current] = "lookup" => ok
  /\ current \in stopping => ~ok
  /\ emitEnd(current, launch, frame, ok)
  /\ UNCHANGED <<proc, game, stopping, asking, profiling, accepted>>
-----------------------------------------------------------------------------
(* LoggedProcess and the steps that have one. *)

killMutant(p) == {[p EXCEPT !.killed = TRUE]}

\* kill(): the signal goes to the group of the process, which setsid() makes in the
\* child after the fork.
kill(p) ==
  {[p EXCEPT !.is_aborting = TRUE, !.killed = TRUE]}
    \cup IF EarlyKillMisses /\ p.state = "Starting" THEN {[p EXCEPT !.is_aborting = TRUE]} ELSE {}

\* The outcomes of killing step c's process if it is there.
Killed(c) == IF Alive(proc[c]) THEN {[proc EXCEPT ![c] = p] : p \in kill(proc[c])} ELSE {proc}

\* MeshMCPartLaunch::abort() once the helper waits to be told.
tellAbortMutant(g) == [g EXCEPT !.mayProceed = FALSE, !.told = "abort"]
tellAbort(g) == [g EXCEPT !.mayProceed = FALSE, !.told = "abort", !.timer = TRUE]

\* MeshMCPartLaunch::proceed().
tellLaunch(g) == IF g.mayProceed THEN [g EXCEPT !.mayProceed = FALSE, !.told = "launch"] ELSE g

\* on_state(Running) of the game, readyForLaunch() of the LaunchTask and of the
\* controller: without a profiler the game goes on, with one that cannot be used the
\* launch is aborted, and another one is started first.
readyForLaunch ==
  LET g == [game EXCEPT !.mayProceed = TRUE] IN
  /\ launch' = [launch EXCEPT !.state = "Waiting"]
  /\ \/ /\ game' = tellLaunch(g)
        /\ UNCHANGED <<frame, profiling>>
     \/ /\ game' = tellAbort(g)
        /\ frame' = [frame EXCEPT !.aborting = "game"]
        /\ UNCHANGED profiling
     \/ /\ game' = g
        /\ profiling' = TRUE
        /\ UNCHANGED frame

\* The process of step c has been started.
processStarted(c) ==
  /\ Idle
  /\ proc[c].state = "Starting"
  /\ proc' = [proc EXCEPT ![c].state = "Running"]
  /\ IF Steps[c] = "game" THEN readyForLaunch ELSE UNCHANGED <<launch, game, frame, profiling>>
  /\ UNCHANGED <<step, stopping, instance, asking, undone, accepted>>

processFailsToStart(c) ==
  /\ Idle
  /\ proc[c].state = "Starting"
  /\ proc' = [proc EXCEPT ![c].state = "Over"]
  /\ emitEnd(c, launch, frame, FALSE)
  /\ UNCHANGED <<game, stopping, asking, profiling, accepted>>

\* on_exit(), and on_state() of the step.  The process may have ended by itself before a
\* signal reached it.  A helper that has not been told to launch does not exit with 0.
processExits(c, ok) ==
  /\ Idle
  /\ proc[c].state = "Running"
  /\ ok => /\ ~proc[c].is_aborting
           /\ Steps[c] = "game" => game.told = "launch"
  /\ proc' = [proc EXCEPT ![c].state = "Over"]
  /\ emitEnd(c, launch, frame, ok)
  /\ UNCHANGED <<game, stopping, asking, profiling, accepted>>

escalateMutant(c) ==
  /\ Idle /\ game.timer /\ Steps[c] = "game"
  /\ game' = [game EXCEPT !.timer = FALSE]
  /\ proc' \in IF proc[c].state = "Starting" THEN Killed(c) ELSE {proc}
  /\ UNCHANGED <<launch, step, stopping, instance, frame, asking, profiling, undone, accepted>>

\* The timer of MeshMCPartLaunch::abort().
escalate(c) ==
  /\ Idle /\ game.timer /\ Steps[c] = "game"
  /\ game' = [game EXCEPT !.timer = FALSE]
  /\ proc' \in Killed(c)
  /\ UNCHANGED <<launch, step, stopping, instance, frame, asking, profiling, undone, accepted>>

-----------------------------------------------------------------------------
(* Aborting. *)

canAbort == /\ launch.state \in {"Running", "Waiting"}
            /\ Steps[current] \in {"update", "lookup", "command", "game"}

\* Update::abort(): the update ends within it, or when what it waits for is over.
abortUpdate(f) ==
  /\ Steps[current] = "update"
  /\ stopping' = stopping \cup {current}
  /\ \/ emitEnd(current, launch, f, FALSE)
     \/ launch' = launch /\ frame' = f /\ UNCHANGED <<step, instance, undone>>
  /\ UNCHANGED <<proc, game>>

\* LookupServerAddress::abort(): QDnsLookup::abort() emits finished(), which resolves
\* the address; the emitFailed() after it finds a step that has ended.
abortLookup(f) ==
  /\ Steps[current] = "lookup"
  /\ emitEnd(current, launch, f, TRUE)
  /\ UNCHANGED <<proc, game, stopping>>

abortProcessMutant(f) ==
  /\ Steps[current] \in {"command", "game"}
  /\ proc' \in Killed(current)
  /\ emitEnd(current, launch, f, FALSE)
  /\ UNCHANGED <<game, stopping>>

\* abort() of a step with a process.
abortProcess(f) ==
  /\ Steps[current] \in {"command", "game"}
  /\ IF Steps[current] = "game" /\ game.mayProceed
     THEN game' = tellAbort(game) /\ UNCHANGED proc
     ELSE proc' \in Killed(current) /\ UNCHANGED game
  /\ launch' = launch /\ frame' = f
  /\ UNCHANGED <<step, stopping, instance, undone>>

\* LaunchTask::abort(), up to the return of the step's abort().
abort ==
  \/ /\ canAbort
     /\ LET f == [frame EXCEPT !.aborting = Steps[current]]
        IN abortUpdate(f) \/ abortLookup(f) \/ abortProcess(f)
  \/ /\ ~canAbort
     /\ UNCHANGED <<launch, step, proc, game, stopping, instance, frame, undone>>

\* The rest of it, when all that the step's abort() has called is over.
abortReturns ==
  /\ frame.aborting # "none" /\ ~frame.starting
  /\ launch' = [launch EXCEPT !.state = "Aborted"]
  /\ frame' = [frame EXCEPT !.aborting = "none"]
  /\ accepted' = frame.aborting
  /\ UNCHANGED <<step, proc, game, stopping, instance, asking, profiling, undone>>

\* Application::kill() and LaunchController::abort(), up to its question ...
askToKill ==
  /\ Idle /\ ~asking
  /\ instance.running /\ canAbort
  /\ asking' = TRUE
  /\ UNCHANGED <<launch, step, proc, game, stopping, instance, frame, profiling, undone,
                 accepted>>

\* ... and the answer, by which the launch may be anywhere.
answer ==
  /\ Idle /\ asking
  /\ asking' = FALSE
  /\ \/ abort
     \/ UNCHANGED <<launch, step, proc, game, stopping, instance, frame, undone>>
  /\ UNCHANGED <<profiling, accepted>>

\* The button of the progress dialog aborts the step, behind the back of the LaunchTask.
skip ==
  /\ Idle
  /\ launch.task = "Running" /\ step[current] = "Running"
  /\ abortUpdate(frame)
  /\ UNCHANGED <<asking, profiling, accepted>>

\* The profiler is ready, and the user presses "Launch": LaunchTask::proceed().
profilerReady ==
  /\ Idle /\ profiling /\ launch.task = "Running"
  /\ game' = IF launch.state = "Waiting" /\ Steps[current] = "game"
             THEN tellLaunch(game) ELSE game
  /\ UNCHANGED <<launch, step, proc, stopping, instance, frame, asking, profiling, undone,
                 accepted>>

\* The profiler has died.
profilerAborts ==
  /\ Idle /\ profiling /\ launch.task = "Running"
  /\ profiling' = FALSE
  /\ abort
  /\ UNCHANGED <<asking, accepted>>

Next == \/ launchInstance
        \/ startStep
        \/ abortReturns
        \/ askToKill
        \/ answer
        \/ skip
        \/ profilerReady
        \/ profilerAborts
        \/ \E ok \in BOOLEAN : StepEnds(ok)
        \/ \E c \in Index : \/ processStarted(c)
                            \/ processFailsToStart(c)
                            \/ \E ok \in BOOLEAN : processExits(c, ok)
                            \/ escalate(c)

Spec == Init /\ [][Next]_vars

\* Calls return, timers fire, the system starts processes and ends those it was told to
\* kill, and an update that is asked to stop does (ConcurrentTask, Settles).
Fairness ==
  /\ WF_vars(startStep) /\ WF_vars(abortReturns)
  /\ WF_vars(current \in stopping /\ StepEnds(FALSE))
  /\ \A c \in Index : /\ WF_vars(processStarted(c) \/ processFailsToStart(c))
                      /\ WF_vars(proc[c].killed /\ processExits(c, FALSE))
                      /\ WF_vars(escalate(c))
FairSpec == Spec /\ Fairness
-----------------------------------------------------------------------------
(* Properties. *)

\* An instance that is not running has no process left: MeshMC lets it be launched
\* again (BaseInstance.cpp:260-263, LaunchTask.cpp:240-251).
StoppedMeansDown == ~instance.running => \A c \in Index : ~Alive(proc[c])

\* Every step that was started is finalised, the last one first, once, when the launch
\* has ended and not before (LaunchTask.cpp:104-114).
FinalizedOnce ==
  undone = IF launch.task \in {"Inactive", "Running"} THEN <<>>
           ELSE [i \in 1..current |-> current + 1 - i]

\* Once an abort has been accepted, no further step of that launch begins
\* (LaunchTask.cpp:163-190, LoggedProcess.cpp:100-137), unless it was a lookup that
\* accepted it, whose abort() lets the launch go on (LookupServerAddress.cpp:42-75).
NothingBegins == \A c \in Index : step[c] = "Inactive" => step'[c] = "Inactive"
NoStepAfterStop ==
  [][accepted \notin {"none", "lookup"} /\ accepted' = accepted => NothingBegins]_vars

\* A launch marked as aborted cannot be aborted again, so whatever process it still has
\* is already killed or will be when the timer fires (MeshMCPartLaunch.cpp:217-232).
AbortEscalates ==
  launch.state = "Aborted" /\ accepted # "lookup" =>
    \A c \in Index : Alive(proc[c]) => proc[c].killed \/ game.timer

\* A launch that says that it is being aborted ends (LaunchController.cpp:628-633).
Aborting == launch.state = "Aborted" /\ accepted # "lookup"
AbortEnds == Aborting ~> launch.task # "Running" \/ ~Aborting
=============================================================================
