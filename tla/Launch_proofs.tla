---------------------------- MODULE Launch_proofs ----------------------------
(***************************************************************************)
(* Proofs about Launch: steps are finalised once, an instance that is not  *)
(* running has no process, and an accepted abort stops the launch, for     *)
(* every sequence of steps.                                                *)
(***************************************************************************)
EXTENDS Launch, SequenceTheorems, TLAPS

WithProcess == {"command", "game"}
Stopper == {"update", "command", "game"}

\* Where the launch is, told by its steps, and what goes with it.
OnTrack ==
  /\ launch.task = "Inactive" => launch.state = "NotStarted" /\ Idle
  /\ launch.task # "Inactive" => current \in Index
  /\ frame.starting => launch.task = "Running" /\ step[current] = "Inactive"
  /\ launch.task = "Running" /\ ~frame.starting => step[current] = "Running"
  /\ \A c \in Index : step[c] = "Running" => launch.task = "Running" /\ c = current
  /\ \A c \in Index : c > current => step[c] = "Inactive"
  /\ instance.running <=> launch.task = "Running"
  /\ \A c \in Index : Alive(proc[c]) <=> step[c] = "Running" /\ Steps[c] \in WithProcess

\* The current step will not succeed.
Doomed ==
  \/ Steps[current] = "update" /\ current \in stopping
  \/ /\ Steps[current] \in WithProcess
     /\ \/ proc[current].is_aborting
        \/ /\ Steps[current] = "game" /\ proc[current].state = "Running"
           /\ game.told = "abort" /\ ~game.mayProceed

\* An abort that has been accepted, or is about to be, by a step that it stops.
Stopped == accepted \in Stopper \/ frame.aborting \in Stopper =>
             ~frame.starting /\ (launch.task = "Running" => Doomed)

\* Only a helper that is there may be told to go on ...
MayProceed == game.mayProceed =>
  \A c \in Index : Steps[c] = "game" => step[c] # "Inactive" /\ proc[c].state # "Starting"

\* ... and while the timer of one runs, the launch does not get past it.
TimerRuns == game.timer /\ launch.task = "Running" =>
               ~frame.starting /\ Steps[current] = "game" /\ Doomed

\* What a launch that is marked as aborted, or is about to be, has been stopped by ...
Marked == /\ launch.state = "Aborted" => accepted # "none"
          /\ accepted \in Stopper \cup {"lookup", "none"}
          /\ frame.aborting \in Stopper \cup {"lookup", "none"}

\* ... and that its process is killed, or will be.
StopMarked == frame.aborting \in Stopper \/ (launch.state = "Aborted" /\ accepted \in Stopper)
Escalated == ~EarlyKillMisses /\ StopMarked =>
               \A c \in Index : Alive(proc[c]) => proc[c].killed \/ game.timer

IInv == /\ TypeOK /\ OnTrack /\ FinalizedOnce /\ Stopped
        /\ MayProceed /\ TimerRuns /\ Marked /\ Escalated

-----------------------------------------------------------------------------
(* Lemmas. *)

LaunchRecord == [state : State, task : TaskState, currentStep : 0..N]
GameRecord == [mayProceed : BOOLEAN, told : {"nothing", "launch", "abort"}, timer : BOOLEAN]
FrameRecord == [starting : BOOLEAN, aborting : OrNone(Kind)]

\* There is at least one step, and each has a kind.
LEMMA StepsFacts == N \in Nat /\ N >= 1 /\ 1 \in Index /\ \A c \in Index : Steps[c] \in Kind
<1>1. Steps \in Seq(Kind) /\ Steps # <<>>
  BY StepsAssumption
<1>2. N \in Nat /\ DOMAIN Steps = Index
  BY <1>1 DEF N, Index
<1>3. N # 0
  BY <1>1, EmptySeq DEF N
<1> QED
  BY <1>1, <1>2, <1>3, ElementOfSeq DEF N, Index

\* finalizeSteps() in a launch that has finalised nothing yet.
LEMMA FinalizeAll ==
  ASSUME NEW c \in Index, undone = <<>>
  PROVE  /\ finalize(c) = [i \in 1..c |-> c + 1 - i]
         /\ finalize(c) \in Seq(Index)
<1>1. N \in Nat /\ c \in Nat /\ c <= N
  BY StepsFacts DEF Index
<1>2. \A i \in 1..c : c + 1 - i \in Index
  BY <1>1 DEF Index
<1>3. [i \in 1..c |-> c + 1 - i] \in Seq(Index)
  BY <1>1, <1>2, IsASeq
<1> QED
  BY <1>3, ConcatEmptySeq DEF finalize

\* What the end of the current step does to the launch.
LEMMA EndKeeps ==
  ASSUME TypeOK, OnTrack, FinalizedOnce, launch.task = "Running",
         NEW l \in LaunchRecord, l.task = launch.task, l.currentStep = current,
         NEW f \in FrameRecord, f.starting = FALSE,
         NEW ok \in BOOLEAN,
         step' = [step EXCEPT ![current] = IF ok THEN "Succeeded" ELSE "Failed"],
         onStepFinished(l, f, ok),
         \A c \in Index : ~Alive(proc'[c])
  PROVE  /\ launch' \in LaunchRecord /\ frame' \in FrameRecord
         /\ step' \in [Index -> TaskState]
         /\ instance' \in [running : BOOLEAN, crashed : BOOLEAN]
         /\ undone' \in Seq(Index)
         /\ OnTrack' /\ FinalizedOnce'
         /\ frame'.aborting = f.aborting /\ launch'.state = l.state
         /\ ~ok => ~frame'.starting /\ launch'.task # "Running"
<1>1. current \in Index /\ N \in Nat /\ undone = <<>> /\ current \in Nat
  BY StepsFacts DEF OnTrack, FinalizedOnce, Index, current
<1>2. step' \in [Index -> TaskState] /\ current \in Nat
  BY <1>1 DEF TypeOK, TaskState
<1>3. \A c \in Index : step'[c] # "Running"
  BY <1>1, <1>2 DEF TypeOK, OnTrack
<1>4. \A c \in Index : c > current => step'[c] = "Inactive"
  BY <1>1, <1>2 DEF TypeOK, OnTrack, Index
<1>5. CASE ok /\ current < N
  <2>1. launch' = [l EXCEPT !.currentStep = @ + 1] /\ frame' = [f EXCEPT !.starting = TRUE]
        /\ instance' = instance /\ undone' = undone
    BY <1>5 DEF onStepFinished
  <2>2. current + 1 \in Index /\ current + 1 \in 0..N
    BY <1>1, <1>5 DEF Index
  <2>3. /\ launch' \in LaunchRecord /\ launch'.task = "Running"
        /\ launch'.currentStep = current + 1 /\ launch'.state = l.state
    BY <2>1, <2>2 DEF LaunchRecord
  <2>4. frame' \in FrameRecord /\ frame'.starting /\ frame'.aborting = f.aborting
    BY <2>1 DEF FrameRecord
  <2>5. \A c \in Index : c > current + 1 => c > current
    BY <1>1 DEF Index
  <2>6. OnTrack'
    BY <1>1, <1>3, <1>4, <2>1, <2>2, <2>3, <2>4, <2>5 DEF OnTrack, current
  <2>7. FinalizedOnce'
    BY <1>1, <2>1, <2>3 DEF FinalizedOnce
  <2> QED
    BY <1>2, <1>5, <2>1, <2>3, <2>4, <2>6, <2>7 DEF TypeOK
<1>6. CASE ~(ok /\ current < N)
  <2>1. /\ launch' = [l EXCEPT !.task = IF ok THEN "Succeeded" ELSE "Failed"] /\ frame' = f
        /\ instance' = [running |-> FALSE, crashed |-> instance.crashed \/ ~ok]
        /\ undone' = finalize(current)
    BY <1>6 DEF onStepFinished
  <2>2. /\ launch' \in LaunchRecord /\ launch'.task \in {"Succeeded", "Failed"}
        /\ launch'.currentStep = current /\ launch'.state = l.state
    BY <2>1 DEF LaunchRecord, TaskState
  <2>3. instance' \in [running : BOOLEAN, crashed : BOOLEAN] /\ ~instance'.running
    BY <2>1
  <2>4. OnTrack'
    BY <1>1, <1>3, <1>4, <2>1, <2>2, <2>3 DEF OnTrack, current
  <2>5. FinalizedOnce'
    BY <1>1, <2>1, <2>2, FinalizeAll DEF FinalizedOnce, current
  <2> QED
    BY <1>1, <1>2, <2>1, <2>2, <2>3, <2>4, <2>5, FinalizeAll
<1> QED
  BY <1>5, <1>6

\* A step of the current launch has ended.
LEMMA EndPreserves ==
  ASSUME IInv, launch.task = "Running",
         NEW l \in LaunchRecord, l.task = launch.task, l.currentStep = current,
         l.state = "Aborted" => launch.state = "Aborted",
         NEW f \in FrameRecord, f.starting = FALSE,
         f.aborting \in Stopper \cup {"lookup", "none"},
         NEW ok \in BOOLEAN,
         ok => accepted \notin Stopper /\ f.aborting \notin Stopper /\ ~game.timer,
         step' = [step EXCEPT ![current] = IF ok THEN "Succeeded" ELSE "Failed"],
         onStepFinished(l, f, ok),
         proc' \in [Index -> Process],
         \A c \in Index : ~Alive(proc'[c]),
         stopping' \subseteq Index, profiling' \in BOOLEAN, asking' \in BOOLEAN,
         game' = game, accepted' = accepted
  PROVE  IInv'
<1> USE DEF IInv
<1>1. /\ launch' \in LaunchRecord /\ frame' \in FrameRecord
      /\ step' \in [Index -> TaskState]
      /\ instance' \in [running : BOOLEAN, crashed : BOOLEAN]
      /\ undone' \in Seq(Index)
      /\ OnTrack' /\ FinalizedOnce'
      /\ frame'.aborting = f.aborting /\ launch'.state = l.state
      /\ ~ok => ~frame'.starting /\ launch'.task # "Running"
  BY EndKeeps
<1>2. TypeOK'
  BY <1>1 DEF TypeOK, LaunchRecord, FrameRecord
<1>3. Stopped'
  BY <1>1 DEF Stopped
<1>4. current \in Index /\ step \in [Index -> TaskState]
  BY DEF OnTrack, TypeOK
<1>5. MayProceed'
  BY <1>4 DEF MayProceed, Alive
<1>6. TimerRuns'
  BY <1>1 DEF TimerRuns
<1>7. Marked'
  BY <1>1 DEF Marked
<1>8. Escalated'
  BY DEF Escalated
<1> QED
  BY <1>1, <1>2, <1>3, <1>5, <1>6, <1>7, <1>8

\* What holds of the launch while no step ends.
LEMMA StayPreserves ==
  ASSUME OnTrack, FinalizedOnce,
         launch'.task = launch.task, launch'.currentStep = current,
         launch.task = "Inactive" => launch'.state = launch.state /\ frame' = frame,
         frame'.starting = frame.starting,
         step' = step, instance' = instance, undone' = undone,
         \A c \in Index : Alive(proc'[c]) <=> Alive(proc[c])
  PROVE  OnTrack' /\ FinalizedOnce'
<1>1. OnTrack'
  BY DEF OnTrack, current, Idle
<1>2. FinalizedOnce'
  BY DEF FinalizedOnce, current
<1> QED
  BY <1>1, <1>2

\* What killing the process of step c does.
LEMMA KilledFacts ==
  ASSUME TypeOK, NEW c \in Index, proc' \in Killed(c)
  PROVE  /\ proc' \in [Index -> Process]
         /\ \A d \in Index : /\ proc'[d].state = proc[d].state
                             /\ Alive(proc'[d]) <=> Alive(proc[d])
                             /\ proc[d].is_aborting => proc'[d].is_aborting
                             /\ proc[d].killed => proc'[d].killed
         /\ Alive(proc[c]) => /\ proc'[c].is_aborting
                              /\ ~EarlyKillMisses => proc'[c].killed
<1>1. proc \in [Index -> Process]
  BY DEF TypeOK
<1>2. CASE Alive(proc[c])
  <2>1. PICK p \in kill(proc[c]) : proc' = [proc EXCEPT ![c] = p]
    BY <1>2 DEF Killed
  <2>2. /\ p \in Process /\ p.state = proc[c].state /\ p.is_aborting
        /\ proc[c].killed => p.killed
        /\ ~EarlyKillMisses => p.killed
    BY <1>1, <2>1 DEF kill, Process
  <2> QED
    BY <1>1, <1>2, <2>1, <2>2 DEF Alive
<1>3. CASE ~Alive(proc[c])
  BY <1>1, <1>3 DEF Killed
<1> QED
  BY <1>2, <1>3

-----------------------------------------------------------------------------
(* The initial state and each action. *)

LEMMA InitEstablishes == Init => IInv
<1> SUFFICES ASSUME Init PROVE IInv
  OBVIOUS
<1>1. N \in Nat
  BY StepsFacts
<1>2. TypeOK
  <2>1. launch \in LaunchRecord /\ game \in GameRecord /\ frame \in FrameRecord
    BY <1>1 DEF Init, NoGame, LaunchRecord, GameRecord, FrameRecord, State, TaskState, OrNone
  <2>2. proc \in [Index -> Process] /\ step \in [Index -> TaskState]
    BY DEF Init, NoProcess, Process, TaskState
  <2>3. undone \in Seq(Index)
    BY EmptySeq DEF Init
  <2> QED
    BY <2>1, <2>2, <2>3 DEF TypeOK, Init, LaunchRecord, GameRecord, FrameRecord, OrNone
<1>3. OnTrack
  BY <1>1 DEF Init, OnTrack, NoProcess, Alive, Idle
<1>4. FinalizedOnce
  BY DEF Init, FinalizedOnce
<1>5. Stopped /\ MayProceed /\ TimerRuns /\ Marked /\ Escalated
  BY DEF Init, NoGame, Stopped, Stopper, MayProceed, TimerRuns, Marked, Escalated, StopMarked
<1> QED
  BY <1>2, <1>3, <1>4, <1>5 DEF IInv

LEMMA LaunchInstancePreserves == IInv /\ launchInstance => IInv'
<1> SUFFICES ASSUME IInv, launchInstance PROVE IInv'
  OBVIOUS
<1> USE DEF IInv
<1>1. N \in Nat /\ N >= 1 /\ 1 \in Index
  BY StepsFacts
<1>2. frame' = [starting |-> TRUE, aborting |-> "none"]
  BY DEF launchInstance, Idle, TypeOK
<1>3. TypeOK'
  <2>1. launch' \in LaunchRecord
    BY <1>1 DEF launchInstance, LaunchRecord, State, TaskState
  <2>4. game' \in GameRecord
    BY DEF launchInstance, NoGame, GameRecord
  <2>5. frame' \in FrameRecord
    BY <1>2 DEF FrameRecord, OrNone
  <2>2. proc' \in [Index -> Process] /\ step' \in [Index -> TaskState]
    BY DEF launchInstance, NoProcess, Process, TaskState
  <2>3. undone' \in Seq(Index)
    BY EmptySeq DEF launchInstance
  <2> QED
    BY <2>1, <2>2, <2>3, <2>4, <2>5 DEF TypeOK, launchInstance, LaunchRecord, GameRecord, FrameRecord, OrNone
<1>4. OnTrack'
  BY <1>1, <1>2 DEF launchInstance, OnTrack, NoProcess, Alive, current
<1>5. FinalizedOnce'
  BY DEF launchInstance, FinalizedOnce
<1>6. Stopped' /\ MayProceed' /\ TimerRuns' /\ Marked' /\ Escalated'
  BY <1>2 DEF launchInstance, NoGame, Stopped, Stopper, MayProceed, TimerRuns, Marked, Escalated, StopMarked
<1> QED
  BY <1>3, <1>4, <1>5, <1>6

LEMMA StartStepPreserves == IInv /\ startStep => IInv'
<1> SUFFICES ASSUME IInv, startStep PROVE IInv'
  OBVIOUS
<1> DEFINE k == Steps[current]
           l == IF k \in {"check", "update"} THEN [launch EXCEPT !.state = "Waiting"] ELSE launch
           f == [frame EXCEPT !.starting = FALSE]
<1>1. /\ current \in Index /\ launch.task = "Running" /\ frame.starting
      /\ step[current] = "Inactive" /\ step \in [Index -> TaskState]
      /\ proc \in [Index -> Process] /\ launch \in LaunchRecord /\ frame \in FrameRecord
  BY DEF IInv, TypeOK, OnTrack, startStep, LaunchRecord, FrameRecord
<1>2. /\ l \in LaunchRecord /\ l.task = launch.task /\ l.currentStep = current
      /\ l.state = "Aborted" => launch.state = "Aborted"
      /\ l.state \in {launch.state, "Waiting"}
  BY <1>1 DEF LaunchRecord, State, current
<1>3. f \in FrameRecord /\ f.starting = FALSE /\ f.aborting = frame.aborting
  BY <1>1 DEF FrameRecord
<1>4. /\ accepted \notin Stopper /\ frame.aborting \notin Stopper /\ ~game.timer
      /\ frame.aborting \in Stopper \cup {"lookup", "none"}
  BY <1>1 DEF IInv, Stopped, TimerRuns, Marked
<1>5. \A c \in Index : ~Alive(proc[c])
  BY <1>1 DEF IInv, OnTrack
<1>6. /\ game' = game /\ stopping' = stopping /\ asking' = asking /\ profiling' = profiling
      /\ accepted' = accepted
  BY DEF startStep
<1>7. stopping' \subseteq Index /\ profiling' \in BOOLEAN /\ asking' \in BOOLEAN
  BY <1>6 DEF IInv, TypeOK
<1>8. ASSUME NEW ok \in EndsAtOnce(k),
             step' = [step EXCEPT ![current] = IF ok THEN "Succeeded" ELSE "Failed"],
             onStepFinished(l, f, ok), UNCHANGED proc
      PROVE  IInv'
  <2>1. ok \in BOOLEAN
    BY <1>1, StepsFacts DEF EndsAtOnce, Kind
  <2> HIDE DEF l, f, k
  <2> QED
    BY <1>1, <1>2, <1>3, <1>4, <1>5, <1>6, <1>7, <1>8, <2>1, EndPreserves
<1>9. ASSUME step' = [step EXCEPT ![current] = "Running"],
             proc' = IF k \in {"command", "game"}
                     THEN [proc EXCEPT ![current].state = "Starting"] ELSE proc,
             launch' = l, frame' = f, UNCHANGED <<instance, undone>>
      PROVE  IInv'
  <2>1. step' \in [Index -> TaskState] /\ proc' \in [Index -> Process]
    BY <1>1, <1>9 DEF TaskState, Process
  <2> HIDE DEF l, f
  <2>2. TypeOK'
    BY <1>2, <1>3, <1>6, <1>9, <2>1 DEF IInv, TypeOK, LaunchRecord, FrameRecord
  <2>3. \A c \in Index : Alive(proc'[c]) <=> c = current /\ Steps[c] \in WithProcess
    BY <1>1, <1>5, <1>9 DEF Alive, WithProcess, Process
  <2>4. \A c \in Index : step'[c] = IF c = current THEN "Running" ELSE step[c]
    BY <1>1, <1>9
  <2>5. OnTrack'
    BY <1>1, <1>2, <1>3, <1>9, <2>3, <2>4 DEF IInv, OnTrack, Index, current
  <2>6. FinalizedOnce'
    BY <1>1, <1>2, <1>9 DEF IInv, FinalizedOnce, current
  <2>7. Stopped' /\ TimerRuns' /\ Marked' /\ Escalated'
    BY <1>1, <1>2, <1>3, <1>4, <1>6, <1>9 DEF IInv, Stopped, TimerRuns, Marked, Escalated, StopMarked
  <2>8. MayProceed'
    <3>1. \A c \in Index : c # current => proc'[c] = proc[c]
      BY <1>1, <1>9
    <3>2. game.mayProceed => Steps[current] # "game"
      BY <1>1 DEF IInv, MayProceed
    <3> QED
      BY <1>1, <1>6, <2>4, <3>1, <3>2 DEF IInv, MayProceed
  <2> QED
    BY <2>2, <2>5, <2>6, <2>7, <2>8 DEF IInv
<1> QED
  BY <1>8, <1>9 DEF startStep

LEMMA StepEndsPreserves == ASSUME NEW ok \in BOOLEAN PROVE IInv /\ StepEnds(ok) => IInv'
<1> SUFFICES ASSUME IInv, StepEnds(ok) PROVE IInv'
  OBVIOUS
<1>1. /\ launch.task = "Running" /\ step[current] = "Running" /\ ~frame.starting
      /\ frame.aborting = "none" /\ Steps[current] \notin WithProcess
      /\ ok => current \notin stopping
  BY DEF StepEnds, Idle, WithProcess
<1>2. launch \in LaunchRecord /\ frame \in FrameRecord /\ frame.starting = FALSE
  BY <1>1 DEF IInv, TypeOK, LaunchRecord, FrameRecord
<1>3. ok => accepted \notin Stopper /\ ~game.timer
  BY <1>1 DEF IInv, Stopped, TimerRuns, Doomed, WithProcess
<1>4. /\ step' = [step EXCEPT ![current] = IF ok THEN "Succeeded" ELSE "Failed"]
      /\ onStepFinished(launch, frame, ok)
  BY <1>1 DEF StepEnds, emitEnd
<1>5. /\ proc' = proc /\ game' = game /\ stopping' = stopping /\ asking' = asking
      /\ profiling' = profiling /\ accepted' = accepted
  BY DEF StepEnds
<1>6. proc' \in [Index -> Process] /\ \A c \in Index : ~Alive(proc'[c])
  BY <1>1, <1>5 DEF IInv, TypeOK, OnTrack
<1>7. stopping' \subseteq Index /\ profiling' \in BOOLEAN /\ asking' \in BOOLEAN
  BY <1>5 DEF IInv, TypeOK
<1>8. frame.aborting \in Stopper \cup {"lookup", "none"} /\ frame.aborting \notin Stopper
  BY <1>1 DEF Stopper
<1>9. launch.currentStep = current
  BY DEF current
<1> QED
  BY <1>1, <1>2, <1>3, <1>4, <1>5, <1>6, <1>7, <1>8, <1>9, EndPreserves

\* The process of step c is over, and with it the step.
ProcessOver(c, ok) ==
  /\ Idle /\ Alive(proc[c])
  /\ ok => ~Doomed
  /\ proc' = [proc EXCEPT ![c].state = "Over"]
  /\ emitEnd(c, launch, frame, ok)
  /\ UNCHANGED <<game, stopping, asking, profiling, accepted>>

LEMMA ProcessEnds ==
  ASSUME NEW c \in Index, NEW ok \in BOOLEAN PROVE IInv /\ ProcessOver(c, ok) => IInv'
<1> SUFFICES ASSUME IInv, ProcessOver(c, ok) PROVE IInv'
  OBVIOUS
<1>1. /\ c = current /\ step[c] = "Running" /\ launch.task = "Running"
      /\ Steps[c] \in WithProcess
  BY DEF IInv, OnTrack, ProcessOver
<1>2. /\ launch \in LaunchRecord /\ frame \in FrameRecord /\ frame.starting = FALSE
      /\ frame.aborting = "none" /\ launch.currentStep = current
  BY DEF IInv, TypeOK, LaunchRecord, FrameRecord, Idle, current, ProcessOver
<1>3. ok => accepted \notin Stopper /\ ~game.timer
  BY <1>1 DEF ProcessOver, IInv, Stopped, TimerRuns
<1>4. /\ step' = [step EXCEPT ![current] = IF ok THEN "Succeeded" ELSE "Failed"]
      /\ onStepFinished(launch, frame, ok)
  BY <1>1 DEF ProcessOver, emitEnd
<1>5. proc \in [Index -> Process] /\ proc' \in [Index -> Process]
  BY DEF ProcessOver, IInv, TypeOK, Process
<1>6. \A d \in Index : ~Alive(proc'[d])
  <2>1. \A d \in Index : d # c => ~Alive(proc[d]) /\ proc'[d] = proc[d]
    BY <1>1, <1>5 DEF ProcessOver, IInv, OnTrack
  <2>2. proc'[c].state = "Over"
    BY <1>5 DEF ProcessOver, Process
  <2> QED
    BY <2>1, <2>2 DEF Alive
<1>7. stopping' \subseteq Index /\ profiling' \in BOOLEAN /\ asking' \in BOOLEAN
  BY DEF ProcessOver, IInv, TypeOK
<1>8. frame.aborting \in Stopper \cup {"lookup", "none"} /\ frame.aborting \notin Stopper
  BY <1>2 DEF Stopper
<1>9. game' = game /\ accepted' = accepted
  BY DEF ProcessOver
<1>10. ok => accepted \notin Stopper /\ frame.aborting \notin Stopper /\ ~game.timer
  BY <1>3, <1>8
<1> QED
  BY <1>1, <1>2, <1>4, <1>5, <1>6, <1>7, <1>8, <1>9, <1>10, EndPreserves

LEMMA ProcessFailsToStartPreserves ==
  ASSUME NEW c \in Index PROVE IInv /\ processFailsToStart(c) => IInv'
<1> SUFFICES ASSUME IInv, processFailsToStart(c) PROVE IInv'
  OBVIOUS
<1>1. ProcessOver(c, FALSE)
  BY DEF processFailsToStart, Alive, ProcessOver
<1> QED
  BY <1>1, ProcessEnds

LEMMA ProcessExitsPreserves ==
  ASSUME NEW c \in Index, NEW ok \in BOOLEAN PROVE IInv /\ processExits(c, ok) => IInv'
<1> SUFFICES ASSUME IInv, processExits(c, ok) PROVE IInv'
  OBVIOUS
<1>1. Alive(proc[c])
  BY DEF processExits, Alive
<1>2. c = current /\ Steps[c] \in WithProcess
  BY <1>1 DEF IInv, OnTrack
<1>3. ok => ~Doomed
  BY <1>2 DEF processExits, Doomed, WithProcess
<1>4. ProcessOver(c, ok)
  BY <1>1, <1>3 DEF processExits, ProcessOver
<1> QED
  BY <1>4, ProcessEnds

LEMMA ProcessStartedPreserves ==
  ASSUME NEW c \in Index PROVE IInv /\ processStarted(c) => IInv'
<1> SUFFICES ASSUME IInv, processStarted(c) PROVE IInv'
  OBVIOUS
<1>1. /\ c = current /\ step[c] = "Running" /\ launch.task = "Running"
      /\ Steps[c] \in WithProcess
  BY DEF IInv, OnTrack, processStarted, Alive
<1>2. proc \in [Index -> Process] /\ launch \in LaunchRecord /\ frame \in FrameRecord /\ game \in GameRecord
  BY DEF IInv, TypeOK, LaunchRecord, FrameRecord, GameRecord
<1>3. frame.starting = FALSE /\ frame.aborting = "none"
  BY <1>2 DEF processStarted, Idle, FrameRecord
<1>4. /\ proc' = [proc EXCEPT ![c].state = "Running"] /\ step' = step /\ stopping' = stopping
      /\ instance' = instance /\ asking' = asking /\ undone' = undone /\ accepted' = accepted
  BY DEF processStarted
<1>5. /\ proc' \in [Index -> Process] /\ proc'[c].state = "Running"
      /\ proc'[c].is_aborting = proc[c].is_aborting /\ proc'[c].killed = proc[c].killed
      /\ \A d \in Index : d # c => proc'[d] = proc[d]
  BY <1>2, <1>4 DEF Process
<1>6. \A d \in Index : Alive(proc'[d]) <=> Alive(proc[d])
  BY <1>5 DEF processStarted, Alive
<1>7. CASE Steps[c] = "game"
  <2>1. readyForLaunch
    BY <1>7 DEF processStarted
  <2> DEFINE g == [game EXCEPT !.mayProceed = TRUE]
  <2>2. launch' = [launch EXCEPT !.state = "Waiting"]
    BY <2>1 DEF readyForLaunch
  <2>3. /\ launch' \in LaunchRecord /\ launch'.task = "Running" /\ launch'.currentStep = current
        /\ launch'.state = "Waiting"
    BY <1>1, <1>2, <2>2 DEF LaunchRecord, State, current
  <2>4. g \in GameRecord /\ g.mayProceed /\ g.timer = game.timer
    BY <1>2 DEF GameRecord
  <2>5. /\ frame' \in FrameRecord /\ frame'.starting = FALSE /\ profiling' \in BOOLEAN
        /\ \/ /\ game' = tellLaunch(g) /\ frame'.aborting = "none"
           \/ /\ game' = tellAbort(g) /\ frame'.aborting = "game"
           \/ /\ game' = g /\ frame'.aborting = "none"
    BY <1>1, <1>2, <1>3, <1>7, <2>1 DEF readyForLaunch, FrameRecord, OrNone, Kind, IInv, TypeOK
  <2> HIDE DEF g
  <2>6. /\ game' \in GameRecord
        /\ game'.timer = (game.timer \/ frame'.aborting = "game")
        /\ frame'.aborting = "game" => game'.told = "abort" /\ ~game'.mayProceed
    BY <1>2, <2>4, <2>5 DEF tellLaunch, tellAbort, GameRecord
  <2>7. TypeOK'
    BY <1>4, <1>5, <2>3, <2>5, <2>6 DEF IInv, TypeOK, LaunchRecord, FrameRecord, GameRecord
  <2>8. OnTrack' /\ FinalizedOnce'
    BY <1>1, <1>3, <1>4, <1>6, <2>3, <2>5, StayPreserves DEF IInv
  <2>9. accepted \in Stopper => proc[c].is_aborting
    BY <1>1, <1>7 DEF IInv, Stopped, Doomed, processStarted
  <2>10. ~game.timer \/ proc[c].is_aborting
    BY <1>1, <1>7 DEF IInv, TimerRuns, Doomed, processStarted
  <2>11. current' = c
    BY <1>1, <2>3 DEF current
  <2>12. Stopped' /\ TimerRuns'
    BY <1>4, <1>5, <1>7, <2>5, <2>6, <2>9, <2>10, <2>11 DEF Stopped, TimerRuns, Doomed, WithProcess, Stopper
  <2>13. MayProceed'
    <3>1. \A d \in Index : Steps[d] = "game" => d = c
      BY <1>7, StepsAssumption DEF Index, N
    <3> QED
      BY <1>1, <1>4, <1>5, <3>1 DEF MayProceed
  <2>14. Marked'
    BY <1>4, <2>3, <2>5 DEF IInv, Marked, Stopper
  <2>15. Escalated'
    BY <2>3, <2>5, <2>6 DEF Escalated, StopMarked, Stopper
  <2> QED
    BY <2>7, <2>8, <2>12, <2>13, <2>14, <2>15 DEF IInv
<1>8. CASE Steps[c] # "game"
  <2>1. launch' = launch /\ game' = game /\ frame' = frame /\ profiling' = profiling
    BY <1>8 DEF processStarted
  <2>2. TypeOK'
    BY <1>4, <1>5, <2>1 DEF IInv, TypeOK
  <2>3. OnTrack' /\ FinalizedOnce'
    BY <1>1, <1>4, <1>6, <2>1, StayPreserves DEF IInv, current
  <2>4. Doomed => Doomed'
    BY <1>1, <1>4, <1>5, <1>8, <2>1 DEF Doomed, current
  <2>5. Stopped' /\ TimerRuns' /\ Marked'
    BY <1>4, <2>1, <2>4 DEF IInv, Stopped, TimerRuns, Marked, current
  <2>6. MayProceed'
    BY <1>4, <1>5, <1>8, <2>1 DEF IInv, MayProceed
  <2>7. Escalated'
    BY <1>4, <1>5, <1>6, <2>1 DEF IInv, Escalated, StopMarked
  <2> QED
    BY <2>2, <2>3, <2>5, <2>6, <2>7 DEF IInv
<1> QED
  BY <1>7, <1>8

LEMMA EscalatePreserves == ASSUME NEW c \in Index PROVE IInv /\ escalate(c) => IInv'
<1> SUFFICES ASSUME IInv, escalate(c) PROVE IInv'
  OBVIOUS
<1>1. /\ game' = [game EXCEPT !.timer = FALSE] /\ game.timer /\ Steps[c] = "game"
      /\ launch' = launch /\ step' = step /\ stopping' = stopping /\ instance' = instance
      /\ frame' = frame /\ asking' = asking /\ profiling' = profiling /\ undone' = undone
      /\ accepted' = accepted /\ current' = current
  BY DEF escalate, current
<1>2. /\ game' \in GameRecord /\ game'.mayProceed = game.mayProceed /\ game'.told = game.told
      /\ ~game'.timer
  BY <1>1 DEF IInv, TypeOK, GameRecord
<1>3. /\ proc' \in [Index -> Process]
      /\ \A d \in Index : /\ proc'[d].state = proc[d].state
                          /\ Alive(proc'[d]) <=> Alive(proc[d])
                          /\ proc[d].is_aborting => proc'[d].is_aborting
                          /\ proc[d].killed => proc'[d].killed
      /\ Alive(proc[c]) => /\ proc'[c].is_aborting
                           /\ ~EarlyKillMisses => proc'[c].killed
  BY KilledFacts DEF escalate, IInv
<1>4. TypeOK'
  BY <1>1, <1>2, <1>3 DEF IInv, TypeOK, GameRecord
<1>5. OnTrack' /\ FinalizedOnce'
  BY <1>1, <1>3, StayPreserves DEF IInv, current
<1>6. current \in Index \/ launch.task # "Running"
  BY DEF IInv, OnTrack
<1>7. launch.task = "Running" /\ Doomed => Doomed'
  BY <1>1, <1>2, <1>3, <1>6 DEF Doomed, WithProcess
<1>8. Stopped' /\ MayProceed' /\ TimerRuns' /\ Marked'
  BY <1>1, <1>2, <1>3, <1>7 DEF IInv, Stopped, MayProceed, TimerRuns, Marked
<1>9. \A d \in Index : Alive(proc[d]) => d = c
  <2>1. \A d \in Index : Alive(proc[d]) => launch.task = "Running" /\ d = current
    BY DEF IInv, OnTrack
  <2>2. launch.task = "Running" => Steps[current] = "game"
    BY <1>1 DEF IInv, TimerRuns
  <2>3. \A d \in Index : Steps[d] = "game" => d = c
    BY <1>1, StepsAssumption DEF Index, N
  <2> QED
    BY <2>1, <2>2, <2>3
<1>10. Escalated'
  BY <1>1, <1>3, <1>9 DEF Escalated
<1> QED
  BY <1>4, <1>5, <1>8, <1>10 DEF IInv

LEMMA AbortReturnsPreserves == IInv /\ abortReturns => IInv'
<1> SUFFICES ASSUME IInv, abortReturns PROVE IInv'
  OBVIOUS
<1>1. /\ launch' = [launch EXCEPT !.state = "Aborted"]
      /\ frame' = [frame EXCEPT !.aborting = "none"]
      /\ accepted' = frame.aborting /\ frame.aborting # "none" /\ ~frame.starting
      /\ step' = step /\ proc' = proc /\ game' = game /\ stopping' = stopping
      /\ instance' = instance /\ asking' = asking /\ profiling' = profiling /\ undone' = undone
  BY DEF abortReturns
<1>2. launch \in LaunchRecord /\ frame \in FrameRecord
  BY DEF IInv, TypeOK, LaunchRecord, FrameRecord
<1>3. /\ launch' \in LaunchRecord /\ launch'.task = launch.task /\ launch'.currentStep = current
      /\ launch'.state = "Aborted" /\ current' = current
  BY <1>1, <1>2 DEF LaunchRecord, State, current
<1>4. frame' \in FrameRecord /\ frame'.starting = frame.starting /\ frame'.aborting = "none"
  BY <1>1, <1>2 DEF FrameRecord, OrNone
<1>5. launch.task # "Inactive"
  BY <1>1 DEF IInv, OnTrack, Idle
<1>6. accepted' \in Stopper \cup {"lookup"} /\ accepted' \in OrNone(Kind)
  BY <1>1 DEF IInv, Marked, Stopper, OrNone, Kind
<1>7. TypeOK'
  BY <1>1, <1>3, <1>4, <1>6 DEF IInv, TypeOK, LaunchRecord, FrameRecord
<1>8. OnTrack' /\ FinalizedOnce'
  BY <1>1, <1>3, <1>4, <1>5, StayPreserves DEF IInv
<1>9. Doomed <=> Doomed'
  BY <1>1, <1>3 DEF Doomed
<1>10. Stopped' /\ MayProceed' /\ TimerRuns' /\ Marked' /\ Escalated'
  <2>1. Stopped'
    BY <1>1, <1>3, <1>4, <1>9 DEF IInv, Stopped, Stopper
  <2>2. MayProceed' /\ Marked'
    BY <1>1, <1>4, <1>6 DEF IInv, MayProceed, Marked
  <2>3. TimerRuns'
    BY <1>1, <1>3, <1>4, <1>9 DEF IInv, TimerRuns
  <2>4. StopMarked' => StopMarked
    BY <1>1, <1>4 DEF StopMarked, Stopper
  <2>5. Escalated'
    BY <1>1, <2>4 DEF IInv, Escalated
  <2> QED
    BY <2>1, <2>2, <2>3, <2>5
<1> QED
  BY <1>7, <1>8, <1>10 DEF IInv

\* Nothing changes but what is on the screen and whether the profiler runs.
LEMMA WatchPreserves ==
  IInv /\ asking' \in BOOLEAN /\ profiling' \in BOOLEAN
       /\ UNCHANGED <<launch, step, proc, game, stopping, instance, frame, undone, accepted>>
    => IInv'
<1> SUFFICES ASSUME IInv, asking' \in BOOLEAN, profiling' \in BOOLEAN,
                    UNCHANGED <<launch, step, proc, game, stopping, instance, frame, undone,
                                accepted>>
             PROVE IInv'
  OBVIOUS
<1>1. TypeOK'
  BY DEF IInv, TypeOK
<1>2. OnTrack'
  BY DEF IInv, OnTrack, current, Alive, Idle
<1>3. FinalizedOnce' /\ MayProceed' /\ Marked'
  BY DEF IInv, FinalizedOnce, MayProceed, Marked, current
<1>4. Doomed <=> Doomed'
  BY DEF Doomed, current
<1>5. Stopped' /\ TimerRuns'
  BY <1>4 DEF IInv, Stopped, TimerRuns, current
<1>6. Escalated'
  BY DEF IInv, Escalated, StopMarked, Alive
<1> QED
  BY <1>1, <1>2, <1>3, <1>5, <1>6 DEF IInv

LEMMA AskToKillPreserves == IInv /\ askToKill => IInv'
<1> SUFFICES ASSUME IInv, askToKill PROVE IInv'
  OBVIOUS
<1>1. asking' \in BOOLEAN /\ profiling' \in BOOLEAN
  BY DEF IInv, TypeOK, askToKill
<1> QED
  BY <1>1, WatchPreserves DEF askToKill

LEMMA ProfilerReadyPreserves == IInv /\ profilerReady => IInv'
<1> SUFFICES ASSUME IInv, profilerReady PROVE IInv'
  OBVIOUS
<1>1. /\ launch' = launch /\ step' = step /\ proc' = proc /\ stopping' = stopping
      /\ instance' = instance /\ frame' = frame /\ asking' = asking /\ profiling' = profiling
      /\ undone' = undone /\ accepted' = accepted /\ current' = current
      /\ game' \in {game, tellLaunch(game)}
  BY DEF profilerReady, current
<1>2. /\ game' \in GameRecord /\ game'.timer = game.timer
      /\ ~game.mayProceed => game' = game
      /\ game'.mayProceed => game.mayProceed
  BY <1>1 DEF tellLaunch, GameRecord, IInv, TypeOK
<1>3. TypeOK'
  BY <1>1, <1>2 DEF IInv, TypeOK, GameRecord
<1>4. OnTrack' /\ FinalizedOnce'
  BY <1>1, StayPreserves DEF IInv, current
<1>5. Doomed => Doomed'
  BY <1>1, <1>2 DEF Doomed
<1>6. Stopped' /\ TimerRuns' /\ Marked' /\ MayProceed'
  BY <1>1, <1>2, <1>5 DEF IInv, Stopped, TimerRuns, Marked, MayProceed
<1>7. Escalated'
  BY <1>1, <1>2 DEF IInv, Escalated, StopMarked, Alive
<1> QED
  BY <1>3, <1>4, <1>6, <1>7 DEF IInv

-----------------------------------------------------------------------------
(* The abort of the current step, with f on the stack. *)

Aborts(f) ==
  /\ Idle /\ launch.task # "Inactive"
  /\ f \in FrameRecord /\ f.starting = FALSE /\ f.aborting \in Stopper \cup {"lookup", "none"}
  /\ asking' \in BOOLEAN /\ profiling' \in BOOLEAN /\ accepted' = accepted

\* It has not ended the step.
AbortStays(f) ==
  /\ Aborts(f)
  /\ launch' = launch /\ frame' = f /\ step' = step /\ instance' = instance
  /\ undone' = undone
  /\ proc' \in [Index -> Process] /\ game' \in GameRecord /\ stopping' \subseteq Index
  /\ \A c \in Index : Alive(proc'[c]) <=> Alive(proc[c])

LEMMA StaysPreserves ==
  ASSUME NEW f PROVE IInv /\ AbortStays(f) => TypeOK' /\ OnTrack' /\ FinalizedOnce' /\ Marked'
<1> SUFFICES ASSUME IInv, AbortStays(f) PROVE TypeOK' /\ OnTrack' /\ FinalizedOnce' /\ Marked'
  OBVIOUS
<1>1. frame.starting = FALSE
  BY DEF AbortStays, Aborts, Idle, IInv, TypeOK
<1>2. TypeOK'
  BY DEF IInv, TypeOK, AbortStays, Aborts, LaunchRecord, FrameRecord, GameRecord
<1>3. OnTrack' /\ FinalizedOnce'
  BY <1>1, StayPreserves DEF IInv, AbortStays, Aborts, current
<1>4. Marked'
  BY DEF IInv, Marked, AbortStays, Aborts
<1> QED
  BY <1>2, <1>3, <1>4

\* It has ended the step.
AbortEndsStep(f, ok) ==
  /\ Aborts(f)
  /\ step[current] = "Running" /\ Steps[current] \notin WithProcess
  /\ ok => accepted \notin Stopper /\ f.aborting \notin Stopper /\ ~game.timer
  /\ emitEnd(current, launch, f, ok)
  /\ proc' = proc /\ game' = game /\ stopping' \subseteq Index

LEMMA AbortEndsPreserves ==
  ASSUME NEW f, NEW ok \in BOOLEAN PROVE IInv /\ AbortEndsStep(f, ok) => IInv'
<1> SUFFICES ASSUME IInv, AbortEndsStep(f, ok) PROVE IInv'
  OBVIOUS
<1>1. current \in Index /\ launch.task = "Running" /\ launch.currentStep = current
  BY DEF AbortEndsStep, Aborts, IInv, OnTrack, current
<1>2. launch \in LaunchRecord
  BY DEF IInv, TypeOK, LaunchRecord
<1>3. /\ step' = [step EXCEPT ![current] = IF ok THEN "Succeeded" ELSE "Failed"]
      /\ onStepFinished(launch, f, ok)
  BY DEF AbortEndsStep, emitEnd
<1>4. proc' \in [Index -> Process] /\ \A c \in Index : ~Alive(proc'[c])
  BY <1>1 DEF AbortEndsStep, IInv, TypeOK, OnTrack
<1>5. /\ f \in FrameRecord /\ f.starting = FALSE /\ f.aborting \in Stopper \cup {"lookup", "none"}
      /\ asking' \in BOOLEAN /\ profiling' \in BOOLEAN /\ accepted' = accepted
      /\ game' = game /\ stopping' \subseteq Index
      /\ ok => accepted \notin Stopper /\ f.aborting \notin Stopper /\ ~game.timer
  BY DEF AbortEndsStep, Aborts
<1> QED
  BY <1>1, <1>2, <1>3, <1>4, <1>5, EndPreserves

LEMMA AbortUpdatePreserves ==
  ASSUME NEW f PROVE IInv /\ Aborts(f) /\ abortUpdate(f) => IInv'
<1> SUFFICES ASSUME IInv, Aborts(f), abortUpdate(f) PROVE IInv'
  OBVIOUS
<1>1. /\ current \in Index /\ Steps[current] = "update"
      /\ stopping' = stopping \cup {current} /\ proc' = proc /\ game' = game
  BY DEF Aborts, abortUpdate, IInv, OnTrack
<1>2. stopping' \subseteq Index
  BY <1>1 DEF IInv, TypeOK
<1>3. CASE emitEnd(current, launch, f, FALSE) /\ step[current] = "Running"
  <2>1. AbortEndsStep(f, FALSE)
    BY <1>1, <1>2, <1>3 DEF AbortEndsStep, WithProcess
  <2> QED
    BY <2>1, AbortEndsPreserves
<1>4. CASE launch' = launch /\ frame' = f /\ step' = step /\ instance' = instance /\ undone' = undone
  <2>1. AbortStays(f)
    BY <1>1, <1>2, <1>4 DEF AbortStays, IInv, TypeOK, GameRecord
  <2>2. TypeOK' /\ OnTrack' /\ FinalizedOnce' /\ Marked'
    BY <2>1, StaysPreserves
  <2>3. ~frame'.starting /\ current' = current
    BY <1>4 DEF Aborts, current
  <2>4. Doomed'
    BY <1>1, <2>3 DEF Doomed
  <2>5. Stopped'
    BY <2>3, <2>4 DEF Stopped
  <2>6. MayProceed'
    BY <1>1, <1>4 DEF IInv, MayProceed
  <2>7. TimerRuns'
    BY <1>1, <1>4 DEF IInv, TimerRuns
  <2>8. Escalated'
    BY <1>1 DEF Escalated, IInv, OnTrack, WithProcess
  <2> QED
    BY <2>2, <2>5, <2>6, <2>7, <2>8 DEF IInv
<1>5. \/ emitEnd(current, launch, f, FALSE) /\ step[current] = "Running"
      \/ launch' = launch /\ frame' = f /\ step' = step /\ instance' = instance /\ undone' = undone
  BY DEF abortUpdate, emitEnd
<1> QED
  BY <1>3, <1>4, <1>5

LEMMA AbortLookupPreserves ==
  ASSUME NEW f PROVE IInv /\ Aborts(f) /\ f.aborting = "lookup" /\ abortLookup(f) => IInv'
<1> SUFFICES ASSUME IInv, Aborts(f), f.aborting = "lookup", abortLookup(f) PROVE IInv'
  OBVIOUS
<1>1. /\ current \in Index /\ Steps[current] = "lookup" /\ proc' = proc /\ game' = game
      /\ stopping' = stopping /\ emitEnd(current, launch, f, TRUE)
  BY DEF Aborts, abortLookup, IInv, OnTrack
<1>2. stopping' \subseteq Index
  BY <1>1 DEF IInv, TypeOK
<1>3. CASE step[current] = "Running"
  <2>1. launch.task = "Running"
    BY <1>1, <1>3 DEF IInv, OnTrack
  <2>2. accepted \notin Stopper /\ ~game.timer /\ f.aborting \notin Stopper
    BY <1>1, <2>1 DEF IInv, Stopped, TimerRuns, Doomed, WithProcess, Stopper
  <2>3. AbortEndsStep(f, TRUE)
    BY <1>1, <1>2, <1>3, <2>2 DEF AbortEndsStep, WithProcess
  <2> QED
    BY <2>3, AbortEndsPreserves
<1>4. CASE step[current] # "Running"
  <2>1. launch' = launch /\ frame' = f /\ step' = step /\ instance' = instance /\ undone' = undone
    BY <1>1, <1>4 DEF emitEnd
  <2>2. AbortStays(f)
    BY <1>1, <1>2, <2>1 DEF AbortStays, IInv, TypeOK, GameRecord
  <2>3. TypeOK' /\ OnTrack' /\ FinalizedOnce' /\ Marked'
    BY <2>2, StaysPreserves
  <2>4. launch.task # "Running"
    BY <1>4 DEF IInv, OnTrack, Aborts, Idle
  <2>5. Stopped'
    BY <2>1, <2>4 DEF Stopped, Aborts
  <2>6. MayProceed'
    BY <1>1, <2>1 DEF IInv, MayProceed
  <2>7. TimerRuns'
    BY <2>1, <2>4 DEF TimerRuns
  <2>8. Escalated'
    BY <1>1 DEF Escalated, IInv, OnTrack, WithProcess
  <2> QED
    BY <2>3, <2>5, <2>6, <2>7, <2>8 DEF IInv
<1> QED
  BY <1>3, <1>4

LEMMA AbortProcessPreserves ==
  ASSUME NEW f PROVE IInv /\ Aborts(f) /\ abortProcess(f) => IInv'
<1> SUFFICES ASSUME IInv, Aborts(f), abortProcess(f) PROVE IInv'
  OBVIOUS
<1>1. /\ current \in Index /\ Steps[current] \in WithProcess
      /\ launch' = launch /\ frame' = f /\ step' = step /\ stopping' = stopping
      /\ instance' = instance /\ undone' = undone /\ current' = current
  BY DEF Aborts, abortProcess, IInv, OnTrack, WithProcess, current
<1>2. stopping' \subseteq Index /\ ~frame'.starting /\ accepted' = accepted
  BY <1>1 DEF IInv, TypeOK, Aborts
<1>3. launch.task = "Running" => step[current] = "Running" /\ Alive(proc[current])
  BY <1>1 DEF IInv, OnTrack, Aborts, Idle
<1>4. \A c \in Index : Alive(proc[c]) => c = current
  BY DEF IInv, OnTrack
<1>5. CASE Steps[current] = "game" /\ game.mayProceed
  <2>1. proc' = proc /\ game' = tellAbort(game)
    BY <1>5 DEF abortProcess
  <2>2. game' \in GameRecord /\ ~game'.mayProceed /\ game'.told = "abort" /\ game'.timer
    BY <2>1 DEF tellAbort, GameRecord, IInv, TypeOK
  <2>3. AbortStays(f)
    BY <1>1, <1>2, <2>1, <2>2 DEF AbortStays, IInv, TypeOK
  <2>4. TypeOK' /\ OnTrack' /\ FinalizedOnce' /\ Marked'
    BY <2>3, StaysPreserves
  <2>5. launch.task = "Running" => proc[current].state = "Running"
    BY <1>1, <1>3, <1>5 DEF IInv, MayProceed, Alive
  <2>6. launch.task = "Running" => Doomed'
    BY <1>1, <1>5, <2>1, <2>2, <2>5 DEF Doomed
  <2>7. Stopped' /\ TimerRuns'
    BY <1>1, <1>2, <1>5, <2>6 DEF Stopped, TimerRuns
  <2>8. MayProceed' /\ Escalated'
    BY <2>2 DEF MayProceed, Escalated
  <2> QED
    BY <2>4, <2>7, <2>8 DEF IInv
<1>6. CASE ~(Steps[current] = "game" /\ game.mayProceed)
  <2>1. proc' \in Killed(current) /\ game' = game
    BY <1>6 DEF abortProcess
  <2>2. /\ proc' \in [Index -> Process]
        /\ \A d \in Index : /\ proc'[d].state = proc[d].state
                            /\ Alive(proc'[d]) <=> Alive(proc[d])
                            /\ proc[d].is_aborting => proc'[d].is_aborting
                            /\ proc[d].killed => proc'[d].killed
        /\ Alive(proc[current]) => /\ proc'[current].is_aborting
                                   /\ ~EarlyKillMisses => proc'[current].killed
    BY <1>1, <2>1, KilledFacts DEF IInv
  <2>3. AbortStays(f)
    BY <1>1, <1>2, <2>1, <2>2 DEF AbortStays, IInv, TypeOK, GameRecord
  <2>4. TypeOK' /\ OnTrack' /\ FinalizedOnce' /\ Marked'
    BY <2>3, StaysPreserves
  <2>5. launch.task = "Running" => Doomed'
    BY <1>1, <1>3, <2>2 DEF Doomed
  <2>6. Stopped' /\ TimerRuns'
    BY <1>1, <1>2, <2>1, <2>5 DEF IInv, Stopped, TimerRuns
  <2>7. MayProceed'
    BY <1>1, <2>1, <2>2 DEF IInv, MayProceed
  <2>8. Escalated'
    BY <1>4, <2>2 DEF Escalated
  <2> QED
    BY <2>4, <2>6, <2>7, <2>8 DEF IInv
<1> QED
  BY <1>5, <1>6

\* LaunchTask::abort(), from wherever it is called.
LEMMA AbortPreserves ==
  IInv /\ Idle /\ abort /\ asking' \in BOOLEAN /\ profiling' \in BOOLEAN /\ accepted' = accepted
    => IInv'
<1> SUFFICES ASSUME IInv, Idle, abort, asking' \in BOOLEAN, profiling' \in BOOLEAN,
                    accepted' = accepted
             PROVE IInv'
  OBVIOUS
<1>1. CASE ~canAbort
  BY <1>1, WatchPreserves DEF abort
<1>2. CASE canAbort
  <2> DEFINE f == [frame EXCEPT !.aborting = Steps[current]]
  <2>1. abortUpdate(f) \/ abortLookup(f) \/ abortProcess(f)
    BY <1>2 DEF abort
  <2>2. f \in FrameRecord /\ f.starting = FALSE /\ f.aborting = Steps[current]
    BY <1>2 DEF canAbort, IInv, TypeOK, FrameRecord, OrNone, Kind, Idle
  <2>3. Steps[current] \in Stopper \cup {"lookup"} /\ launch.task # "Inactive"
    BY <1>2 DEF canAbort, IInv, OnTrack, Stopper
  <2> HIDE DEF f
  <2>4. Aborts(f)
    BY <2>2, <2>3 DEF Aborts
  <2>5. abortLookup(f) => f.aborting = "lookup"
    BY <2>2 DEF abortLookup
  <2> QED
    BY <2>1, <2>4, <2>5, AbortUpdatePreserves, AbortLookupPreserves, AbortProcessPreserves
<1> QED
  BY <1>1, <1>2

LEMMA AnswerPreserves == IInv /\ answer => IInv'
<1> SUFFICES ASSUME IInv, answer PROVE IInv'
  OBVIOUS
<1>1. Idle /\ asking' \in BOOLEAN /\ profiling' \in BOOLEAN /\ accepted' = accepted
  BY DEF answer, IInv, TypeOK
<1>2. CASE abort
  BY <1>1, <1>2, AbortPreserves
<1>3. CASE UNCHANGED <<launch, step, proc, game, stopping, instance, frame, undone>>
  BY <1>1, <1>3, WatchPreserves
<1> QED
  BY <1>2, <1>3 DEF answer

LEMMA ProfilerAbortsPreserves == IInv /\ profilerAborts => IInv'
<1> SUFFICES ASSUME IInv, profilerAborts PROVE IInv'
  OBVIOUS
<1>1. Idle /\ asking' \in BOOLEAN /\ profiling' \in BOOLEAN /\ accepted' = accepted /\ abort
  BY DEF profilerAborts, IInv, TypeOK
<1> QED
  BY <1>1, AbortPreserves

LEMMA SkipPreserves == IInv /\ skip => IInv'
<1> SUFFICES ASSUME IInv, skip PROVE IInv'
  OBVIOUS
<1>1. Aborts(frame)
  BY DEF Aborts, skip, IInv, TypeOK, FrameRecord, Idle
<1> QED
  BY <1>1, AbortUpdatePreserves DEF skip

-----------------------------------------------------------------------------
(* The invariant, and what follows from it. *)

LEMMA NextPreserves == IInv /\ [Next]_vars => IInv'
<1> SUFFICES ASSUME IInv, [Next]_vars PROVE IInv'
  OBVIOUS
<1>1. CASE UNCHANGED vars
  <2>1. asking' \in BOOLEAN /\ profiling' \in BOOLEAN
    BY <1>1 DEF IInv, TypeOK, vars
  <2> QED
    BY <1>1, <2>1, WatchPreserves DEF vars
<1>2. CASE launchInstance
  BY <1>2, LaunchInstancePreserves
<1>3. CASE startStep
  BY <1>3, StartStepPreserves
<1>4. CASE abortReturns
  BY <1>4, AbortReturnsPreserves
<1>5. CASE askToKill
  BY <1>5, AskToKillPreserves
<1>6. CASE answer
  BY <1>6, AnswerPreserves
<1>7. CASE skip
  BY <1>7, SkipPreserves
<1>8. CASE profilerReady
  BY <1>8, ProfilerReadyPreserves
<1>9. CASE profilerAborts
  BY <1>9, ProfilerAbortsPreserves
<1>10. ASSUME NEW ok \in BOOLEAN, StepEnds(ok) PROVE IInv'
  BY <1>10, StepEndsPreserves
<1>11. ASSUME NEW c \in Index, processStarted(c) PROVE IInv'
  BY <1>11, ProcessStartedPreserves
<1>12. ASSUME NEW c \in Index, processFailsToStart(c) PROVE IInv'
  BY <1>12, ProcessFailsToStartPreserves
<1>13. ASSUME NEW c \in Index, NEW ok \in BOOLEAN, processExits(c, ok) PROVE IInv'
  BY <1>13, ProcessExitsPreserves
<1>14. ASSUME NEW c \in Index, escalate(c) PROVE IInv'
  BY <1>14, EscalatePreserves
<1> QED
  BY <1>1, <1>2, <1>3, <1>4, <1>5, <1>6, <1>7, <1>8, <1>9, <1>10, <1>11, <1>12, <1>13, <1>14
  DEF Next

LEMMA Invariance == Spec => []IInv
BY InitEstablishes, NextPreserves, PTL DEF Spec

\* Every variable of a launch has its type, whatever its steps are.
THEOREM TypeCorrect == Spec => []TypeOK
<1>1. IInv => TypeOK
  BY DEF IInv
<1> QED
  BY <1>1, Invariance, PTL

\* finalizeSteps() runs over exactly the steps that were started, once and in reverse
\* order, however the launch ends (LaunchTask.cpp:80-114).
THEOREM FinalizedOnceHolds == Spec => []FinalizedOnce
<1>1. IInv => FinalizedOnce
  BY DEF IInv
<1> QED
  BY <1>1, Invariance, PTL

\* An instance that counts as stopped has no process left, even if a kill came too early
\* to reach one (LoggedProcess.cpp:100-183, LaunchTask.cpp:240-251).
THEOREM StoppedMeansDownHolds == Spec => []StoppedMeansDown
<1>1. IInv => StoppedMeansDown
  BY DEF IInv, OnTrack, StoppedMeansDown
<1> QED
  BY <1>1, Invariance, PTL

\* When a signal reaches a process that is starting, what is left of an aborted launch
\* is killed or has a timer that kills it (MeshMCPartLaunch.cpp:211-240).
THEOREM AbortEscalatesHolds == ASSUME ~EarlyKillMisses PROVE Spec => []AbortEscalates
<1>1. IInv => AbortEscalates
  BY DEF IInv, Marked, Escalated, StopMarked, AbortEscalates
<1> QED
  BY <1>1, Invariance, PTL

\* The end of step c begins no step.
LEMMA EndBeginsNothing ==
  ASSUME TypeOK, NEW c, NEW l, NEW f, NEW ok, emitEnd(c, l, f, ok)
  PROVE  NothingBegins
BY DEF TypeOK, emitEnd, NothingBegins

LEMMA AbortBeginsNothing == ASSUME TypeOK, abort PROVE NothingBegins
<1>1. ASSUME NEW f, abortUpdate(f) \/ abortLookup(f) \/ abortProcess(f) PROVE NothingBegins
  BY <1>1, EndBeginsNothing DEF abortUpdate, abortLookup, abortProcess, NothingBegins
<1>2. CASE step' = step
  BY <1>2 DEF NothingBegins
<1> QED
  BY <1>1, <1>2 DEF abort

\* No step begins once a step other than a server lookup has accepted an abort: the
\* process that was asked to stop does not report success (LaunchTask.cpp:163-190).
THEOREM NoStepAfterStopHolds == Spec => NoStepAfterStop
<1>1. ASSUME IInv, [Next]_vars, accepted \notin {"none", "lookup"}
      PROVE  NothingBegins
  <2>1. ~frame.starting /\ TypeOK
    BY <1>1 DEF IInv, Marked, Stopped
  <2>2. CASE launchInstance
    BY <2>2 DEF launchInstance, NothingBegins
  <2>3. CASE startStep
    BY <2>1, <2>3 DEF startStep
  <2>4. CASE abortReturns \/ askToKill \/ profilerReady \/ UNCHANGED vars
    BY <2>4 DEF abortReturns, askToKill, profilerReady, vars, NothingBegins
  <2>5. CASE answer \/ profilerAborts
    <3>1. abort \/ step' = step
      BY <2>5 DEF answer, profilerAborts
    <3> QED
      BY <3>1, <2>1, AbortBeginsNothing DEF NothingBegins
  <2>6. CASE skip
    BY <2>1, <2>6, EndBeginsNothing DEF skip, abortUpdate, NothingBegins
  <2>7. ASSUME NEW ok \in BOOLEAN, StepEnds(ok) PROVE NothingBegins
    BY <2>1, <2>7, EndBeginsNothing DEF StepEnds
  <2>8. ASSUME NEW c \in Index,
               \/ processStarted(c) \/ processFailsToStart(c) \/ escalate(c)
               \/ \E ok \in BOOLEAN : processExits(c, ok)
        PROVE  NothingBegins
    <3>1. CASE processStarted(c) \/ escalate(c)
      BY <3>1 DEF processStarted, escalate, NothingBegins
    <3>2. CASE processFailsToStart(c)
      BY <2>1, <3>2, EndBeginsNothing DEF processFailsToStart
    <3>3. ASSUME NEW ok \in BOOLEAN, processExits(c, ok) PROVE NothingBegins
      BY <2>1, <3>3, EndBeginsNothing DEF processExits
    <3> QED
      BY <2>8, <3>1, <3>2, <3>3
  <2> QED
    BY <1>1, <2>2, <2>3, <2>4, <2>5, <2>6, <2>7, <2>8 DEF Next
<1>2. IInv /\ [Next]_vars
        => [accepted \notin {"none", "lookup"} /\ accepted' = accepted => NothingBegins]_vars
  BY <1>1
<1> QED
  BY <1>2, Invariance, PTL DEF Spec, NoStepAfterStop
=============================================================================
