------------------------------- MODULE NetJob -------------------------------
(***************************************************************************)
(* launcher/net/NetJob: a Task that runs network actions, at most MaxDoing *)
(* at a time, and gives each of them MaxFailures more goes after a failure *)
(*                                                                         *)
(* `job' is the object, field by field; what it shows of its progress is   *)
(* left out.  startMoreParts() runs parts in a loop, and a part that ends  *)
(* inside its own start() calls startMoreParts() again from within.  The   *)
(* frames of that recursion have no state of their own, so `looping' is    *)
(* all there is to know of them: the loop goes on, and no other event can  *)
(* come in between.  `posted' says that executeTask() has put              *)
(* startMoreParts() on the event loop.                                     *)
(*                                                                         *)
(* Parts are handed in before the job is started, as everywhere in the     *)
(* launcher, and none of them is running then.                             *)
(*                                                                         *)
(* JobInit, JobNext, abortJob and the like are so named that the proofs    *)
(* can be about this module and CachedDownload, whose names those are.     *)
(***************************************************************************)
EXTENDS Naturals, Sequences, FiniteSets

CONSTANTS Part,          \* the net actions that may be handed in, each once
          Instant,       \* those whose start() may end them: a cache hit, a file that cannot be opened
          Unstoppable,   \* those whose abort() does nothing: ImgurUpload, ImgurAlbumCreation
          MaxDoing,      \* 6
          MaxFailures    \* 3

ASSUME PartAssumption == Instant \subseteq Part /\ Unstoppable \subseteq Part
ASSUME LimitAssumption == MaxDoing \in Nat \ {0} /\ MaxFailures \in Nat

VARIABLES job, looping, posted,
          asked    \* abort() has been called (history, for the properties)
jobVars == <<job, looping, posted, asked>>

Ended == {"Succeeded", "Failed", "AbortedByUser"}
Outcome == {"Succeeded", "Failed", "Aborted"}

JobRecord ==
  [state : {"Inactive", "Running"} \cup Ended, downloads : SUBSET Part, todo : Seq(Part),
   doing : SUBSET Part, done : SUBSET Part, failed : SUBSET Part,
   failures : [Part -> 0..MaxFailures], aborted : BOOLEAN]

JobTypeOK == job \in JobRecord /\ looping \in BOOLEAN /\ posted \in BOOLEAN /\ asked \in BOOLEAN

Todo(j) == {j.todo[i] : i \in DOMAIN j.todo}
HasWork(j) == j.state = "Running" /\ j.todo # <<>>
HasSlot(j) == Cardinality(j.doing) < MaxDoing

JobInit == /\ job = [state |-> "Inactive", downloads |-> {}, todo |-> <<>>, doing |-> {},
                     done |-> {}, failed |-> {}, failures |-> [p \in Part |-> 0],
                     aborted |-> FALSE]
           /\ looping = FALSE
           /\ posted = FALSE
           /\ asked = FALSE

-----------------------------------------------------------------------------
\* A part ends: what partSucceeded(), partFailed() and partAborted() do to the sets.

partSucceeded(j, p) == [j EXCEPT !.doing = @ \ {p}, !.done = @ \cup {p}]

\* Wrong on purpose, as are the definitions below whose names end in Mutant: each
\* is a bug that a property of this module has to notice.
partFailedOnceMoreMutant(j, p) ==
  IF j.failures[p] > MaxFailures
  THEN [j EXCEPT !.doing = @ \ {p}, !.failed = @ \cup {p}]
  ELSE [j EXCEPT !.doing = @ \ {p}, !.failures[p] = @ + 1, !.todo = Append(@, p)]

partFailedKeepsSlotMutant(j, p) ==
  IF j.failures[p] = MaxFailures
  THEN [j EXCEPT !.doing = @ \ {p}, !.failed = @ \cup {p}]
  ELSE [j EXCEPT !.failures[p] = @ + 1, !.todo = Append(@, p)]

partFailedTooEarlyMutant(j, p) ==
  IF j.failures[p] + 1 >= MaxFailures
  THEN [j EXCEPT !.doing = @ \ {p}, !.failed = @ \cup {p}]
  ELSE [j EXCEPT !.doing = @ \ {p}, !.failures[p] = @ + 1, !.todo = Append(@, p)]

partFailedUncountedMutant(j, p) == [j EXCEPT !.doing = @ \ {p}, !.todo = Append(@, p)]

partFailed(j, p) ==
  IF j.failures[p] = MaxFailures
  THEN [j EXCEPT !.doing = @ \ {p}, !.failed = @ \cup {p}]
  ELSE [j EXCEPT !.doing = @ \ {p}, !.failures[p] = @ + 1, !.todo = Append(@, p)]

partAborted(j, S) == [j EXCEPT !.doing = @ \ S, !.failed = @ \cup S, !.aborted = @ \/ S # {}]

partEnded(j, p, outcome) == CASE outcome = "Succeeded" -> partSucceeded(j, p)
                              [] outcome = "Failed" -> partFailed(j, p)
                              [] outcome = "Aborted" -> partAborted(j, {p})

finish(j) == [j EXCEPT !.state = IF j.failed = {} THEN "Succeeded"
                                 ELSE IF j.aborted THEN "AbortedByUser" ELSE "Failed"]

\* startMoreParts() up to its loop: with nothing left to do it may end the job.
startMoreParts(j) ==
  /\ job' = IF j.state = "Running" /\ j.todo = <<>> /\ j.doing = {} THEN finish(j) ELSE j
  /\ looping' = (HasWork(j) /\ HasSlot(j))

\* One round of the loop: the next part goes on, or ends before start() returns.
startPart ==
  /\ looping
  /\ LET p == Head(job.todo)
         j == [job EXCEPT !.todo = Tail(@), !.doing = @ \cup {p}]
     IN \/ job' = j /\ looping' = (HasWork(j) /\ HasSlot(j))
        \/ /\ p \in Instant
           /\ \E outcome \in {"Succeeded", "Failed"} : startMoreParts(partEnded(j, p, outcome))
  /\ UNCHANGED <<posted, asked>>

-----------------------------------------------------------------------------
\* What the event loop can bring while no loop of ours is running.

addNetAction(p) ==
  /\ ~looping
  /\ job.state = "Inactive"
  /\ p \notin job.downloads
  /\ job' = [job EXCEPT !.downloads = @ \cup {p}, !.todo = Append(@, p)]
  /\ UNCHANGED <<looping, posted, asked>>

\* Task::start() and executeTask(), "hack that delays early failures".
executeTask ==
  /\ ~looping
  /\ job.state # "Running"
  /\ job' = [job EXCEPT !.state = "Running"]
  /\ posted' = TRUE
  /\ UNCHANGED <<looping, asked>>

startMorePartsEvent ==
  /\ ~looping
  /\ posted
  /\ posted' = FALSE
  /\ startMoreParts(job)
  /\ UNCHANGED asked

\* The reply of p has finished.
PartEnds(p, outcome) ==
  /\ ~looping
  /\ p \in job.doing
  /\ startMoreParts(partEnded(job, p, outcome))
  /\ UNCHANGED <<posted, asked>>

\* abort(): nothing is waiting any longer, and the parts in S end as aborted
\* before it returns.  The others cannot be stopped, or their reply has finished
\* and only its signal is still to come.
abortJob ==
  /\ ~looping
  /\ asked' = TRUE
  /\ \E S \in SUBSET (job.doing \ Unstoppable) :
       LET j == partAborted([job EXCEPT !.failed = @ \cup Todo(job), !.todo = <<>>], S)
       IN IF S = {} THEN job' = j /\ UNCHANGED looping ELSE startMoreParts(j)
  /\ UNCHANGED posted

JobNext == \/ startPart
           \/ executeTask
           \/ startMorePartsEvent
           \/ abortJob
           \/ \E p \in Part : \/ addNetAction(p)
                              \/ \E outcome \in {"Succeeded", "Failed"} : PartEnds(p, outcome)

JobSpec == JobInit /\ [][JobNext]_jobVars

\* The event loop turns, a loop that can go round does, and every reply finishes.
Fairness == /\ WF_jobVars(startPart)
            /\ WF_jobVars(startMorePartsEvent)
            /\ \A p \in Part : WF_jobVars(\E outcome \in {"Succeeded", "Failed"} : PartEnds(p, outcome))
FairSpec == JobSpec /\ Fairness
-----------------------------------------------------------------------------
(* Properties. *)

\* Every part handed in is in exactly one place: waiting once, running in a slot,
\* done or failed, through any number of retries; and once the job has ended
\* nothing waits or runs (NetJob.cpp:89-129, 182-225, 253-266).
Disjoint(j) == /\ \A i, k \in DOMAIN j.todo : j.todo[i] = j.todo[k] => i = k
               /\ Todo(j) \cap (j.doing \cup j.done \cup j.failed) = {}
               /\ j.doing \cap (j.done \cup j.failed) = {}
               /\ j.done \cap j.failed = {}
               /\ j.downloads = Todo(j) \cup j.doing \cup j.done \cup j.failed
OnePlace == /\ Disjoint(job)
            /\ Cardinality(job.doing) <= MaxDoing
            /\ job.state \in Ended => job.doing = {} /\ job.todo = <<>>

\* A running job always has something that will carry it on: a loop, a start on
\* the event loop, or parts running because no more may (NetJob.cpp:182-225).
NeverStuck == job.state = "Running" =>
                \/ looping
                \/ posted
                \/ job.doing # {} /\ (job.todo = <<>> \/ ~HasSlot(job))

\* Unless it was aborted, a job gives up on a part only after MaxFailures retries
\* of it, and leaves none untried; one with a failed part is not a success
\* (NetJob.cpp:103-119, 193-201).
EveryPartTried ==
  job.state \in Ended /\ ~asked =>
    /\ \A p \in job.downloads : p \in job.done \/ job.failures[p] = MaxFailures
    /\ job.state = "Succeeded" <=> job.downloads = job.done

\* A job that had a running part cut short by abort() can only end as aborted,
\* whatever its other parts come to (NetJob.cpp:121-129, 193-201).
CutShortIsAborted == job.aborted => job.state \notin {"Succeeded", "Failed"}

\* A job ends as what happened to its parts, with and without an abort.
EndsTruly == EveryPartTried /\ CutShortIsAborted

\* A started job ends: retries are bounded and no wake-up is lost.
Settles == job.state = "Running" ~> job.state \in Ended
=============================================================================
