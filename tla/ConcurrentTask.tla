--------------------------- MODULE ConcurrentTask ---------------------------
(***************************************************************************)
(* launcher/tasks: Task, ConcurrentTask and SequentialTask, one bag of     *)
(* children on the event loop of the GUI thread.                           *)
(*                                                                         *)
(* `self' is the object's own state, field by field.  `child' is           *)
(* Task::m_state of every child, where the two ways to be State::Failed    *)
(* that ConcurrentTask tells apart (with and without a reason) are two     *)
(* values.  `posted' is what QMetaObject::invokeMethod(QueuedConnection)   *)
(* has put on the event loop: "startNext", or a child whose start() is     *)
(* due.  It is a set: startNext() is idempotent, and no property relies on *)
(* the order of events that have different receivers.                      *)
(*                                                                         *)
(* A child is used by somebody else too when it is in Shared: that is how  *)
(* MinecraftUpdate uses PackProfile::getCurrentTask() and SkinManageDialog *)
(* uses MinecraftAccount::refresh().                                       *)
(***************************************************************************)
EXTENDS Naturals, Sequences, FiniteSets

CONSTANTS Child,          \* the tasks that may be handed in, each once
          Shared,         \* the children another owner may start as well
          Silent,         \* the children that may fail with an empty reason
          MaxConcurrent,  \* m_max_concurrent
          IsSequential    \* TRUE for SequentialTask, its override included

ASSUME MaxConcurrentAssumption == MaxConcurrent \in Nat \ {0}
ASSUME SequentialAssumption == IsSequential \in BOOLEAN /\ (IsSequential => MaxConcurrent = 1)
ASSUME NoStartNextChild == "startNext" \notin Child

VARIABLES self, child, posted
vars == <<self, child, posted>>

Ended == {"Succeeded", "Failed", "AbortedByUser"}
TaskState == {"Inactive", "Running"} \cup Ended
ChildEnded == Ended \cup {"FailedSilently"}
ChildState == {"Inactive", "Running"} \cup ChildEnded

TaskRecord ==
  [state : TaskState, all : Seq(Child), queue : Seq(Child), doing : SUBSET Child,
   succeeded : Nat, failed : Nat, skipped : Nat, fail_reasons : Nat, aborted : BOOLEAN]

TypeOK == /\ self \in TaskRecord
          /\ child \in [Child -> ChildState]
          /\ posted \subseteq Child \cup {"startNext"}

Entries(q) == {q[i] : i \in DOMAIN q}
isFinished(t) == t.state \in Ended
totalSize(t) == Len(t.all)
finishedSize(t) == t.succeeded + t.failed + t.skipped

Init == /\ self = [state |-> "Inactive", all |-> <<>>, queue |-> <<>>, doing |-> {},
                   succeeded |-> 0, failed |-> 0, skipped |-> 0, fail_reasons |-> 0,
                   aborted |-> FALSE]
        /\ child = [c \in Child |-> "Inactive"]
        /\ posted = {}

-----------------------------------------------------------------------------
\* The pieces the handlers are made of; t is the object in mid-handler.

\* Wrong on purpose, as are the definitions below whose names end in Mutant: each
\* is a bug that a property of this module has to notice.
dropQueuedMutant(t) == [t EXCEPT !.queue = <<>>]
dropQueuedSignMutant(t) == [t EXCEPT !.skipped = @ - Len(t.queue), !.queue = <<>>]

dropQueued(t) == [t EXCEPT !.skipped = @ + Len(t.queue), !.queue = <<>>]

finishTask(t) ==
  [t EXCEPT !.state = IF t.aborted THEN "AbortedByUser"
                      ELSE IF t.fail_reasons = 0 THEN "Succeeded" ELSE "Failed"]

\* Positions among the first k of the queue whose child, by cs, is in one of the states S.
Among(t, cs, k, S) == {i \in 1..k : cs[t.queue[i]] \in S}
ToRun(t, cs, k) == Among(t, cs, k, {"Inactive", "Running"})
RanWell(t, cs, k) == Among(t, cs, k, {"Succeeded"})
RanBadly(t, cs, k) == Among(t, cs, k, ChildEnded \ {"Succeeded"})

\* startNext() takes entries off the queue while a slot is free; one that has
\* already finished uses none.
HasSlot(t, cs, k) == Cardinality(t.doing) + Cardinality(ToRun(t, cs, k)) < MaxConcurrent
TakesFirst(t, cs, k) == /\ \A j \in 0..(k - 1) : HasSlot(t, cs, j)
                        /\ k = Len(t.queue) \/ ~HasSlot(t, cs, k)

take(t, cs, k) ==
  [t EXCEPT !.queue = SubSeq(t.queue, k + 1, Len(t.queue)),
            !.doing = @ \cup {t.queue[i] : i \in ToRun(t, cs, k)},
            !.succeeded = @ + Cardinality(RanWell(t, cs, k)),
            !.failed = @ + Cardinality(RanBadly(t, cs, k)),
            !.fail_reasons = @ + Cardinality(RanBadly(t, cs, k))]

finishIfIdleMutant(t) == IF totalSize(t) = t.succeeded + t.failed THEN finishTask(t) ELSE t
finishIfIdle(t) == IF t.queue = <<>> /\ t.doing = {} THEN finishTask(t) ELSE t

\* startNext() of object t with children cs while p is on the event loop.
startNext(t, cs, p) ==
  \/ /\ t.state # "Running"
     /\ self' = t
     /\ posted' = p
  \/ /\ t.state = "Running"
     /\ LET u == IF t.aborted THEN dropQueued(t) ELSE t IN
        \E k \in 0..Len(u.queue) :
          /\ TakesFirst(u, cs, k)
          /\ self' = finishIfIdle(take(u, cs, k))
          /\ posted' = p \cup {u.queue[i] : i \in Among(u, cs, k, {"Inactive"})}

-----------------------------------------------------------------------------
\* The handlers.

addTask(c) ==
  /\ c \notin Entries(self.all)
  /\ ~isFinished(self)
  /\ self' = [self EXCEPT !.all = Append(@, c), !.queue = Append(@, c)]
  /\ posted' = posted \cup (IF self.state = "Running" THEN {"startNext"} ELSE {})
  /\ UNCHANGED child

\* Task::start() and executeTask(); starting again from an end state is allowed.
start ==
  /\ self.state # "Running"
  /\ startNext([self EXCEPT !.state = "Running"], child, posted)
  /\ UNCHANGED child

startNextEvent ==
  /\ "startNext" \in posted
  /\ startNext(self, child, posted \ {"startNext"})
  /\ UNCHANGED child

\* abort(): S are the children whose abort() ends them before it returns.  Each
\* of them comes back through subTaskFailed() with the reason "Aborted.".
abort ==
  \E S \in SUBSET {c \in self.doing : child[c] = "Running"} :
    LET t == dropQueued([self EXCEPT !.aborted = TRUE])
        u == [t EXCEPT !.doing = @ \ S, !.failed = @ + Cardinality(S),
                       !.fail_reasons = @ + Cardinality(S)]
    IN /\ self' = IF u.state = "Running" THEN finishIfIdle(u) ELSE u
       /\ child' = [c \in Child |-> IF c \in S THEN "AbortedByUser" ELSE child[c]]
       /\ UNCHANGED posted

disposeOf(t, c) == [t EXCEPT !.doing = @ \ {c}]

subTaskSucceeded(c) == [disposeOf(self, c) EXCEPT !.succeeded = @ + 1]

subTaskFailedMutant(c, reasons) == [disposeOf(self, c) EXCEPT !.failed = @ + 1]
subTaskFailedKeepsQueueMutant(c, reasons) ==
  [disposeOf(self, c) EXCEPT !.failed = @ + 1, !.fail_reasons = @ + reasons]

subTaskFailed(c, reasons) ==
  LET t == IF IsSequential THEN dropQueued(self) ELSE self
  IN [disposeOf(t, c) EXCEPT !.failed = @ + 1, !.fail_reasons = @ + reasons]

\* Task::start() of a child: from the event loop, or by another owner.
ChildStarts(c) == child' = [child EXCEPT ![c] = "Running"]

startEvent(c) ==
  /\ c \in posted
  /\ ChildStarts(c)
  /\ posted' = posted \ {c}
  /\ UNCHANGED self

StartedByAnother(c) ==
  /\ c \in Shared
  /\ child[c] = "Inactive"
  /\ ChildStarts(c)
  /\ UNCHANGED <<self, posted>>

\* emitSucceeded(), emitFailed() or emitAborted() of a child.  We listen to it
\* from startSubTask() to disposeOf().
ChildEnds(c, outcome) ==
  /\ child[c] = "Running"
  /\ outcome = "FailedSilently" => c \in Silent
  /\ child' = [child EXCEPT ![c] = outcome]
  /\ \/ /\ c \notin self.doing
        /\ UNCHANGED <<self, posted>>
     \/ /\ c \in self.doing
        /\ outcome = "Succeeded"
        /\ startNext(subTaskSucceeded(c), child', posted)
     \/ /\ c \in self.doing
        /\ outcome # "Succeeded"
        /\ startNext(subTaskFailed(c, IF outcome = "FailedSilently" THEN 0 ELSE 1),
                     child', posted)

Next == \/ start
        \/ startNextEvent
        \/ abort
        \/ \E c \in Child : \/ addTask(c)
                            \/ startEvent(c)
                            \/ StartedByAnother(c)
                            \/ \E outcome \in ChildEnded : ChildEnds(c, outcome)

Spec == Init /\ [][Next]_vars

\* The event loop turns and every running child ends one way or another.
Fairness == /\ WF_vars(startNextEvent)
            /\ \A c \in Child : WF_vars(startEvent(c))
            /\ \A c \in Child : WF_vars(\E outcome \in ChildEnded : ChildEnds(c, outcome))
FairSpec == Spec /\ Fairness
-----------------------------------------------------------------------------
(* Properties. *)

\* Every child handed in is in exactly one place: queued, running in one of at
\* most MaxConcurrent slots, or counted once as succeeded, failed or skipped;
\* and nothing is left queued or running once the task has ended
\* (ConcurrentTask.cpp:73-108, 204-235, 297-320).
NoneTwice(t) == /\ \A i, j \in DOMAIN t.queue : t.queue[i] = t.queue[j] => i = j
                /\ t.doing \cap Entries(t.queue) = {}
                /\ t.doing \cup Entries(t.queue) \subseteq Entries(t.all)
Conserved(t) == totalSize(t) = finishedSize(t) + Cardinality(t.doing) + Len(t.queue)
IdleUnlessRunning(t) == /\ isFinished(t) => t.queue = <<>>
                        /\ t.state # "Running" => t.doing = {}
Accounted(t) == /\ NoneTwice(t)
                /\ Conserved(t)
                /\ Cardinality(t.doing) <= MaxConcurrent
Accounting == Accounted(self) /\ IdleUnlessRunning(self)

\* A success means that every child handed in ran and succeeded: none was dropped, and
\* "the whole task fails once everything has settled" if one failed
\* (ConcurrentTask.h:41-42).  It does not when the child gives no reason for its failure
\* (ConcurrentTask.cpp:230).
SuccessMeansAllRan == self.state = "Succeeded" => self.succeeded = totalSize(self)

\* A step that a sequence starts is the next one of those handed in, comes when none of
\* the others runs ("a refresh that overlaps the upload can report the old skin back",
\* SkinManageDialog.cpp:588-590), and after none has failed ("there is nothing left worth
\* running", SequentialTask.cpp:44-45).
StepsInOrder ==
  [][IsSequential => \A c \in self'.doing \ self.doing :
       /\ c = self'.all[totalSize(self') - Len(self'.queue)]
       /\ \A d \in Entries(self'.all) \ {c} : child'[d] # "Running"
       /\ self'.failed = 0]_vars

\* It keeps the promises of TaskBag: one end per run, as aborted exactly when it was, not
\* before the last child is accounted for, and not never, as long as its children end.
Bag == INSTANCE TaskBag WITH state <- self.state,
                             open <- totalSize(self) - finishedSize(self),
                             aborted <- self.aborted
ImplementsBag == Bag!FairSpec
=============================================================================
