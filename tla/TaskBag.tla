------------------------------- MODULE TaskBag -------------------------------
(***************************************************************************)
(* What a ConcurrentTask or SequentialTask promises to whoever runs it, in *)
(* the words of tasks/Task.h and tasks/ConcurrentTask.h: it takes children *)
(* until it has ended, it keeps running exactly as long as one of them is  *)
(* unaccounted for, it ends once per start, and it ends as aborted exactly *)
(* when an abort was asked for.  How the children run is not its business. *)
(***************************************************************************)
EXTENDS Naturals

VARIABLES state,    \* Task::m_state
          open,     \* children handed in and not yet accounted for
          aborted   \* an abort was asked for
vars == <<state, open, aborted>>

Ended == {"Succeeded", "Failed", "AbortedByUser"}

Init == state = "Inactive" /\ open = 0 /\ aborted = FALSE

HandIn == /\ state \notin Ended
          /\ open' = open + 1
          /\ UNCHANGED <<state, aborted>>

AbortsStick == aborted' \in {aborted, TRUE}

\* Children get accounted for, or an abort is noted, and the bag goes on.
Account == /\ open' \in 0..open
           /\ state = "Running" => open' > 0
           /\ AbortsStick
           /\ UNCHANGED state

Begin == /\ state # "Running"
         /\ state' = "Running"
         /\ open' \in 1..open
         /\ AbortsStick

\* The last child is accounted for; a start may go all the way here at once.
Finish == /\ open' = 0
          /\ AbortsStick
          /\ state' \in Ended
          /\ state' = "AbortedByUser" <=> aborted'

Next == HandIn \/ Account \/ Begin \/ Finish
Spec == Init /\ [][Next]_vars
RunsToTheEnd == WF_vars(state = "Running" /\ Finish)
FairSpec == Spec /\ RunsToTheEnd
=============================================================================
