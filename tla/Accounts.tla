------------------------------ MODULE Accounts ------------------------------
(***************************************************************************)
(* launcher/minecraft/auth: the AccountList with its queue of accounts to  *)
(* refresh, the MinecraftAccounts in it, and whoever else uses the task by *)
(* which an account is refreshed: the login before a launch and the dialog *)
(* for skins.                                                              *)
(*                                                                         *)
(* An element of Account is a MinecraftAccount object and at the same time *)
(* its internal id, which nothing but that object ever has; a profile that *)
(* is logged into again gets another one.  All accounts are Microsoft's:   *)
(* offline ones have nothing to refresh.                                   *)
(***************************************************************************)
EXTENDS Integers, SequencesExt

CONSTANTS Account, NoAccount,
          MaxRequests,        \* refreshes that the user asks for (bound)
          MaxUses             \* running games of one account (bound)

ASSUME AccountsAssumption ==
  /\ NoAccount \notin Account /\ IsFiniteSet(Account)
  /\ MaxRequests \in Nat /\ MaxUses \in Nat

VARIABLES accounts,      \* m_accounts
          default,       \* m_defaultAccount
          queue,         \* m_refreshQueue
          current,       \* m_currentTask of the list: the account it belongs to
          nextTimer,     \* m_nextTimer is armed
          refreshTimer,  \* m_refreshTimer is armed
          activity,      \* m_activityCount
          task,          \* m_currentTask of each account: none, made or running
          watched,       \* the accounts whose task is connected to the list
          validity,      \* what shouldRefresh() reads off an account's tokens
          tokens,        \* the accounts that have a refresh token
          uses,          \* Usable::m_useCount of each account
          spare,         \* accounts that do not exist yet
          requests       \* refreshes asked for so far
schedule == <<queue, current, nextTimer, refreshTimer>>
vars == <<accounts, default, schedule, activity, task, watched, validity, tokens, uses, spare,
          requests>>

TypeOK == /\ accounts \in Seq(Account)
          /\ default \in Account \cup {NoAccount}
          /\ queue \in Seq(Account)
          /\ current \in Account \cup {NoAccount}
          /\ nextTimer \in BOOLEAN /\ refreshTimer \in BOOLEAN
          /\ activity \in Nat
          /\ task \in [Account -> {"none", "made", "running"}]
          /\ watched \in SUBSET Account
          /\ validity \in [Account -> {"due", "fresh", "broken"}]
          /\ tokens \in SUBSET Account
          /\ uses \in [Account -> 0..MaxUses]
          /\ spare \in SUBSET Account
          /\ requests \in 0..MaxRequests

Listed == ToSet(accounts)
Busy == {a \in Listed : task[a] # "none"}

\* The list has been loaded; Application calls fillQueue(), which is what the armed
\* timer stands for.  An account whose refresh was refused before has no refresh token in
\* the file either, but is due like the others.
Init == /\ \E n \in 0..Cardinality(Account) :
             /\ accounts \in [1..n -> Account]
             /\ IsInjective(accounts)
        /\ default \in Listed \cup {NoAccount}
        /\ queue = <<>>
        /\ current = NoAccount
        /\ nextTimer = FALSE /\ refreshTimer = TRUE
        /\ activity = 0
        /\ task = [a \in Account |-> "none"]
        /\ watched = {}
        /\ validity = [a \in Account |-> "due"]
        /\ tokens \in SUBSET Listed
        /\ uses = [a \in Account |-> 0]
        /\ spare = Account \ Listed
        /\ requests = 0

-----------------------------------------------------------------------------
(* MinecraftAccount. *)

isInUse(a) == uses[a] > 0

shouldRefresh(a) == ~isInUse(a) /\ validity[a] = "due"

\* Wrong on purpose, as are the definitions below whose names end in Mutant: each is a
\* bug that a property of this module has to notice.
refreshMutant(a, state) ==
  /\ task' = [task EXCEPT ![a] = IF @ = "running" THEN @ ELSE state]
  /\ activity' = IF a \in Listed \ Busy /\ state = "running" THEN activity + 1 ELSE activity

\* refresh() of a, and start() of the task if it is to be started: a task that is there
\* is shared, and one that is made anew tells the list that the account is active.
refresh(a, state) ==
  /\ task' = [task EXCEPT ![a] = IF @ = "running" THEN @ ELSE state]
  /\ activity' = IF a \in Listed \ Busy THEN activity + 1 ELSE activity

\* What the tokens are after a task has ended as r.
Outcome(a, r) == CASE r = "succeeded" -> "fresh"
                   [] r = "soft" -> validity[a]
                   [] r \in {"hard", "gone"} -> "broken"

-----------------------------------------------------------------------------
(* The queue. *)

queueRefresh(q, a) == IF Contains(q, a) THEN q ELSE Append(q, a)

tryNextMutant(q, armed) ==
  \/ \E i \in DOMAIN q :
       /\ q[i] \in Listed
       /\ \A j \in 1..(i - 1) : q[j] \notin Listed
       /\ queue' = SubSeq(q, i + 1, Len(q))
       /\ current' = q[i]
       /\ watched' = watched \cup {q[i]}
       /\ refresh(q[i], "running")
       /\ refreshTimer' = armed
  \/ /\ ToSet(q) \cap Listed = {}
     /\ queue' = <<>>
     /\ refreshTimer' = armed
     /\ UNCHANGED <<current, watched, task, activity>>

\* tryNext() on the queue q: the first account in it that is still there is refreshed,
\* and what comes before it is forgotten.
tryNext(q, armed) ==
  \/ \E i \in DOMAIN q :
       /\ q[i] \in Listed
       /\ \A j \in 1..(i - 1) : q[j] \notin Listed
       /\ queue' = SubSeq(q, i + 1, Len(q))
       /\ current' = q[i]
       /\ watched' = watched \cup {q[i]}
       /\ refresh(q[i], "running")
       /\ refreshTimer' = armed
  \/ /\ ToSet(q) \cap Listed = {}
     /\ queue' = <<>>
     /\ refreshTimer' = TRUE
     /\ UNCHANGED <<current, watched, task, activity>>

\* The queue after the loops of fillQueue(): the default account is put in first,
\* whether it is there or not.
Filled ==
  LET q == IF default # NoAccount /\ shouldRefresh(default)
           THEN Append(queue, default) ELSE queue
      added[i \in 0..Len(accounts)] ==
        IF i = 0 THEN q
        ELSE IF accounts[i] # default /\ shouldRefresh(accounts[i])
        THEN queueRefresh(added[i - 1], accounts[i]) ELSE added[i - 1]
  IN added[Len(accounts)]

\* m_refreshTimer has run out.
fillQueue ==
  /\ refreshTimer
  /\ tryNext(Filled, FALSE)
  /\ UNCHANGED <<accounts, default, nextTimer, validity, tokens, uses, spare, requests>>

\* m_nextTimer has run out.
nextTimeout ==
  /\ nextTimer
  /\ nextTimer' = FALSE
  /\ tryNext(queue, refreshTimer)
  /\ UNCHANGED <<accounts, default, validity, tokens, uses, spare, requests>>

PutFirst(a) == <<a>> \o RemoveFirst(queue, a)

\* The button of the page of accounts, which is off while the account is active.
requestRefresh(a) ==
  /\ requests < MaxRequests
  /\ a \in Listed /\ task[a] = "none"
  /\ requests' = requests + 1
  /\ IF activity = 0
     THEN tryNext(PutFirst(a), refreshTimer)
     ELSE /\ queue' = PutFirst(a)
          /\ UNCHANGED <<current, refreshTimer, activity, task, watched>>
  /\ UNCHANGED <<accounts, default, nextTimer, validity, tokens, uses, spare>>

authEndedMutant(a) ==
  /\ watched' = watched \ {a}
  /\ current' = IF a \in watched THEN NoAccount ELSE current
  /\ nextTimer' = (nextTimer \/ (a \in watched /\ a \in Listed))

\* authSucceeded() and authFailed() of the list: they do not look whose task has ended.
authEnded(a) ==
  /\ watched' = watched \ {a}
  /\ current' = IF a \in watched THEN NoAccount ELSE current
  /\ nextTimer' = (nextTimer \/ a \in watched)

\* The task of a ends: the slots of the account, then those of the list.  Without a
\* refresh token nothing is asked of the server, and the task never ends.
TaskEnds(a, r) ==
  /\ task[a] = "running" /\ a \in tokens
  /\ task' = [task EXCEPT ![a] = "none"]
  /\ validity' = [validity EXCEPT ![a] = Outcome(a, r)]
  /\ tokens' = IF r = "hard" THEN tokens \ {a} ELSE tokens
  /\ activity' = IF a \in Listed /\ activity > 0 THEN activity - 1 ELSE activity
  /\ authEnded(a)
  /\ UNCHANGED <<accounts, default, queue, refreshTimer, uses, spare, requests>>

-----------------------------------------------------------------------------
(* The list. *)

\* addAccount() of an account that has just been logged into, b, with the profile of a:
\* b takes the place of a.  Without an owner a is deleted, and its task with it unless
\* the list (or another owner) still holds that.
replaceAccount(a, b) ==
  /\ a \in Listed /\ b \in spare
  /\ accounts' = [i \in DOMAIN accounts |-> IF accounts[i] = a THEN b ELSE accounts[i]]
  /\ default' = IF default = a THEN b ELSE default
  /\ spare' = spare \ {b}
  /\ validity' = [validity EXCEPT ![b] = "fresh"]
  /\ tokens' = tokens \cup {b}
  /\ \/ UNCHANGED <<task, watched>>
     \/ /\ current # a
        /\ task' = [task EXCEPT ![a] = "none"]
        /\ watched' = watched \ {a}
  /\ UNCHANGED <<schedule, activity, uses, requests>>

\* addAccount() of an account with a profile of its own.
addAccount(b) ==
  /\ b \in spare
  /\ accounts' = Append(accounts, b)
  /\ spare' = spare \ {b}
  /\ validity' = [validity EXCEPT ![b] = "fresh"]
  /\ tokens' = tokens \cup {b}
  /\ UNCHANGED <<default, schedule, activity, task, watched, uses, requests>>

\* The button is off while the account is active.
removeAccount(row) ==
  /\ task[accounts[row]] = "none"
  /\ accounts' = RemoveAt(accounts, row)
  /\ default' = IF default = accounts[row] THEN NoAccount ELSE default
  /\ UNCHANGED <<schedule, activity, task, watched, validity, tokens, uses, spare, requests>>

setDefaultAccount(d) ==
  /\ d \in Listed \cup {NoAccount}
  /\ d # default
  /\ default' = d
  /\ UNCHANGED <<accounts, schedule, activity, task, watched, validity, tokens, uses, spare,
                 requests>>

-----------------------------------------------------------------------------
(* The other users of an account. *)

\* The dialog for skins puts the account's refresh at the end of a sequence ...
skinJob(a) ==
  /\ a \in Listed /\ task[a] = "none"
  /\ refresh(a, "made")
  /\ UNCHANGED <<accounts, default, schedule, watched, validity, tokens, uses, spare, requests>>

\* ... which starts it, or fails before and leaves it.
skinRefresh(a) ==
  /\ task[a] = "made"
  /\ task' = [task EXCEPT ![a] = "running"]
  /\ UNCHANGED <<accounts, default, schedule, activity, watched, validity, tokens, uses, spare,
                 requests>>

\* LaunchController::login() with an account that has not been checked yet, or whose
\* last refresh has failed softly.
login(a) ==
  /\ a \in Listed /\ validity[a] # "broken" /\ task[a] # "running"
  /\ refresh(a, "running")
  /\ UNCHANGED <<accounts, default, schedule, watched, validity, tokens, uses, spare, requests>>

\* ClaimAccount of a launch, some steps after its login: by then anything may have
\* happened to the account.
claim(a) ==
  /\ a \in Account \ spare /\ uses[a] < MaxUses
  /\ uses' = [uses EXCEPT ![a] = @ + 1]
  /\ UNCHANGED <<accounts, default, schedule, activity, task, watched, validity, tokens, spare,
                 requests>>

releaseMutant(a) ==
  /\ a \in Account \ spare
  /\ uses' = [uses EXCEPT ![a] = @ - 1]
  /\ UNCHANGED <<accounts, default, schedule, activity, task, watched, validity, tokens, spare,
                 requests>>

\* ClaimAccount::finalize(), when the launch ends: without a lock it does nothing.
release(a) ==
  /\ isInUse(a)
  /\ uses' = [uses EXCEPT ![a] = @ - 1]
  /\ UNCHANGED <<accounts, default, schedule, activity, task, watched, validity, tokens, spare,
                 requests>>

\* A token comes within twelve hours of its end.
ages(a) ==
  /\ validity[a] = "fresh"
  /\ validity' = [validity EXCEPT ![a] = "due"]
  /\ UNCHANGED <<accounts, default, schedule, activity, task, watched, tokens, uses, spare,
                 requests>>

TaskEnded(a) == \E r \in {"succeeded", "soft", "hard", "gone"} : TaskEnds(a, r)

Next == \/ fillQueue
        \/ nextTimeout
        \/ \E a \in Account : \/ requestRefresh(a)
                              \/ TaskEnded(a)
                              \/ addAccount(a)
                              \/ skinJob(a)
                              \/ skinRefresh(a)
                              \/ login(a)
                              \/ claim(a)
                              \/ release(a)
                              \/ ages(a)
                              \/ \E b \in Account : replaceAccount(a, b)
        \/ \E row \in DOMAIN accounts : removeAccount(row)
        \/ \E d \in Account \cup {NoAccount} : setDefaultAccount(d)

Spec == Init /\ [][Next]_vars

\* Timers fire.  Nothing is assumed of the tasks: the first request of a refresh, that for
\* a new token (MSAStep.cpp:82-90), has no time limit.
Fairness == WF_vars(fillQueue) /\ WF_vars(nextTimeout)
FairSpec == Spec /\ Fairness

-----------------------------------------------------------------------------
(* Properties. *)

\* The schedule of background refreshes never stops: there is always a timer that is
\* armed, or a running task whose end arms one (AccountList.cpp:701-744), whatever is
\* removed, replaced or refreshed by others meanwhile.
Alive == nextTimer \/ refreshTimer \/ \E a \in watched : task[a] = "running"
ScheduleAlive ==
  Alive /\ (current # NoAccount => current \in watched /\ task[current] = "running")

\* The count of active accounts is never less than there are in the list, so a refresh
\* that the user asks for is begun at once only when none of them is active
\* (AccountList.cpp:266-286, 686, 746-771).  The timers do not look at the count.
ActivityCovers == activity >= Cardinality(Busy)

\* An account in the queue gets its refresh, watched by the list, unless it leaves the
\* list or a refresh that the list waits for never ends (AccountList.cpp:653-729): also
\* when the request came while others were active, and however long the refreshes of
\* other owners take.
Served(a) == a \in watched /\ task[a] = "running"
QueuedIsServed ==
  \A a \in Account :
    [](Contains(queue, a) /\ a \in Listed =>
         <>(Served(a) \/ a \notin Listed \/ \E b \in Account : []Served(b)))

\* "Never refresh accounts that are being used by the game, it breaks the game session"
\* (MinecraftAccount.cpp:167): the list begins no refresh of such an account.
Begins(a) == a \in watched' \ watched /\ task[a] # "running"
GamesAreSpared == [][\A a \in Account : Begins(a) => ~isInUse(a)]_vars
=============================================================================
