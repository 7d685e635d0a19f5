--------------------------- MODULE Accounts_proofs ---------------------------
(***************************************************************************)
(* Proofs about Accounts: for any number of accounts, however they are     *)
(* added, replaced, removed, refreshed by others and used, the schedule of *)
(* refreshes goes on, the count of active accounts is high enough, the     *)
(* state stays within its type, and no request is forgotten.               *)
(***************************************************************************)
EXTENDS Accounts, SequenceTheorems, FiniteSetTheorems, WellFoundedInduction, TLAPS

\* What the proofs need of the types; what is queued plays no part, as tryNext() only
\* takes accounts that are in the list.
Typed == /\ accounts \in Seq(Account)
         /\ current \in Account \cup {NoAccount}
         /\ activity \in Nat
         /\ task \in [Account -> {"none", "made", "running"}]
         /\ watched \subseteq Account
         /\ spare \subseteq Account

\* An account that does not exist yet is not in the list and has no task.
Apart == /\ Listed \cap spare = {}
         /\ \A b \in spare : task[b] = "none"

\* ScheduleAlive, with the list's own task as the one that goes on.
OnSchedule == /\ nextTimer \/ refreshTimer \/ current # NoAccount
              /\ current # NoAccount => current \in watched /\ task[current] = "running"

IInv == Typed /\ Apart /\ OnSchedule /\ ActivityCovers

-----------------------------------------------------------------------------
(* The list. *)

LEMMA ListedAreAccounts ==
  ASSUME NEW s \in Seq(Account)
  PROVE  ToSet(s) \subseteq Account
BY DEF ToSet

LEMMA Appended ==
  ASSUME NEW s \in Seq(Account), NEW b \in Account
  PROVE  Append(s, b) \in Seq(Account) /\ ToSet(Append(s, b)) \subseteq ToSet(s) \cup {b}
BY DEF ToSet

LEMMA Removed ==
  ASSUME NEW s \in Seq(Account), NEW row \in DOMAIN s
  PROVE  RemoveAt(s, row) \in Seq(Account) /\ ToSet(RemoveAt(s, row)) \subseteq ToSet(s)
<1> DEFINE front == SubSeq(s, 1, row - 1)
           back == SubSeq(s, row + 1, Len(s))
           T == ToSet(s)
<1>1. row \in Int /\ Len(s) \in Nat /\ \A i \in 1..Len(s) : s[i] \in T
  BY DEF ToSet
<1>2. front \in Seq(T)
  <2>1. \A i \in 1..(row - 1) : s[i] \in T
    BY <1>1
  <2> QED
    BY <2>1, <1>1, SubSeqProperties
<1>3. back \in Seq(T)
  <2>1. \A i \in (row + 1)..Len(s) : s[i] \in T
    BY <1>1
  <2> QED
    BY <2>1, <1>1, SubSeqProperties
<1>4. front \o back \in Seq(T)
  BY <1>2, <1>3, ConcatProperties
<1>5. RemoveAt(s, row) = front \o back
  BY DEF RemoveAt
<1>6. T \subseteq Account
  BY ListedAreAccounts
<1>7. \A u \in Seq(T) : u \in Seq(Account) /\ ToSet(u) \subseteq T
  BY <1>6 DEF ToSet
<1> QED
  BY <1>4, <1>5, <1>7

LEMMA Replaced ==
  ASSUME NEW s \in Seq(Account), NEW a, NEW b \in Account
  PROVE  LET t == [i \in DOMAIN s |-> IF s[i] = a THEN b ELSE s[i]]
         IN t \in Seq(Account) /\ ToSet(t) \subseteq (ToSet(s) \ {a}) \cup {b}
BY DEF ToSet

-----------------------------------------------------------------------------
(* The count of active accounts. *)

LEMMA BusyIsFinite ==
  ASSUME Typed
  PROVE  IsFiniteSet(Busy) /\ Cardinality(Busy) \in Nat
<1>1. Busy \in SUBSET Account
  BY ListedAreAccounts DEF Busy, Listed, Typed
<1>2. IsFiniteSet(Account)
  BY AccountsAssumption
<1> QED
  BY <1>1, <1>2, FS_Subset, FS_CardinalityType

LEMMA FewerBusy ==
  ASSUME Typed, ActivityCovers, Busy' \subseteq Busy, activity' = activity
  PROVE  ActivityCovers'
<1>1. IsFiniteSet(Busy) /\ Cardinality(Busy) \in Nat
  BY BusyIsFinite
<1>2. IsFiniteSet(Busy') /\ Cardinality(Busy') <= Cardinality(Busy)
  BY <1>1, FS_Subset
<1>3. Cardinality(Busy') \in Nat
  BY <1>2, FS_CardinalityType
<1>4. activity \in Nat /\ activity >= Cardinality(Busy)
  BY DEF Typed, ActivityCovers
<1>5. activity' >= Cardinality(Busy')
  BY <1>1, <1>2, <1>3, <1>4
<1> QED
  BY <1>5 DEF ActivityCovers

\* A refresh counts the account that becomes active by it.
LEMMA Refreshed ==
  ASSUME Typed, Apart, ActivityCovers, NEW a \in Listed,
         NEW state \in {"made", "running"}, refresh(a, state), UNCHANGED accounts
  PROVE  /\ task' \in [Account -> {"none", "made", "running"}]
         /\ activity' \in Nat
         /\ task'[a] # "none" /\ (state = "running" => task'[a] = "running")
         /\ \A c \in Account : task[c] = "running" => task'[c] = "running"
         /\ \A b \in spare : task'[b] = "none"
         /\ ActivityCovers'
<1>1. a \in Account /\ a \notin spare /\ Listed' = Listed
  BY ListedAreAccounts DEF Typed, Apart, Listed
<1>2. /\ task' = [task EXCEPT ![a] = IF @ = "running" THEN @ ELSE state]
      /\ activity' = IF a \in Listed \ Busy THEN activity + 1 ELSE activity
  BY DEF refresh
<1>3. /\ task' \in [Account -> {"none", "made", "running"}]
      /\ task'[a] # "none" /\ (state = "running" => task'[a] = "running")
      /\ \A c \in Account : c # a => task'[c] = task[c]
      /\ task[a] = "running" => task'[a] = "running"
  BY <1>1, <1>2 DEF Typed
<1>4. activity \in Nat /\ activity' \in Nat
  BY <1>2 DEF Typed
<1>5. \A b \in spare : task'[b] = "none"
  BY <1>1, <1>3 DEF Apart, Typed
<1>6. Busy' = Busy \cup {a}
  BY <1>1, <1>3, ListedAreAccounts DEF Busy, Listed, Typed
<1>7. ActivityCovers'
  <2>1. IsFiniteSet(Busy) /\ Cardinality(Busy) \in Nat
    BY BusyIsFinite
  <2>2. Cardinality(Busy') = IF a \in Busy THEN Cardinality(Busy) ELSE Cardinality(Busy) + 1
    BY <2>1, <1>6, FS_AddElement
  <2>3. activity >= Cardinality(Busy)
    BY DEF ActivityCovers
  <2>4. activity' >= Cardinality(Busy')
    BY <2>1, <2>2, <2>3, <1>2, <1>4
  <2> QED
    BY <2>4 DEF ActivityCovers
<1> QED
  BY <1>3, <1>4, <1>5, <1>7
-----------------------------------------------------------------------------
(* One lemma per action, or kind of action. *)

\* What the other users of an account leave alone.
LEMMA OthersStep ==
  ASSUME IInv,
         UNCHANGED <<accounts, current, nextTimer, refreshTimer, watched, spare, activity, task>>
  PROVE  IInv'
<1>1. Typed' /\ Apart' /\ OnSchedule'
  BY DEF IInv, Typed, Apart, OnSchedule, Listed
<1>2. Busy' = Busy
  BY DEF Busy, Listed
<1> QED
  BY <1>1, <1>2, FewerBusy DEF IInv

LEMMA TryNextStep ==
  ASSUME IInv, NEW q, NEW armed, tryNext(q, armed), UNCHANGED <<accounts, spare>>
  PROVE  IInv'
<1>1. CASE \E i \in DOMAIN q :
             /\ q[i] \in Listed
             /\ current' = q[i]
             /\ watched' = watched \cup {q[i]}
             /\ refresh(q[i], "running")
  <2>1. PICK i \in DOMAIN q : /\ q[i] \in Listed
                             /\ current' = q[i]
                             /\ watched' = watched \cup {q[i]}
                             /\ refresh(q[i], "running")
    BY <1>1
  <2> DEFINE a == q[i]
  <2>2. a \in Listed /\ a \in Account /\ a # NoAccount
    BY <2>1, ListedAreAccounts, AccountsAssumption DEF IInv, Typed, Listed
  <2>3. /\ task' \in [Account -> {"none", "made", "running"}]
        /\ activity' \in Nat
        /\ task'[a] = "running"
        /\ \A b \in spare : task'[b] = "none"
        /\ ActivityCovers'
    <3> HIDE DEF a
    <3>1. refresh(a, "running")
      BY <2>1 DEF a
    <3> QED
      BY <3>1, <2>2, Refreshed DEF IInv
  <2>4. Typed'
    BY <2>1, <2>2, <2>3 DEF IInv, Typed
  <2>5. Apart'
    BY <2>3 DEF IInv, Apart, Listed
  <2>6. OnSchedule'
    BY <2>1, <2>2, <2>3 DEF OnSchedule
  <2> QED
    BY <2>3, <2>4, <2>5, <2>6 DEF IInv
<1>2. CASE refreshTimer' = TRUE /\ UNCHANGED <<current, watched, task, activity>>
  <2>1. Typed' /\ Apart' /\ OnSchedule'
    BY <1>2 DEF IInv, Typed, Apart, OnSchedule, Listed
  <2>2. Busy' = Busy
    BY <1>2 DEF Busy, Listed
  <2> QED
    BY <1>2, <2>1, <2>2, FewerBusy DEF IInv
<1> QED
  BY <1>1, <1>2 DEF tryNext

\* A task that another one makes or starts.
LEMMA RefreshStep ==
  ASSUME IInv, NEW a \in Listed, NEW state \in {"made", "running"}, refresh(a, state),
         UNCHANGED <<accounts, current, nextTimer, refreshTimer, watched, spare>>
  PROVE  IInv'
<1>1. /\ task' \in [Account -> {"none", "made", "running"}]
      /\ activity' \in Nat
      /\ \A c \in Account : task[c] = "running" => task'[c] = "running"
      /\ \A b \in spare : task'[b] = "none"
      /\ ActivityCovers'
  BY Refreshed DEF IInv
<1>2. Typed' /\ Apart'
  BY <1>1 DEF IInv, Typed, Apart, Listed
<1>3. OnSchedule'
  BY <1>1 DEF IInv, Typed, OnSchedule
<1> QED
  BY <1>1, <1>2, <1>3 DEF IInv

LEMMA TaskEndsStep ==
  ASSUME IInv, NEW a \in Account, NEW r, TaskEnds(a, r)
  PROVE  IInv'
<1>1. /\ task[a] = "running"
      /\ task' = [task EXCEPT ![a] = "none"]
      /\ activity' = IF a \in Listed /\ activity > 0 THEN activity - 1 ELSE activity
      /\ UNCHANGED <<accounts, refreshTimer, spare>>
  BY DEF TaskEnds
<1>2. /\ watched' = watched \ {a}
      /\ current' = IF a \in watched THEN NoAccount ELSE current
      /\ nextTimer' = (nextTimer \/ a \in watched)
  BY DEF TaskEnds, authEnded
<1>3. Typed'
  BY <1>1, <1>2 DEF IInv, Typed
<1>4. Apart'
  BY <1>1 DEF IInv, Typed, Apart, Listed
<1>5. OnSchedule'
  <2>1. CASE a \in watched
    BY <1>1, <1>2, <2>1 DEF OnSchedule
  <2>2. CASE a \notin watched
    BY <1>1, <1>2, <2>2 DEF IInv, Typed, OnSchedule
  <2> QED
    BY <2>1, <2>2
<1>6. ActivityCovers'
  <2>1. Busy' = Busy \ {a}
    BY <1>1, ListedAreAccounts DEF IInv, Typed, Busy, Listed
  <2>2. CASE a \notin Listed
    <3>1. activity' = activity
      BY <1>1, <2>2
    <3> QED
      BY <2>1, <3>1, FewerBusy DEF IInv
  <2>3. CASE a \in Listed
    <3>1. a \in Busy
      BY <1>1, <2>3 DEF Busy
    <3>2. IsFiniteSet(Busy) /\ Cardinality(Busy) \in Nat /\ Cardinality(Busy) # 0
      BY <3>1, BusyIsFinite, FS_EmptySet DEF IInv
    <3>3. Cardinality(Busy') = Cardinality(Busy) - 1
      BY <2>1, <3>1, <3>2, FS_RemoveElement
    <3>4. activity \in Nat /\ activity >= Cardinality(Busy)
      BY DEF IInv, Typed, ActivityCovers
    <3>5. activity' = activity - 1
      BY <1>1, <2>3, <3>2, <3>4
    <3>6. activity' >= Cardinality(Busy')
      BY <3>2, <3>3, <3>4, <3>5
    <3> QED
      BY <3>6 DEF ActivityCovers
  <2> QED
    BY <2>2, <2>3
<1> QED
  BY <1>3, <1>4, <1>5, <1>6 DEF IInv

LEMMA ReplaceStep ==
  ASSUME IInv, NEW a \in Account, NEW b \in Account, replaceAccount(a, b)
  PROVE  IInv'
<1>1. /\ a \in Listed /\ b \in spare
      /\ accounts' = [i \in DOMAIN accounts |-> IF accounts[i] = a THEN b ELSE accounts[i]]
      /\ spare' = spare \ {b}
      /\ UNCHANGED <<current, nextTimer, refreshTimer, activity>>
      /\ \/ UNCHANGED <<task, watched>>
         \/ /\ current # a
            /\ task' = [task EXCEPT ![a] = "none"]
            /\ watched' = watched \ {a}
  BY DEF replaceAccount, schedule
<1>2. accounts' \in Seq(Account) /\ Listed' \subseteq (Listed \ {a}) \cup {b}
  <2>1. accounts \in Seq(Account)
    BY DEF IInv, Typed
  <2>2. accounts' = [i \in DOMAIN accounts |-> IF accounts[i] = a THEN b ELSE accounts[i]]
    BY <1>1
  <2>3. /\ accounts' \in Seq(Account)
        /\ ToSet(accounts') \subseteq (ToSet(accounts) \ {a}) \cup {b}
    BY <2>1, <2>2, Replaced
  <2> QED
    BY <2>3 DEF Listed
<1>3. /\ task' \in [Account -> {"none", "made", "running"}]
      /\ \A c \in Account : task'[c] = task[c] \/ (task'[c] = "none" /\ c # current)
  BY <1>1 DEF IInv, Typed
<1>4. Typed'
  BY <1>1, <1>2, <1>3 DEF IInv, Typed
<1>5. Apart'
  BY <1>1, <1>2, <1>3 DEF IInv, Typed, Apart
<1>6. OnSchedule'
  BY <1>1, <1>3 DEF IInv, Typed, OnSchedule
<1>7. Busy' \subseteq Busy
  <2>1. task[b] = "none"
    BY <1>1 DEF IInv, Apart
  <2>2. Listed \subseteq Account
    BY ListedAreAccounts DEF IInv, Typed, Listed
  <2> QED
    BY <1>2, <1>3, <2>1, <2>2 DEF Busy
<1> QED
  BY <1>1, <1>4, <1>5, <1>6, <1>7, FewerBusy DEF IInv

LEMMA AddStep ==
  ASSUME IInv, NEW b \in Account, addAccount(b)
  PROVE  IInv'
<1>1. /\ b \in spare
      /\ accounts' = Append(accounts, b)
      /\ spare' = spare \ {b}
      /\ UNCHANGED <<current, nextTimer, refreshTimer, activity, task, watched>>
  BY DEF addAccount, schedule
<1>2. accounts' \in Seq(Account) /\ Listed' \subseteq Listed \cup {b}
  BY <1>1, Appended DEF IInv, Typed, Listed
<1>3. Typed' /\ Apart' /\ OnSchedule'
  BY <1>1, <1>2 DEF IInv, Typed, Apart, OnSchedule
<1>4. Busy' \subseteq Busy
  BY <1>1, <1>2 DEF IInv, Apart, Busy
<1> QED
  BY <1>1, <1>3, <1>4, FewerBusy DEF IInv

LEMMA RemoveStep ==
  ASSUME IInv, NEW row \in DOMAIN accounts, removeAccount(row)
  PROVE  IInv'
<1>1. /\ accounts' = RemoveAt(accounts, row)
      /\ UNCHANGED <<current, nextTimer, refreshTimer, activity, task, watched, spare>>
  BY DEF removeAccount, schedule
<1>2. accounts' \in Seq(Account) /\ Listed' \subseteq Listed
  BY <1>1, Removed DEF IInv, Typed, Listed
<1>3. Typed' /\ Apart' /\ OnSchedule'
  BY <1>1, <1>2 DEF IInv, Typed, Apart, OnSchedule
<1>4. Busy' \subseteq Busy
  BY <1>1, <1>2 DEF Busy
<1> QED
  BY <1>1, <1>3, <1>4, FewerBusy DEF IInv

LEMMA SkinRefreshStep ==
  ASSUME IInv, NEW a \in Account, skinRefresh(a)
  PROVE  IInv'
<1>1. /\ task[a] = "made"
      /\ task' = [task EXCEPT ![a] = "running"]
      /\ UNCHANGED <<accounts, current, nextTimer, refreshTimer, activity, watched, spare>>
  BY DEF skinRefresh, schedule
<1>2. Typed' /\ Apart'
  BY <1>1 DEF IInv, Typed, Apart, Listed
<1>3. OnSchedule'
  BY <1>1 DEF IInv, Typed, OnSchedule
<1>4. Busy' \subseteq Busy
  BY <1>1, ListedAreAccounts DEF IInv, Typed, Busy, Listed
<1> QED
  BY <1>1, <1>2, <1>3, <1>4, FewerBusy DEF IInv

-----------------------------------------------------------------------------
(* The invariant. *)

LEMMA InitInv == Init => IInv
<1> SUFFICES ASSUME Init
             PROVE  IInv
  OBVIOUS
<1>1. accounts \in Seq(Account)
  <2>1. PICK n \in 0..Cardinality(Account) : accounts \in [1..n -> Account]
    BY DEF Init
  <2>2. Cardinality(Account) \in Nat
    BY AccountsAssumption, FS_CardinalityType
  <2>3. n \in Nat
    BY <2>2
  <2> QED
    BY <2>1, <2>3
<1>2. Typed /\ Apart /\ OnSchedule
  BY <1>1, AccountsAssumption DEF Init, Typed, Apart, OnSchedule
<1>3. Busy = {}
  BY <1>1, ListedAreAccounts DEF Init, Busy, Listed
<1>4. ActivityCovers
  BY <1>3, FS_EmptySet DEF Init, ActivityCovers
<1> QED
  BY <1>2, <1>4 DEF IInv

LEMMA NextInv == IInv /\ [Next]_vars => IInv'
<1> SUFFICES ASSUME IInv, [Next]_vars
             PROVE  IInv'
  OBVIOUS
<1>1. CASE fillQueue
  BY <1>1, TryNextStep DEF fillQueue
<1>2. CASE nextTimeout
  BY <1>2, TryNextStep DEF nextTimeout
<1>3. ASSUME NEW a \in Account, requestRefresh(a)
      PROVE  IInv'
  BY <1>3, TryNextStep, OthersStep DEF requestRefresh
<1>4. ASSUME NEW a \in Account, TaskEnded(a)
      PROVE  IInv'
  BY <1>4, TaskEndsStep DEF TaskEnded
<1>5. ASSUME NEW a \in Account, addAccount(a)
      PROVE  IInv'
  BY <1>5, AddStep
<1>6. ASSUME NEW a \in Account, skinJob(a)
      PROVE  IInv'
  BY <1>6, RefreshStep DEF skinJob, schedule
<1>7. ASSUME NEW a \in Account, skinRefresh(a)
      PROVE  IInv'
  BY <1>7, SkinRefreshStep
<1>8. ASSUME NEW a \in Account, login(a)
      PROVE  IInv'
  BY <1>8, RefreshStep DEF login, schedule
<1>9. ASSUME NEW a \in Account, claim(a) \/ release(a) \/ ages(a)
      PROVE  IInv'
  BY <1>9, OthersStep DEF claim, release, ages, schedule
<1>10. ASSUME NEW a \in Account, NEW b \in Account, replaceAccount(a, b)
       PROVE  IInv'
  BY <1>10, ReplaceStep
<1>11. ASSUME NEW row \in DOMAIN accounts, removeAccount(row)
       PROVE  IInv'
  BY <1>11, RemoveStep
<1>12. ASSUME NEW d \in Account \cup {NoAccount}, setDefaultAccount(d)
       PROVE  IInv'
  BY <1>12, OthersStep DEF setDefaultAccount, schedule
<1>13. CASE UNCHANGED vars
  BY <1>13, OthersStep DEF vars, schedule
<1> QED
  BY <1>1, <1>2, <1>3, <1>4, <1>5, <1>6, <1>7, <1>8, <1>9, <1>10, <1>11, <1>12, <1>13
  DEF Next

LEMMA Invariance == Spec => []IInv
<1>1. Init => IInv
  BY InitInv
<1>2. IInv /\ [Next]_vars => IInv'
  BY NextInv
<1> QED
  BY <1>1, <1>2, PTL DEF Spec

\* For any number of accounts, the schedule of background refreshes never stops: a timer
\* is armed or a task runs whose end arms one (AccountList.cpp:701-744).
THEOREM ScheduleAliveHolds == Spec => []ScheduleAlive
<1>1. IInv => ScheduleAlive
  <2>1. IInv => \/ nextTimer \/ refreshTimer
                \/ current \in watched /\ task[current] = "running"
    BY DEF IInv, OnSchedule
  <2> QED
    BY <2>1 DEF IInv, OnSchedule, ScheduleAlive, Alive
<1> QED
  BY <1>1, Invariance, PTL

\* For any number of accounts, the list counts at least the accounts that are active
\* (AccountList.cpp:266-286, 746-771): requestRefresh() begins at once, and does not
\* queue, only when none is (686).  The timers' tryNext() does not look at the count.
THEOREM ActivityCoversHolds == Spec => []ActivityCovers
<1>1. IInv => ActivityCovers
  BY DEF IInv
<1> QED
  BY <1>1, Invariance, PTL

-----------------------------------------------------------------------------
(* The types of all the variables.  The queue only ever holds accounts, though not  *)
(* only those of the list.                                                          *)

LEMMA LeastOf ==
  ASSUME NEW S \in SUBSET Nat, S # {}
  PROVE  \E x \in S : \A y \in S : x <= y
<1>1. IsWellFoundedOn(OpToRel(<, Nat), Nat)
  BY NatLessThanWellFounded
<1>2. PICK x \in S : \A y \in S : ~(<<y, x>> \in OpToRel(<, Nat))
  BY <1>1, WFMin
<1>3. ASSUME NEW y \in S, y < x
      PROVE  FALSE
  <2> DEFINE p == <<y, x>>
  <2>1. p \in Nat \X Nat /\ p[1] < p[2]
    BY <1>3
  <2>2. p \notin OpToRel(<, Nat)
    BY <1>2
  <2> HIDE DEF p
  <2> QED
    BY <2>1, <2>2, Zenon DEF OpToRel
<1> QED
  BY <1>3

LEMMA AppendKeeps ==
  ASSUME NEW s \in Seq(Account), NEW b \in Account
  PROVE  ToSet(s) \subseteq ToSet(Append(s, b)) /\ b \in ToSet(Append(s, b))
<1>1. /\ DOMAIN Append(s, b) = 1..(Len(s) + 1) /\ Append(s, b)[Len(s) + 1] = b
      /\ \A i \in 1..Len(s) : Append(s, b)[i] = s[i]
  OBVIOUS
<1>2. DOMAIN s = 1..Len(s) /\ Len(s) \in Nat
  OBVIOUS
<1> HIDE DEF ToSet
<1> QED
  BY <1>1, <1>2 DEF ToSet

\* The queue r after the turn of the account in row i of fillQueue()'s loop.
Turn(r, i) == IF accounts[i] # default /\ shouldRefresh(accounts[i])
              THEN queueRefresh(r, accounts[i]) ELSE r

\* f holds the queues after each of the first n turns of that loop, on q.
Turns(q, f, n) == /\ f \in [0..n -> Seq(Account)]
                  /\ f[0] = q
                  /\ \A i \in 1..n : f[i] = Turn(f[i - 1], i)

LEMMA TurnTyped ==
  ASSUME accounts \in Seq(Account), NEW r \in Seq(Account), NEW i \in 1..Len(accounts)
  PROVE  Turn(r, i) \in Seq(Account) /\ ToSet(r) \subseteq ToSet(Turn(r, i))
<1>1. accounts[i] \in Account
  OBVIOUS
<1> DEFINE a == accounts[i]
<1> HIDE DEF a
<1>2. Append(r, a) \in Seq(Account) /\ ToSet(r) \subseteq ToSet(Append(r, a))
  BY <1>1, AppendKeeps DEF a
<1> QED
  BY <1>2 DEF Turn, queueRefresh, a

LEMMA TurnsGoOn ==
  ASSUME accounts \in Seq(Account), NEW q \in Seq(Account), NEW n \in 0..Len(accounts)
  PROVE  \E f : Turns(q, f, n)
<1> DEFINE Bad == {m \in 0..Len(accounts) : ~\E f : Turns(q, f, m)}
<1>1. SUFFICES ASSUME Bad # {}
               PROVE  FALSE
  OBVIOUS
<1>2. PICK m \in Bad : \A k \in Bad : m <= k
  <2>1. Bad \in SUBSET Nat
    OBVIOUS
  <2> HIDE DEF Bad
  <2> QED
    BY <1>1, <2>1, LeastOf
<1>3. m # 0
  <2> DEFINE f == [i \in 0..0 |-> q]
  <2>1. f \in [0..0 -> Seq(Account)] /\ f[0] = q
    OBVIOUS
  <2>2. Turns(q, f, 0)
    BY <2>1 DEF Turns
  <2> QED
    BY <1>2, <2>2
<1>4. m \in 1..Len(accounts) /\ m - 1 \in 0..Len(accounts) /\ m - 1 \notin Bad
  BY <1>2, <1>3
<1>5. PICK g : Turns(q, g, m - 1)
  BY <1>4
<1> DEFINE f == [i \in 0..m |-> IF i = m THEN Turn(g[m - 1], m) ELSE g[i]]
<1>6. g[m - 1] \in Seq(Account)
  BY <1>4, <1>5 DEF Turns
<1>7. Turn(g[m - 1], m) \in Seq(Account)
  BY <1>4, <1>6, TurnTyped
<1>8. f \in [0..m -> Seq(Account)] /\ f[0] = q
  BY <1>3, <1>4, <1>5, <1>7 DEF Turns
<1>9. ASSUME NEW i \in 1..m
      PROVE  f[i] = Turn(f[i - 1], i)
  <2>1. i - 1 \in 0..m /\ i - 1 # m /\ f[i - 1] = g[i - 1]
    BY <1>4
  <2>2. CASE i = m
    BY <2>1, <2>2
  <2>3. CASE i # m
    <3>1. i \in 1..(m - 1) /\ f[i] = g[i]
      BY <1>4, <2>3
    <3> QED
      BY <1>5, <2>1, <3>1 DEF Turns
  <2> QED
    BY <2>2, <2>3
<1> HIDE DEF f
<1>10. Turns(q, f, m)
  BY <1>8, <1>9 DEF Turns
<1> QED
  BY <1>2, <1>10

\* fillQueue() puts accounts into the queue and takes none out.
LEMMA FilledTyped ==
  ASSUME accounts \in Seq(Account), queue \in Seq(Account), default \in Account \cup {NoAccount}
  PROVE  Filled \in Seq(Account) /\ ToSet(queue) \subseteq ToSet(Filled)
<1> DEFINE q == IF default # NoAccount /\ shouldRefresh(default)
                THEN Append(queue, default) ELSE queue
           n == Len(accounts)
           Loop(f) == [i \in 0..n |-> IF i = 0 THEN q
                                       ELSE IF accounts[i] # default /\ shouldRefresh(accounts[i])
                                       THEN queueRefresh(f[i - 1], accounts[i]) ELSE f[i - 1]]
           added == CHOOSE f : f = Loop(f)
<1>1. q \in Seq(Account) /\ n \in Nat /\ ToSet(queue) \subseteq ToSet(q)
  <2>1. \A d \in Account : Append(queue, d) \in Seq(Account)
                           /\ ToSet(queue) \subseteq ToSet(Append(queue, d))
    BY Appended, AppendKeeps
  <2> QED
    BY <2>1
<1>2. Filled = added[n]
  BY DEF Filled
<1> HIDE DEF q, n
<1>3. PICK f : Turns(q, f, n)
  BY <1>1, TurnsGoOn DEF n
<1>4. f = Loop(f)
  <2>1. f = [i \in 0..n |-> f[i]]
    BY <1>3 DEF Turns
  <2>2. ASSUME NEW i \in 0..n
        PROVE  f[i] = IF i = 0 THEN q
                      ELSE IF accounts[i] # default /\ shouldRefresh(accounts[i])
                      THEN queueRefresh(f[i - 1], accounts[i]) ELSE f[i - 1]
    BY <1>1, <1>3 DEF Turns, Turn
  <2> QED
    BY <2>1, <2>2, Zenon
<1>5. added = Loop(added)
  BY <1>4, Zenon
<1> HIDE DEF added
<1>6. \A i \in 0..n : added[i] = IF i = 0 THEN q ELSE Turn(added[i - 1], i)
  <2> SUFFICES ASSUME NEW i \in 0..n
               PROVE  added[i] = IF i = 0 THEN q ELSE Turn(added[i - 1], i)
    OBVIOUS
  <2>1. added[i] = Loop(added)[i]
    BY <1>5, Zenon
  <2> QED
    BY <2>1 DEF Turn
<1> DEFINE Good(i) == added[i] \in Seq(Account) /\ ToSet(queue) \subseteq ToSet(added[i])
           Bad == {i \in 0..n : ~Good(i)}
<1>7. Bad = {}
  <2>1. SUFFICES ASSUME Bad # {}
                 PROVE  FALSE
    OBVIOUS
  <2>2. PICK m \in Bad : \A k \in Bad : m <= k
    <3>1. Bad \in SUBSET Nat
      BY <1>1
    <3> HIDE DEF Bad
    <3> QED
      BY <2>1, <3>1, LeastOf
  <2>3. m # 0
    BY <1>1, <1>6, <2>2
  <2>4. m \in 1..n /\ m - 1 \in 0..n /\ m - 1 \notin Bad
    BY <1>1, <2>2, <2>3
  <2>5. added[m] = Turn(added[m - 1], m) /\ Good(m - 1)
    BY <1>6, <2>3, <2>4
  <2>6. Good(m)
    BY <2>4, <2>5, TurnTyped DEF n
  <2> QED
    BY <2>2, <2>6
<1> QED
  BY <1>1, <1>2, <1>7

LEMMA PutFirstTyped ==
  ASSUME queue \in Seq(Account), NEW a \in Account
  PROVE  PutFirst(a) \in Seq(Account)
<1> DEFINE places == {i \in 1..Len(queue) : queue[i] = a}
<1>1. RemoveFirst(queue, a) \in Seq(Account)
  <2>1. CASE places = {}
    BY <2>1 DEF RemoveFirst
  <2>2. CASE places # {}
    <3>1. PICK i \in places : \A j \in places : i <= j
      <4>1. places \in SUBSET Nat
        OBVIOUS
      <4> HIDE DEF places
      <4> QED
        BY <2>2, <4>1, LeastOf
    <3>2. Min(places) \in places
      BY <3>1 DEF Min
    <3>3. RemoveFirst(queue, a) = RemoveAt(queue, Min(places))
      BY <2>2 DEF RemoveFirst, SelectInSeq
    <3> QED
      BY <3>2, <3>3, Removed
  <2> QED
    BY <2>1, <2>2
<1>2. <<a>> \in Seq(Account)
  OBVIOUS
<1> QED
  BY <1>1, <1>2, ConcatProperties DEF PutFirst

LEMMA RefreshTyped ==
  ASSUME TypeOK, NEW a \in Account, NEW state \in {"made", "running"}, refresh(a, state)
  PROVE  activity' \in Nat /\ task' \in [Account -> {"none", "made", "running"}]
BY DEF TypeOK, refresh

LEMMA TryNextTyped ==
  ASSUME TypeOK, NEW q \in Seq(Account), NEW armed \in BOOLEAN, tryNext(q, armed)
  PROVE  /\ queue' \in Seq(Account) /\ current' \in Account \cup {NoAccount}
         /\ refreshTimer' \in BOOLEAN /\ activity' \in Nat
         /\ task' \in [Account -> {"none", "made", "running"}] /\ watched' \in SUBSET Account
<1>1. CASE \E i \in DOMAIN q :
             /\ queue' = SubSeq(q, i + 1, Len(q))
             /\ current' = q[i]
             /\ watched' = watched \cup {q[i]}
             /\ refresh(q[i], "running")
             /\ refreshTimer' = armed
  <2>1. PICK i \in DOMAIN q : /\ queue' = SubSeq(q, i + 1, Len(q))
                              /\ current' = q[i]
                              /\ watched' = watched \cup {q[i]}
                              /\ refresh(q[i], "running")
                              /\ refreshTimer' = armed
    BY <1>1
  <2>2. q[i] \in Account
    OBVIOUS
  <2>3. activity' \in Nat /\ task' \in [Account -> {"none", "made", "running"}]
    <3> DEFINE a == q[i]
    <3>1. a \in Account /\ refresh(a, "running")
      BY <2>1, <2>2
    <3> HIDE DEF a
    <3> QED
      BY <3>1, RefreshTyped
  <2>4. queue' \in Seq(Account)
    <3>1. \A j \in (i + 1)..Len(q) : q[j] \in Account
      OBVIOUS
    <3> QED
      BY <2>1, <3>1, SubSeqProperties
  <2> QED
    BY <2>1, <2>2, <2>3, <2>4 DEF TypeOK
<1>2. CASE /\ queue' = <<>> /\ refreshTimer' = TRUE
           /\ UNCHANGED <<current, watched, task, activity>>
  BY <1>2 DEF TypeOK
<1> QED
  BY <1>1, <1>2 DEF tryNext

LEMMA InitTyped == Init => TypeOK
<1> SUFFICES ASSUME Init
             PROVE  TypeOK
  OBVIOUS
<1>1. Typed
  BY InitInv DEF IInv
<1>2. Listed \subseteq Account
  BY <1>1, ListedAreAccounts DEF Typed, Listed
<1>3. MaxUses \in Nat /\ MaxRequests \in Nat
  BY AccountsAssumption
<1>4. /\ default \in Account \cup {NoAccount}
      /\ nextTimer \in BOOLEAN /\ refreshTimer \in BOOLEAN
  BY <1>2, Zenon DEF Init
<1>5. queue \in Seq(Account)
  BY DEF Init
<1>6. requests \in 0..MaxRequests
  BY <1>3 DEF Init
<1>7. /\ validity \in [Account -> {"due", "fresh", "broken"}]
      /\ tokens \in SUBSET Account
      /\ uses \in [Account -> 0..MaxUses]
  BY <1>2, <1>3 DEF Init
<1> QED
  BY <1>1, <1>4, <1>5, <1>6, <1>7 DEF Typed, TypeOK

LEMMA NextTyped == TypeOK /\ [Next]_vars => TypeOK'
<1> SUFFICES ASSUME TypeOK, [Next]_vars
             PROVE  TypeOK'
  OBVIOUS
<1> USE AccountsAssumption
<1>0. Listed \subseteq Account
  BY ListedAreAccounts DEF TypeOK, Listed
<1>1. CASE fillQueue
  <2>1. Filled \in Seq(Account)
    BY FilledTyped DEF TypeOK
  <2>2. tryNext(Filled, FALSE)
    BY <1>1 DEF fillQueue
  <2> QED
    BY <1>1, <2>1, <2>2, TryNextTyped DEF fillQueue, TypeOK
<1>2. CASE nextTimeout
  BY <1>2, TryNextTyped DEF nextTimeout, TypeOK
<1>3. ASSUME NEW a \in Account, requestRefresh(a)
      PROVE  TypeOK'
  <2>1. PutFirst(a) \in Seq(Account)
    BY PutFirstTyped DEF TypeOK
  <2>2. /\ requests < MaxRequests /\ requests' = requests + 1
        /\ UNCHANGED <<accounts, default, nextTimer, validity, tokens, uses, spare>>
    BY <1>3 DEF requestRefresh
  <2>3. CASE tryNext(PutFirst(a), refreshTimer)
    BY <2>1, <2>2, <2>3, TryNextTyped DEF TypeOK
  <2>4. CASE queue' = PutFirst(a) /\ UNCHANGED <<current, refreshTimer, activity, task, watched>>
    BY <2>1, <2>2, <2>4 DEF TypeOK
  <2> QED
    BY <1>3, <2>3, <2>4 DEF requestRefresh
<1>4. ASSUME NEW a \in Account, TaskEnded(a)
      PROVE  TypeOK'
  <2>1. PICK r \in {"succeeded", "soft", "hard", "gone"} : TaskEnds(a, r)
    BY <1>4 DEF TaskEnded
  <2>2. Outcome(a, r) \in {"due", "fresh", "broken"}
    BY DEF Outcome, TypeOK
  <2> QED
    BY <2>1, <2>2 DEF TaskEnds, authEnded, TypeOK
<1>5. ASSUME NEW a \in Account, addAccount(a)
      PROVE  TypeOK'
  BY <1>5, Appended DEF addAccount, schedule, TypeOK
<1>6. ASSUME NEW a \in Account, NEW state \in {"made", "running"}, refresh(a, state),
             UNCHANGED <<accounts, default, schedule, watched, validity, tokens, uses, spare,
                        requests>>
      PROVE  TypeOK'
  BY <1>6, RefreshTyped DEF schedule, TypeOK
<1>7. ASSUME NEW a \in Account, skinRefresh(a)
      PROVE  TypeOK'
  BY <1>7 DEF skinRefresh, schedule, TypeOK
<1>8. ASSUME NEW a \in Account, claim(a) \/ release(a)
      PROVE  TypeOK'
  <2>1. uses[a] \in 0..MaxUses
    BY DEF TypeOK
  <2>2. uses' \in [Account -> 0..MaxUses]
    <3>1. CASE claim(a)
      BY <2>1, <3>1 DEF claim, TypeOK
    <3>2. CASE release(a)
      BY <2>1, <3>2 DEF release, isInUse, TypeOK
    <3> QED
      BY <1>8, <3>1, <3>2
  <2> QED
    BY <1>8, <2>2 DEF claim, release, schedule, TypeOK
<1>9. ASSUME NEW a \in Account, ages(a)
      PROVE  TypeOK'
  BY <1>9 DEF ages, schedule, TypeOK
<1>10. ASSUME NEW a \in Account, NEW b \in Account, replaceAccount(a, b)
       PROVE  TypeOK'
  <2>1. accounts' = [i \in DOMAIN accounts |-> IF accounts[i] = a THEN b ELSE accounts[i]]
    BY <1>10 DEF replaceAccount
  <2>2. accounts \in Seq(Account)
    BY DEF TypeOK
  <2>3. accounts' \in Seq(Account)
    BY <2>1, <2>2, Replaced
  <2> QED
    BY <1>10, <2>3 DEF replaceAccount, schedule, TypeOK
<1>11. ASSUME NEW row \in DOMAIN accounts, removeAccount(row)
       PROVE  TypeOK'
  BY <1>11, Removed DEF removeAccount, schedule, TypeOK
<1>12. ASSUME NEW d \in Account \cup {NoAccount}, setDefaultAccount(d)
       PROVE  TypeOK'
  BY <1>12 DEF setDefaultAccount, schedule, TypeOK
<1>13. CASE UNCHANGED vars
  BY <1>13 DEF vars, schedule, TypeOK
<1>14. ASSUME NEW a \in Account, skinJob(a) \/ login(a)
       PROVE  TypeOK'
  BY <1>0, <1>6, <1>14 DEF skinJob, login
<1> QED
  BY <1>1, <1>2, <1>3, <1>4, <1>5, <1>7, <1>8, <1>9, <1>10, <1>11, <1>12, <1>13, <1>14
  DEF Next

\* For any number of accounts, the state stays within its type: what waits for its turn
\* and what is refreshed are accounts (AccountList.cpp:653-735).
THEOREM TypeCorrect == Spec => []TypeOK
BY InitTyped, NextTyped, PTL DEF Spec

-----------------------------------------------------------------------------
(* Nobody is forgotten: the safety half of QueuedIsServed.                   *)

Waits(a) == a \in ToSet(queue)

\* No account that is in the list leaves the queue but for its refresh, or with the list.
QueuedIsKept == [][\A a \in Listed : Waits(a) => Waits(a)' \/ Served(a)' \/ a \notin Listed']_vars

LEMMA TryNextKeeps ==
  ASSUME TypeOK, NEW q \in Seq(Account), NEW armed, tryNext(q, armed),
         NEW a \in Listed, a \in ToSet(q)
  PROVE  a \in ToSet(queue') \/ (a \in watched' /\ task'[a] = "running")
<1>1. PICK j \in 1..Len(q) : q[j] = a
  BY DEF ToSet
<1>2. a \in Account
  BY <1>1
<1>3. PICK i \in DOMAIN q : /\ \A k \in 1..(i - 1) : q[k] \notin Listed
                            /\ queue' = SubSeq(q, i + 1, Len(q))
                            /\ watched' = watched \cup {q[i]}
                            /\ refresh(q[i], "running")
  BY DEF tryNext
<1>4. i \in 1..Len(q) /\ j >= i
  BY <1>1, <1>3
<1>5. CASE j = i
  <2>1. a \in watched' /\ refresh(a, "running")
    BY <1>1, <1>3, <1>5
  <2> QED
    BY <1>2, <2>1 DEF refresh, TypeOK
<1>6. CASE j # i
  <2>1. j - i \in 1..(Len(q) - i) /\ (i + 1) + (j - i) - 1 = j
    BY <1>4, <1>6
  <2>2. DOMAIN queue' = 1..(Len(q) - i) /\ queue'[j - i] = q[j]
    <3> DEFINE t == SubSeq(q, i + 1, Len(q))
    <3>1. \A k \in (i + 1)..Len(q) : q[k] \in Account
      OBVIOUS
    <3>2. i + 1 \in Int /\ Len(q) \in Int
      BY <1>4
    <3>3. /\ t \in Seq(Account)
          /\ Len(t) = IF i + 1 <= Len(q) THEN Len(q) - (i + 1) + 1 ELSE 0
          /\ \A k \in 1..(Len(q) - (i + 1) + 1) : t[k] = q[(i + 1) + k - 1]
      BY <3>1, <3>2, SubSeqProperties
    <3> HIDE DEF t
    <3>4. Len(t) = Len(q) - i /\ t[j - i] = q[j]
      <4>1. Len(q) \in Nat /\ i \in Nat /\ j \in Nat /\ i < j /\ j <= Len(q)
        BY <1>4, <1>6
      <4>2. j - i \in 1..(Len(q) - (i + 1) + 1) /\ (i + 1) + (j - i) - 1 = j
        BY <4>1
      <4>3. t[j - i] = q[(i + 1) + (j - i) - 1]
        BY <3>3, <4>2
      <4>4. t[j - i] = q[j]
        BY <4>2, <4>3, Zenon
      <4>5. Len(t) = Len(q) - i
        BY <3>3, <4>1
      <4> QED
        BY <4>4, <4>5
    <3>5. queue' = t
      BY <1>3 DEF t
    <3> QED
      BY <3>3, <3>4, <3>5
  <2> QED
    BY <1>1, <2>1, <2>2 DEF ToSet
<1> QED
  BY <1>5, <1>6

\* What is not at the place itself stays.
LEMMA RemoveAtKeeps ==
  ASSUME NEW s \in Seq(Account), NEW m \in 1..Len(s)
  PROVE  LET r == RemoveAt(s, m) IN
         r \in Seq(Account) /\ \A x \in ToSet(s) : x = s[m] \/ x \in ToSet(r)
<1> DEFINE front == SubSeq(s, 1, m - 1)
           back == SubSeq(s, m + 1, Len(s))
           r == front \o back
<1>1. m \in Nat /\ Len(s) \in Nat /\ m <= Len(s) /\ m >= 1
  OBVIOUS
<1>2. /\ front \in Seq(Account) /\ Len(front) = m - 1
      /\ \A i \in 1..(m - 1) : front[i] = s[i]
  <2>1. \A i \in 1..(m - 1) : s[i] \in Account
    BY <1>1
  <2> QED
    BY <1>1, <2>1, SubSeqProperties
<1>3. /\ back \in Seq(Account) /\ Len(back) = Len(s) - m
      /\ \A i \in 1..(Len(s) - m) : back[i] = s[m + i]
  <2>1. \A i \in (m + 1)..Len(s) : s[i] \in Account
    BY <1>1
  <2> QED
    BY <1>1, <2>1, SubSeqProperties
<1> HIDE DEF front, back
<1>4. /\ r \in Seq(Account) /\ Len(r) = (m - 1) + (Len(s) - m)
      /\ \A i \in 1..Len(r) : r[i] = IF i <= m - 1 THEN front[i] ELSE back[i - (m - 1)]
  <2>1. /\ front \o back \in Seq(Account)
        /\ Len(front \o back) = Len(front) + Len(back)
        /\ \A i \in 1..Len(front) + Len(back) : (front \o back)[i] =
              IF i <= Len(front) THEN front[i] ELSE back[i - Len(front)]
    BY <1>2, <1>3, ConcatProperties
  <2> HIDE DEF r
  <2>2. r = front \o back
    BY DEF r
  <2> QED
    BY <1>2, <1>3, <2>1, <2>2
<1> HIDE DEF r
<1>5. ASSUME NEW i \in 1..Len(s), i # m
      PROVE  s[i] \in ToSet(r)
  <2>1. CASE i < m
    <3>1. i \in 1..Len(r) /\ i \in 1..(m - 1) /\ r[i] = s[i]
      BY <1>1, <1>2, <1>4, <2>1
    <3> QED
      BY <1>4, <3>1 DEF ToSet
  <2>2. CASE i > m
    <3> DEFINE k == i - 1
    <3>1. k \in 1..Len(r) /\ ~(k <= m - 1) /\ i - m \in 1..(Len(s) - m) /\ m + (i - m) = i
          /\ k - (m - 1) = i - m
      BY <1>1, <1>4, <2>2
    <3>2. r[k] = s[i]
      BY <1>3, <1>4, <3>1
    <3> QED
      BY <1>4, <3>1, <3>2 DEF ToSet
  <2> QED
    BY <1>1, <1>5, <2>1, <2>2
<1>6. r = RemoveAt(s, m)
  BY DEF RemoveAt, r, front, back
<1> QED
  BY <1>4, <1>5, <1>6 DEF ToSet

LEMMA PutFirstKeeps ==
  ASSUME queue \in Seq(Account), NEW a \in Account
  PROVE  ToSet(queue) \subseteq ToSet(PutFirst(a))
<1> DEFINE r == RemoveFirst(queue, a)
           places == {i \in 1..Len(queue) : queue[i] = a}
<1>1. r \in Seq(Account) /\ \A x \in ToSet(queue) : x = a \/ x \in ToSet(r)
  <2>1. CASE places = {}
    BY <2>1 DEF RemoveFirst
  <2>2. CASE places # {}
    <3>1. Min(places) \in places
      <4>1. PICK i \in places : \A j \in places : i <= j
        <5>1. places \in SUBSET Nat
          OBVIOUS
        <5> HIDE DEF places
        <5> QED
          BY <2>2, <5>1, LeastOf
      <4> QED
        BY <4>1 DEF Min
    <3>2. r = RemoveAt(queue, Min(places))
      BY <2>2 DEF RemoveFirst, SelectInSeq
    <3>3. PICK m \in 1..Len(queue) : queue[m] = a /\ r = RemoveAt(queue, m)
      BY <3>1, <3>2
    <3> QED
      BY <3>3, RemoveAtKeeps
  <2> QED
    BY <2>1, <2>2
<1>2. <<a>> \in Seq(Account) /\ Len(<<a>>) = 1 /\ <<a>>[1] = a
  OBVIOUS
<1> HIDE DEF r
<1>3. /\ PutFirst(a) \in Seq(Account) /\ Len(PutFirst(a)) = 1 + Len(r)
      /\ PutFirst(a)[1] = a /\ \A i \in 1..Len(r) : PutFirst(a)[i + 1] = r[i]
  BY <1>1, <1>2, ConcatProperties DEF PutFirst, r
<1>4. ASSUME NEW x \in ToSet(queue)
      PROVE  x \in ToSet(PutFirst(a))
  <2>1. CASE x = a
    BY <1>1, <1>3, <2>1 DEF ToSet
  <2>2. CASE x \in ToSet(r)
    <3>1. PICK i \in 1..Len(r) : r[i] = x
      BY <1>1, <2>2 DEF ToSet
    <3>2. i + 1 \in 1..Len(PutFirst(a)) /\ PutFirst(a)[i + 1] = x
      BY <1>1, <1>3, <3>1
    <3> QED
      BY <1>3, <3>2 DEF ToSet
  <2> QED
    BY <1>1, <2>1, <2>2
<1> QED
  BY <1>4

LEMMA QueueStep ==
  ASSUME TypeOK, [Next]_vars, NEW a \in Listed, Waits(a)
  PROVE  Waits(a)' \/ Served(a)' \/ a \notin Listed'
<1>1. /\ accounts \in Seq(Account) /\ queue \in Seq(Account)
      /\ default \in Account \cup {NoAccount}
  BY DEF TypeOK
<1>2. a \in Account
  BY <1>1, ListedAreAccounts DEF Listed
<1>3. CASE fillQueue
  <2>1. Filled \in Seq(Account) /\ a \in ToSet(Filled)
    BY <1>1, FilledTyped DEF Waits
  <2>2. tryNext(Filled, FALSE)
    BY <1>3 DEF fillQueue
  <2> QED
    BY <2>1, <2>2, TryNextKeeps DEF Waits, Served
<1>4. CASE nextTimeout
  <2>1. tryNext(queue, refreshTimer)
    BY <1>4 DEF nextTimeout
  <2> QED
    BY <1>1, <2>1, TryNextKeeps DEF Waits, Served
<1>5. ASSUME NEW b \in Account, requestRefresh(b)
      PROVE  Waits(a)' \/ Served(a)'
  <2>1. PutFirst(b) \in Seq(Account) /\ a \in ToSet(PutFirst(b))
    BY <1>1, PutFirstTyped, PutFirstKeeps DEF Waits
  <2>2. CASE tryNext(PutFirst(b), refreshTimer)
    BY <2>1, <2>2, TryNextKeeps DEF Waits, Served
  <2>3. CASE queue' = PutFirst(b)
    BY <2>1, <2>3 DEF Waits
  <2> QED
    BY <1>5, <2>2, <2>3 DEF requestRefresh
<1>6. CASE queue' = queue
  BY <1>6 DEF Waits
<1>7. CASE UNCHANGED vars
  BY <1>6, <1>7 DEF vars, schedule
<1>8. ASSUME NEW b \in Account,
             TaskEnded(b) \/ addAccount(b) \/ skinJob(b) \/ skinRefresh(b) \/ login(b)
      PROVE  queue' = queue
  BY <1>8 DEF TaskEnded, TaskEnds, addAccount, skinJob, skinRefresh, login, schedule
<1>9. ASSUME NEW b \in Account, claim(b) \/ release(b) \/ ages(b)
      PROVE  queue' = queue
  BY <1>9 DEF claim, release, ages, schedule
<1>10. ASSUME NEW b \in Account, NEW c \in Account, replaceAccount(b, c)
       PROVE  queue' = queue
  BY <1>10 DEF replaceAccount, schedule
<1>11. ASSUME NEW row \in DOMAIN accounts, removeAccount(row)
       PROVE  queue' = queue
  BY <1>11 DEF removeAccount, schedule
<1>12. ASSUME NEW d \in Account \cup {NoAccount}, setDefaultAccount(d)
       PROVE  queue' = queue
  BY <1>12 DEF setDefaultAccount, schedule
<1> QED
  BY <1>3, <1>4, <1>5, <1>6, <1>7, <1>8, <1>9, <1>10, <1>11, <1>12 DEF Next

\* For any number of accounts, no request for a refresh is forgotten: whatever else is
\* queued, removed or refreshed meanwhile, an account of the list stays in the queue until
\* the list refreshes it (AccountList.cpp:653-735).
THEOREM QueuedIsKeptHolds == Spec => QueuedIsKept
<1>1. TypeOK /\ [Next]_vars =>
        [\A a \in Listed : Waits(a) => Waits(a)' \/ Served(a)' \/ a \notin Listed']_vars
  BY QueueStep
<1> QED
  BY <1>1, TypeCorrect, PTL DEF Spec, QueuedIsKept
=============================================================================
