-------------------------- MODULE ModFolder_proofs --------------------------
(***************************************************************************)
(* That an open page misses no change of its folder, and shows what is in  *)
(* it as soon as nothing more is due, for any number of mods and changes.  *)
(***************************************************************************)
EXTENDS ModFolder, FiniteSetTheorems, SequenceTheorems, WellFoundedInduction, TLAPS

\* What keeps NoChangeMissed: an update is scheduled only behind a scan that runs, so
\* that there is always somebody to do it.
Scans == {"none", "running", "read"}
Shape == /\ scan = [state |-> scan.state, mods |-> scan.mods]
         /\ scan.state \in Scans
         /\ scheduled \in BOOLEAN /\ event \in BOOLEAN
ScheduledBehind == scan.state = "none" => ~scheduled
IInv == Shape /\ ScheduledBehind /\ NoChangeMissed

\* An update leaves something due, whatever it finds.
LEMMA UpdateIsDue ==
  ASSUME Shape, ScheduledBehind, update
  PROVE  /\ event' \in BOOLEAN => Shape'
         /\ ScheduledBehind'
         /\ scheduled' \/ scan'.state = "running"
<1>1. CASE scan.state = "none"
  BY <1>1 DEF update, Shape, Scans, ScheduledBehind
<1>2. CASE scan.state # "none"
  BY <1>2 DEF update, Shape, Scans, ScheduledBehind
<1> QED BY <1>1, <1>2

\* A change of the folder leaves something due if somebody looks.
LEMMA ChangeIsDue ==
  ASSUME NEW f, Shape, FolderBecomes(f), UNCHANGED page
  PROVE  /\ event' \in BOOLEAN
         /\ page' = "open" => event'
BY DEF FolderBecomes, Shape

LEMMA InitHolds == Init => IInv
<1> SUFFICES ASSUME Init PROVE IInv
  OBVIOUS
<1>1. /\ scan = [state |-> "none", mods |-> Unread]
      /\ scheduled = FALSE /\ event = FALSE /\ page = "closed"
  BY Zenon DEF Init
<1>2. scan.state = "none" /\ scan.mods = Unread
  BY <1>1
<1>3. scan = [state |-> scan.state, mods |-> scan.mods]
  BY <1>1, <1>2, Zenon
<1>4. Shape /\ ScheduledBehind
  BY <1>1, <1>2, <1>3, Zenon DEF Shape, Scans, ScheduledBehind
<1>5. NoChangeMissed
  BY <1>1, Zenon DEF NoChangeMissed, NothingDue
<1> QED BY <1>4, <1>5 DEF IInv

\* Steps that touch neither the folder nor what is due.
LEMMA QuietSteps ==
  ASSUME IInv, UNCHANGED <<folder, scan, scheduled, page, event>>
  PROVE  IInv'
BY DEF IInv, Shape, ScheduledBehind, NoChangeMissed, NothingDue

LEMMA StepHolds == IInv /\ [Next]_vars => IInv'
<1> SUFFICES ASSUME IInv, [Next]_vars
             PROVE  IInv'
  OBVIOUS
<1> USE DEF IInv, GuiFree
<1>1. CASE openedImpl
  BY <1>1, UpdateIsDue DEF openedImpl, NoChangeMissed, NothingDue, Shape
<1>2. CASE addPath
  BY <1>2, UpdateIsDue DEF addPath, NoChangeMissed, NothingDue, Shape
<1>3. CASE closedImpl
  BY <1>3 DEF closedImpl, NoChangeMissed, NothingDue, Shape, ScheduledBehind
<1>4. CASE directoryChanged
  BY <1>4, UpdateIsDue DEF directoryChanged, NoChangeMissed, NothingDue, Shape
<1>5. CASE runningStateChanged
  BY <1>5, UpdateIsDue DEF runningStateChanged, NoChangeMissed, NothingDue, Shape
<1>6. CASE loadTask
  BY <1>6 DEF loadTask, NoChangeMissed, NothingDue, Shape, Scans, ScheduledBehind
<1>7. CASE finishUpdate
  <2>1. CASE scheduled
    BY <1>7, <2>1 DEF finishUpdate, NoChangeMissed, NothingDue, Shape, Scans, ScheduledBehind
  <2>2. CASE ~scheduled
    <3>1. scan'.state = "none" /\ scan'.mods = scan.mods /\ ~scheduled'
      BY <1>7, <2>2 DEF finishUpdate, Shape
    <3>2. Shape' /\ ScheduledBehind'
      BY <1>7, <2>2, <3>1 DEF finishUpdate, Shape, Scans, ScheduledBehind
    <3> QED BY <1>7, <2>2, <3>1, <3>2 DEF finishUpdate, NoChangeMissed, NothingDue
  <2> QED BY <2>1, <2>2 DEF Shape
<1>8. ASSUME NEW t \in DOMAIN list.tickets, parseTask(t) \/ finishModParse(t)
      PROVE  IInv'
  BY <1>8, QuietSteps DEF parseTask, finishModParse
<1>9. CASE ChangedByAnother
  <2>1. PICK f : FolderBecomes(f)
    BY <1>9 DEF ChangedByAnother
  <2> QED BY <1>9, <2>1, ChangeIsDue
          DEF ChangedByAnother, NoChangeMissed, NothingDue, Shape, ScheduledBehind
<1>10. ASSUME NEW i \in DOMAIN list.rows, setModStatus(i)
       PROVE  IInv'
  <2>1. PICK f : FolderBecomes(f)
    BY <1>10 DEF setModStatus
  <2> QED BY <1>10, <2>1, ChangeIsDue
          DEF setModStatus, NoChangeMissed, NothingDue, Shape, ScheduledBehind
<1>11. ASSUME NEW i \in DOMAIN list.rows, deleteMods(i)
       PROVE  IInv'
  <2>1. CASE UNCHANGED <<folder, event, changes>>
    BY <1>11, <2>1, QuietSteps DEF deleteMods
  <2>2. CASE \E f : FolderBecomes(f)
    <3>1. PICK f : FolderBecomes(f)
      BY <2>2
    <3> QED BY <1>11, <3>1, ChangeIsDue
            DEF deleteMods, NoChangeMissed, NothingDue, Shape, ScheduledBehind
  <2> QED BY <1>11, <2>1, <2>2 DEF deleteMods
<1>12. ASSUME NEW m \in Mod, installMod(m)
       PROVE  IInv'
  <2>1. PICK f : FolderBecomes(f)
    BY <1>12 DEF installMod
  <2>2. event' \in BOOLEAN /\ event'
    BY <1>12, <2>1, ChangeIsDue DEF installMod
  <2>3. CASE update
    BY <1>12, <2>2, <2>3, UpdateIsDue DEF NoChangeMissed, NothingDue
  <2>4. CASE UNCHANGED <<scan, scheduled>>
    BY <2>2, <2>4 DEF NoChangeMissed, NothingDue, Shape, ScheduledBehind
  <2> QED BY <1>12, <2>3, <2>4 DEF installMod
<1>13. CASE UNCHANGED vars
  BY <1>13, QuietSteps DEF vars
<1> QED
  BY <1>1, <1>2, <1>3, <1>4, <1>5, <1>6, <1>7, <1>8, <1>9, <1>10, <1>11, <1>12, <1>13 DEF Next

\* Nothing that happens to the folder while its page is open goes unnoticed: neither
\* while it is opened, nor during a scan (ModFolderModel.cpp:71-116, 198-209).
THEOREM NoChangeMissedHolds == Spec => []NoChangeMissed
<1>1. IInv => NoChangeMissed
  BY DEF IInv
<1> QED BY <1>1, InitHolds, StepHolds, PTL DEF Spec

-----------------------------------------------------------------------------
(* Numbers and finite sets in a row.                                         *)

\* Every set of numbers has a least one.
LEMMA LeastOf ==
  ASSUME NEW S \in SUBSET Nat, S # {}
  PROVE  \E x \in S : \A y \in S : x <= y
<1>1. IsWellFoundedOn(OpToRel(<, Nat), Nat)
  BY NatLessThanWellFounded
<1>2. PICK x \in S : \A y \in S : ~(<<y, x>> \in OpToRel(<, Nat))
  BY <1>1, WFMin
<1>3. ASSUME NEW y \in S, y < x
      PROVE  FALSE
  <2> DEFINE p == <<y, x>>
  <2>1. p \in Nat \X Nat /\ p[1] < p[2]
    BY <1>3
  <2>2. p \notin OpToRel(<, Nat)
    BY <1>2
  <2> HIDE DEF p
  <2> QED
    BY <2>1, <2>2, Zenon DEF OpToRel
<1> QED
  BY <1>3

\* A set of numbers that is bounded has a largest one.
LEMMA MaxIsMember ==
  ASSUME NEW S \in SUBSET Nat, S # {}, NEW n \in Nat, \A x \in S : x <= n
  PROVE  Max(S) \in S /\ \A x \in S : x <= Max(S)
<1> DEFINE B == {b \in Nat : \A x \in S : x <= b}
<1>1. B \in SUBSET Nat /\ B # {}
  OBVIOUS
<1>2. PICK b \in B : \A c \in B : b <= c
  BY <1>1, LeastOf
<1>3. b \in S
  <2>1. SUFFICES ASSUME b \notin S
                 PROVE  FALSE
    OBVIOUS
  <2>2. PICK x \in S : TRUE
    OBVIOUS
  <2>3. \A y \in S : y <= b - 1
    BY <1>2, <2>1
  <2>4. b - 1 \in B
    BY <1>2, <2>2, <2>3
  <2> QED
    BY <1>2, <2>4
<1>4. \E x \in S : \A y \in S : x >= y
  BY <1>2, <1>3
<1> QED
  BY <1>4 DEF Max

\* SetToSeq lists a finite set, each member once.
LEMMA Listing ==
  ASSUME NEW S, IsFiniteSet(S)
  PROVE  LET s == SetToSeq(S) IN
         /\ s \in Seq(S) /\ Len(s) \in Nat /\ s \in [1..Len(s) -> S]
         /\ \A i, j \in 1..Len(s) : s[i] = s[j] => i = j
         /\ \A x \in S : \E i \in 1..Len(s) : s[i] = x
<1> DEFINE c == Cardinality(S)
           s == SetToSeq(S)
<1>1. c \in Nat /\ ExistsBijection(1..c, S)
  BY FS_CardinalityType
<1>2. \E f \in [1..c -> S] : IsInjective(f)
  BY <1>1 DEF ExistsBijection, Bijection, Injection
<1>3. s \in [1..c -> S] /\ IsInjective(s)
  BY <1>2 DEF SetToSeq
<1>4. IsFiniteSet(1..c) /\ Cardinality(1..c) = c
  BY <1>1, FS_Interval
<1>5. s \in Injection(1..c, S)
  BY <1>3 DEF Injection
<1>6. s \in Surjection(1..c, S)
  BY <1>4, <1>5, FS_Injection
<1> HIDE DEF s, c
<1>7. s \in Seq(S) /\ Len(s) = c
  BY <1>1, <1>3
<1> QED
  BY <1>1, <1>3, <1>6, <1>7 DEF IsInjective, Surjection, s

Rising(s, c) == \A i, j \in 1..c : i < j => s[i] < s[j]
Ordered(S) == /\ IsFiniteSet(S) /\ Cardinality(S) \in Nat
              /\ \E s \in [1..Cardinality(S) -> S] : Rising(s, Cardinality(S))
HasOrder(n) == \A S \in SUBSET (1..n) : Ordered(S)

LEMMA NextOrder ==
  ASSUME NEW n \in Nat, HasOrder(n)
  PROVE  HasOrder(n + 1)
<1> SUFFICES ASSUME NEW S \in SUBSET (1..(n + 1))
             PROVE  Ordered(S)
  BY DEF HasOrder
<1> DEFINE T == S \ {n + 1}
           d == Cardinality(T)
<1>1. T \in SUBSET (1..n)
  OBVIOUS
<1>2. IsFiniteSet(T) /\ d \in Nat
  BY <1>1 DEF HasOrder, Ordered
<1>3. PICK t \in [1..d -> T] : Rising(t, d)
  BY <1>1 DEF HasOrder, Ordered
<1>4. CASE n + 1 \notin S
  <2>1. S = T
    BY <1>4
  <2> QED
    BY <1>1, <2>1 DEF HasOrder
<1>5. CASE n + 1 \in S
  <2> DEFINE s == [i \in 1..(d + 1) |-> IF i = d + 1 THEN n + 1 ELSE t[i]]
  <2>1. S = T \cup {n + 1}
    BY <1>5
  <2>0. n + 1 \notin T
    OBVIOUS
  <2>2. IsFiniteSet(S) /\ Cardinality(S) = d + 1
    <3> HIDE DEF T
    <3> QED
      BY <1>2, <2>0, <2>1, FS_AddElement
  <2>3. ASSUME NEW i \in 1..d
        PROVE  t[i] \in S /\ t[i] \in Nat /\ t[i] < n + 1
    <3>1. t[i] \in T
      BY <1>3
    <3>2. t[i] \in S /\ t[i] \in 1..n
      BY <3>1, <1>1
    <3> QED
      BY <3>2
  <2> HIDE DEF T, d
  <2>4. \A i \in 1..(d + 1) : i # d + 1 => i \in 1..d
    BY <1>2
  <2>5. s \in [1..(d + 1) -> S]
    BY <1>5, <2>3, <2>4
  <2>6. ASSUME NEW i \in 1..(d + 1), NEW j \in 1..(d + 1), i < j
        PROVE  s[i] < s[j]
    <3>1. i \in 1..d
      BY <1>2, <2>6
    <3>2. s[i] = t[i]
      BY <1>2, <3>1
    <3>3. CASE j = d + 1
      BY <2>3, <3>1, <3>2, <3>3
    <3>4. CASE j # d + 1
      <4>1. j \in 1..d /\ s[j] = t[j]
        BY <2>4, <3>4
      <4> QED
        BY <1>3, <2>6, <3>1, <3>2, <4>1 DEF Rising
    <3> QED
      BY <3>3, <3>4
  <2>7. Rising(s, d + 1)
    BY <2>6 DEF Rising
  <2> QED
    BY <1>2, <2>2, <2>5, <2>7 DEF Ordered
<1> QED
  BY <1>4, <1>5

LEMMA AlwaysOrder ==
  ASSUME NEW n \in Nat
  PROVE  HasOrder(n)
<1> DEFINE Bad == {m \in Nat : ~HasOrder(m)}
<1>1. SUFFICES ASSUME Bad # {}
               PROVE  FALSE
  OBVIOUS
<1>2. PICK m \in Bad : \A k \in Bad : m <= k
  BY <1>1, LeastOf
<1>3. HasOrder(0)
  <2>1. \A S \in SUBSET (1..0) : S = {}
    OBVIOUS
  <2>2. IsFiniteSet({}) /\ Cardinality({}) = 0
    BY FS_EmptySet
  <2>3. \E s \in [1..0 -> {}] : Rising(s, 0)
    <3>1. [i \in 1..0 |-> i] \in [1..0 -> {}]
      OBVIOUS
    <3> QED
      BY <3>1 DEF Rising
  <2>4. Ordered({})
    <3>1. PICK s \in [1..0 -> {}] : Rising(s, 0)
      BY <2>3
    <3>2. 1..Cardinality({}) = 1..0
      BY <2>2
    <3>3. s \in [1..Cardinality({}) -> {}] /\ Rising(s, Cardinality({}))
      BY <2>2, <3>1, <3>2, Zenon
    <3>4. Cardinality({}) \in Nat
      BY <2>2
    <3> QED
      BY <2>2, <3>3, <3>4, Zenon DEF Ordered
  <2> QED
    BY <2>1, <2>4 DEF HasOrder
<1>4. m \in Nat /\ m # 0
  BY <1>2, <1>3
<1>5. m - 1 \in Nat /\ HasOrder(m - 1)
  BY <1>2, <1>4
<1>6. HasOrder((m - 1) + 1)
  BY <1>5, NextOrder
<1>7. (m - 1) + 1 = m
  BY <1>4
<1> QED
  BY <1>2, <1>6, <1>7

\* InOrder lists some numbers up to n, each once.
LEMMA InOrderLists ==
  ASSUME NEW n \in Nat, NEW S \in SUBSET (1..n)
  PROVE  LET s == InOrder(S) IN
         /\ s \in Seq(S) /\ Len(s) \in Nat /\ s \in [1..Len(s) -> S]
         /\ \A i, j \in 1..Len(s) : s[i] = s[j] => i = j
         /\ \A x \in S : \E i \in 1..Len(s) : s[i] = x
<1> DEFINE c == Cardinality(S)
           s == InOrder(S)
<1>1. /\ IsFiniteSet(S) /\ c \in Nat
      /\ \E t \in [1..c -> S] : Rising(t, c)
  BY AlwaysOrder DEF HasOrder, Ordered
<1>2. \E t \in [1..c -> S] : \A i, j \in DOMAIN t : i < j => t[i] < t[j]
  <2>1. PICK t \in [1..c -> S] : Rising(t, c)
    BY <1>1
  <2>2. DOMAIN t = 1..c
    BY <2>1
  <2> QED
    BY <2>1, <2>2 DEF Rising
<1>3. s \in [1..c -> S] /\ \A i, j \in 1..c : i < j => s[i] < s[j]
  BY <1>2 DEF InOrder
<1> HIDE DEF s
<1>4. ASSUME NEW i \in 1..c
      PROVE  s[i] \in Nat
  <2>1. s[i] \in S
    BY <1>3
  <2>2. s[i] \in 1..n
    BY <2>1
  <2> QED
    BY <2>2
<1>5. \A i, j \in 1..c : s[i] = s[j] => i = j
  <2> SUFFICES ASSUME NEW i \in 1..c, NEW j \in 1..c, s[i] = s[j], i # j
               PROVE  FALSE
    OBVIOUS
  <2>1. i < j \/ j < i
    BY <1>1
  <2> QED
    BY <1>3, <1>4, <2>1
<1>6. IsFiniteSet(1..c) /\ Cardinality(1..c) = c
  BY <1>1, FS_Interval
<1>7. s \in Injection(1..c, S)
  BY <1>3, <1>5 DEF Injection, IsInjective
<1>8. s \in Surjection(1..c, S)
  BY <1>1, <1>6, <1>7, FS_Injection
<1> HIDE DEF c
<1>9. s \in Seq(S) /\ Len(s) = c
  BY <1>1, <1>3
<1> QED
  BY <1>1, <1>3, <1>5, <1>8, <1>9 DEF Surjection, s

-----------------------------------------------------------------------------
(* What updated() makes of a list.                                           *)

\* A list of the right shape, and a bound on the tickets it knows of.
Bounded(l) == \E n \in Nat : /\ \A t \in DOMAIN l.tickets : t <= n
                             /\ \A i \in DOMAIN l.rows : l.rows[i].ticket <= n
WellTyped(l) ==
  /\ l = [rows |-> l.rows, index |-> l.index, tickets |-> l.tickets]
  /\ l.rows \in Seq(Row)
  /\ DOMAIN l.index \subseteq Id /\ l.index \in [DOMAIN l.index -> Nat \ {0}]
  /\ DOMAIN l.tickets \subseteq Nat \ {0} /\ l.tickets \in [DOMAIN l.tickets -> Ticket]
  /\ Bounded(l)

Added(l) == Present(scan.mods) \ DOMAIN l.index
Fresh(l) == Changed(l) \cup Added(l)
Gone(l) == RowsOf(l, DOMAIN l.index \ Present(scan.mods))
Left(l) == DOMAIN l.rows \ Gone(l)
Kept(l) == DOMAIN l.tickets \ Resolving(l, RowsOf(l, Changed(l)) \cup Gone(l))
Becomes(l, i, id) == id \in Changed(l) /\ l.index[id] = i
newTicket(id) == [id |-> id, read |-> FALSE, details |-> 0]

\* s[1], ... s[c] are the members of S, each once.
Lists(s, c, S) == /\ c \in Nat /\ s \in [1..c -> S]
                  /\ \A i, j \in 1..c : s[i] = s[j] => i = j
                  /\ \A x \in S : \E i \in 1..c : s[i] = x

\* New tickets, each for one id.
Numbers(tk, l) ==
  /\ tk \in [Fresh(l) -> Nat \ {0}]
  /\ \A id, jd \in Fresh(l) : tk[id] = tk[jd] => id = jd
  /\ \A id \in Fresh(l) : /\ \A t \in DOMAIN l.tickets : t < tk[id]
                          /\ \A i \in DOMAIN l.rows : l.rows[i].ticket < tk[id]
  /\ \E n \in Nat : \A id \in Fresh(l) : tk[id] <= n

\* The rows of u: those of l that are left, as they are or anew, and those that were added.
RowsAre(l, u, s, c, a, d, tk) ==
  /\ Lists(s, c, Left(l)) /\ Lists(a, d, Added(l))
  /\ DOMAIN u.rows = 1..(c + d) /\ u.rows \in Seq(Row)
  /\ \A k \in 1..c : \/ /\ \A id \in Id : ~Becomes(l, s[k], id)
                        /\ u.rows[k] = l.rows[s[k]]
                     \/ \E id \in Id : /\ Becomes(l, s[k], id)
                                       /\ u.rows[k] = newRow(id, scan.mods[id], tk[id])
  /\ \A k \in 1..d : u.rows[c + k] = newRow(a[k], scan.mods[a[k]], tk[a[k]])
TicketsAre(l, u, tk) ==
  /\ u.tickets = [t \in DOMAIN u.tickets |-> u.tickets[t]]
  /\ DOMAIN u.tickets = {tk[id] : id \in Fresh(l)} \cup Kept(l)
  /\ \A id \in Fresh(l) : u.tickets[tk[id]] = newTicket(id)
  /\ \A t \in Kept(l) : u.tickets[t] = l.tickets[t]
Renewed(l, u, s, c, a, d, tk) ==
  /\ u = [rows |-> u.rows, index |-> u.index, tickets |-> u.tickets]
  /\ Numbers(tk, l) /\ RowsAre(l, u, s, c, a, d, tk) /\ TicketsAre(l, u, tk)
  /\ u.index = reindex(u.rows)

LEMMA IdsFinite == IsFiniteSet(Id)
<1>1. IsFiniteSet(BOOLEAN)
  <2>1. BOOLEAN = {TRUE} \cup {FALSE}
    OBVIOUS
  <2>2. IsFiniteSet({TRUE})
    BY FS_Singleton
  <2>3. IsFiniteSet({TRUE} \cup {FALSE})
    BY <2>2, FS_AddElement
  <2> QED
    BY <2>1, <2>3
<1> QED
  BY <1>1, ModFolderAssumption, FS_Product DEF Id

\* The next ticket is above all the others.
LEMMA NextTicket ==
  ASSUME NEW l, WellTyped(l)
  PROVE  /\ nextTicket(l) \in Nat \ {0}
         /\ \A t \in DOMAIN l.tickets : t < nextTicket(l)
         /\ \A i \in DOMAIN l.rows : l.rows[i].ticket < nextTicket(l)
<1> DEFINE S == {0} \cup DOMAIN l.tickets \cup {row.ticket : row \in ToSet(l.rows)}
<1>1. \A row \in ToSet(l.rows) : \E i \in DOMAIN l.rows : row = l.rows[i]
  BY DEF ToSet
<1>2. \A i \in DOMAIN l.rows : l.rows[i] \in ToSet(l.rows) /\ l.rows[i] \in Row
  BY DEF ToSet, WellTyped
<1>3. \A i \in DOMAIN l.rows : l.rows[i].ticket \in Nat /\ l.rows[i].ticket \in S
  BY <1>2 DEF Row
<1>4. \A x \in S : x = 0 \/ x \in DOMAIN l.tickets \/ \E i \in DOMAIN l.rows : x = l.rows[i].ticket
  BY <1>1
<1>5. S \in SUBSET Nat /\ S # {}
  BY <1>3, <1>4 DEF WellTyped
<1>6. PICK n \in Nat : /\ \A t \in DOMAIN l.tickets : t <= n
                       /\ \A i \in DOMAIN l.rows : l.rows[i].ticket <= n
  BY DEF WellTyped, Bounded
<1>7. \A x \in S : x <= n
  BY <1>4, <1>6
<1>8. DOMAIN l.tickets \subseteq S
  OBVIOUS
<1>9. nextTicket(l) = 1 + Max(S)
  BY DEF nextTicket
<1> HIDE DEF S
<1>10. Max(S) \in S /\ \A x \in S : x <= Max(S)
  BY <1>5, <1>7, MaxIsMember
<1>11. Max(S) \in Nat /\ \A x \in S : x \in Nat
  BY <1>5, <1>10
<1> QED
  BY <1>3, <1>8, <1>9, <1>10, <1>11

LEMMA Enumerated ==
  ASSUME NEW l, WellTyped(l), scan.mods \in Folder
  PROVE  /\ Changed(l) \subseteq Id /\ Added(l) \subseteq Id
         /\ Lists(SetToSeq(Added(l)), Len(SetToSeq(Added(l))), Added(l))
         /\ Lists(SetToSeq(Changed(l)), Len(SetToSeq(Changed(l))), Changed(l))
         /\ SetToSeq(Added(l)) \in Seq(Id) /\ SetToSeq(Changed(l)) \in Seq(Id)
<1>1. Changed(l) \in SUBSET Id /\ Added(l) \in SUBSET Id
  BY DEF Changed, Added, Present
<1>2. IsFiniteSet(Changed(l)) /\ IsFiniteSet(Added(l))
  BY <1>1, IdsFinite, FS_Subset
<1>3. \A S \in SUBSET Id : SetToSeq(S) \in Seq(S) => SetToSeq(S) \in Seq(Id)
  BY SeqMonotonic
<1> QED
  BY <1>1, <1>2, <1>3, Listing DEF Lists

LEMMA Updating ==
  ASSUME NEW l, WellTyped(l), scan.mods \in Folder
  PROVE  \E s, c, a, d, tk : Renewed(l, updated(l), s, c, a, d, tk)
<1> DEFINE a == SetToSeq(Added(l))
           d == Len(a)
           b == SetToSeq(Changed(l))
           e == Len(b)
           todo == b \o a
           first == nextTicket(l)
           at(id) == CHOOSE k \in DOMAIN todo : todo[k] = id
           ticket(id) == first + CHOOSE k \in DOMAIN todo : todo[k] = id
           new(id) == newRow(id, scan.mods[id], ticket(id))
           s == InOrder(Left(l))
           c == Len(s)
           Now(i) == IF \E id \in Changed(l) : l.index[id] = i
                     THEN new(CHOOSE id \in Changed(l) : l.index[id] = i) ELSE l.rows[i]
           old == [k \in DOMAIN s |-> Now(s[k])]
           more == [k \in DOMAIN a |-> new(a[k])]
           tickets == [t \in {ticket(id) : id \in ToSet(todo)} \cup Kept(l) |->
                         IF t \in Kept(l) THEN l.tickets[t]
                         ELSE [id |-> todo[t - first], read |-> FALSE, details |-> 0]]
           u == updated(l)
           tk == [id \in Fresh(l) |-> ticket(id)]
<1>u. /\ u.rows = old \o more
      /\ u.index = reindex(u.rows)
      /\ u.tickets = tickets
      /\ u = [rows |-> u.rows, index |-> u.index, tickets |-> u.tickets]
  BY DEF updated, Added, Left, Gone, Kept
<1> HIDE DEF u
<1>1. /\ Lists(a, d, Added(l)) /\ Lists(b, e, Changed(l))
      /\ a \in Seq(Id) /\ b \in Seq(Id)
      /\ Changed(l) \subseteq Id /\ Added(l) \subseteq Id
  BY Enumerated
<1>2. /\ Lists(s, c, Left(l))
      /\ \A k \in 1..c : s[k] \in DOMAIN l.rows
      /\ DOMAIN s = 1..c
  <2>1. Len(l.rows) \in Nat /\ DOMAIN l.rows = 1..Len(l.rows)
    BY DEF WellTyped
  <2>2. Left(l) \in SUBSET (1..Len(l.rows))
    BY <2>1 DEF Left
  <2>3. Lists(s, c, Left(l))
    BY <2>1, <2>2, InOrderLists DEF Lists
  <2> QED
    BY <2>1, <2>2, <2>3 DEF Lists
<1>3. first \in Nat \ {0}
  BY NextTicket
<1> HIDE DEF a, b, s, first
<1>4. /\ d \in Nat /\ e \in Nat
      /\ DOMAIN a = 1..d /\ DOMAIN b = 1..e
      /\ todo \in Seq(Id) /\ Len(todo) = e + d /\ DOMAIN todo = 1..(e + d)
      /\ \A k \in 1..e : todo[k] = b[k]
      /\ \A k \in 1..d : todo[e + k] = a[k]
  BY <1>1
<1> HIDE DEF d, e, todo
<1>5. ASSUME NEW id \in Fresh(l)
      PROVE  \E k \in DOMAIN todo : todo[k] = id
  <2>1. CASE id \in Changed(l)
    <3>1. PICK k \in 1..e : b[k] = id
      BY <1>1, <2>1 DEF Lists
    <3> QED
      BY <1>4, <3>1
  <2>2. CASE id \in Added(l)
    <3>1. PICK k \in 1..d : a[k] = id
      BY <1>1, <2>2 DEF Lists
    <3>2. e + k \in DOMAIN todo
      BY <1>4
    <3> QED
      BY <1>4, <3>1, <3>2
  <2> QED
    BY <2>1, <2>2 DEF Fresh
<1>6. ASSUME NEW k \in DOMAIN todo
      PROVE  todo[k] \in Fresh(l)
  <2>1. CASE k \in 1..e
    BY <1>1, <1>4, <2>1 DEF Lists, Fresh
  <2>2. CASE k \notin 1..e
    <3>1. k - e \in 1..d /\ e + (k - e) = k
      BY <1>4, <2>2
    <3>2. todo[k] = a[k - e]
      BY <1>4, <3>1
    <3> QED
      BY <1>1, <3>1, <3>2 DEF Lists, Fresh
  <2> QED
    BY <2>1, <2>2
<1>7. ToSet(todo) = Fresh(l)
  BY <1>5, <1>6 DEF ToSet
<1>8. ASSUME NEW id \in Fresh(l)
      PROVE  /\ ticket(id) \in Nat \ {0} /\ ticket(id) > first /\ ticket(id) <= first + e + d
             /\ todo[ticket(id) - first] = id
  <2>1. at(id) \in DOMAIN todo /\ todo[at(id)] = id
    BY <1>5
  <2>2. ticket(id) = first + at(id)
    OBVIOUS
  <2> HIDE DEF at, ticket
  <2>3. at(id) \in 1..(e + d) /\ ticket(id) - first = at(id)
    BY <1>3, <1>4, <2>1, <2>2
  <2> QED
    BY <1>3, <1>4, <2>1, <2>2, <2>3
<1>9. \A id \in Fresh(l) : tk[id] = ticket(id)
  OBVIOUS
<1> HIDE DEF ticket, tk
<1>10. Numbers(tk, l)
  <2>1. tk \in [Fresh(l) -> Nat \ {0}]
    BY <1>8, <1>9 DEF tk
  <2>2. \A id, jd \in Fresh(l) : tk[id] = tk[jd] => id = jd
    BY <1>8, <1>9
  <2>3. \A id \in Fresh(l) : /\ \A t \in DOMAIN l.tickets : t < tk[id]
                             /\ \A i \in DOMAIN l.rows : l.rows[i].ticket < tk[id]
    <3>1. /\ \A t \in DOMAIN l.tickets : t < first /\ t \in Nat
          /\ \A i \in DOMAIN l.rows : l.rows[i].ticket < first /\ l.rows[i].ticket \in Nat
      <4>1. \A i \in DOMAIN l.rows : l.rows[i] \in Row
        BY DEF WellTyped
      <4>2. \A i \in DOMAIN l.rows : l.rows[i].ticket \in Nat
        BY <4>1 DEF Row
      <4>3. \A t \in DOMAIN l.tickets : t \in Nat
        BY DEF WellTyped
      <4> QED
        BY <4>2, <4>3, NextTicket DEF first
    <3> QED
      BY <1>3, <1>8, <1>9, <3>1
  <2>4. first + e + d \in Nat /\ \A id \in Fresh(l) : tk[id] <= first + e + d
    BY <1>3, <1>4, <1>8, <1>9
  <2> QED
    BY <2>1, <2>2, <2>3, <2>4 DEF Numbers
<1>11. TicketsAre(l, u, tk)
  <2>1. \A t \in Kept(l) : t \in DOMAIN l.tickets /\ t \in Nat
    BY DEF Kept, WellTyped
  <2>2. \A id \in Fresh(l) : tk[id] \notin Kept(l)
    BY <1>10, <2>1 DEF Numbers
  <2>3. DOMAIN tickets = {tk[id] : id \in Fresh(l)} \cup Kept(l)
    BY <1>7, <1>9
  <2>4. \A id \in Fresh(l) : tickets[tk[id]] = newTicket(id)
    BY <1>7, <1>8, <1>9, <2>2 DEF newTicket
  <2>5. \A t \in Kept(l) : tickets[t] = l.tickets[t]
    OBVIOUS
  <2>6. tickets = [t \in DOMAIN tickets |-> tickets[t]]
    OBVIOUS
  <2> HIDE DEF tickets
  <2> QED
    BY <1>u, <2>3, <2>4, <2>5, <2>6 DEF TicketsAre
<1>12. ASSUME NEW id \in Fresh(l)
       PROVE  new(id) = newRow(id, scan.mods[id], tk[id]) /\ new(id) \in Row
  <2>1. id \in Id /\ scan.mods[id] \in Time /\ tk[id] \in Nat
    BY <1>1, <1>10 DEF Fresh, Folder, Numbers
  <2>2. 0 \in Time
    BY ModFolderAssumption DEF Time
  <2> QED
    BY <1>9, <2>1, <2>2 DEF newRow, Row
<1> HIDE DEF new
<1>13. ASSUME NEW k \in 1..c
       PROVE  \/ /\ \A id \in Id : ~Becomes(l, s[k], id)
                 /\ Now(s[k]) = l.rows[s[k]]
              \/ \E id \in Id : /\ Becomes(l, s[k], id)
                                /\ Now(s[k]) = newRow(id, scan.mods[id], tk[id])
  <2>1. CASE \E id \in Changed(l) : l.index[id] = s[k]
    <3>1. PICK id \in Changed(l) : l.index[id] = s[k] /\ Now(s[k]) = new(id)
      BY <2>1
    <3> QED
      BY <1>1, <1>12, <3>1 DEF Becomes, Fresh
  <2>2. CASE ~\E id \in Changed(l) : l.index[id] = s[k]
    BY <2>2 DEF Becomes
  <2> QED
    BY <2>1, <2>2
<1> HIDE DEF Now
<1>14. ASSUME NEW k \in 1..c
       PROVE  Now(s[k]) \in Row
  <2>1. \A i \in DOMAIN l.rows : l.rows[i] \in Row
    BY DEF WellTyped
  <2>2. \A id \in Changed(l) : newRow(id, scan.mods[id], tk[id]) \in Row
    BY <1>12 DEF Fresh
  <2> QED
    BY <1>2, <1>13, <2>1, <2>2 DEF Becomes
<1>15. \A k \in 1..d : a[k] \in Added(l) /\ a[k] \in Fresh(l)
  BY <1>1 DEF Lists, Fresh
<1>16. c \in Nat
  BY <1>2 DEF Lists
<1>17. old \in Seq(Row) /\ Len(old) = c
  BY <1>2, <1>14, <1>16
<1>18. more \in Seq(Row) /\ Len(more) = d
  BY <1>4, <1>12, <1>15
<1>19. \A k \in 1..c : old[k] = Now(s[k])
  BY <1>2
<1>20. \A k \in 1..d : more[k] = new(a[k])
  BY <1>4
<1> HIDE DEF old, more, c
<1>21. /\ u.rows \in Seq(Row) /\ Len(u.rows) = c + d
       /\ \A k \in 1..c : u.rows[k] = old[k]
       /\ \A k \in 1..d : u.rows[c + k] = more[k]
  <2>1. d \in Nat /\ c \in Nat /\ u.rows = old \o more
    BY <1>u, <1>4, <1>16
  <2>2. /\ old \o more \in Seq(Row) /\ Len(old \o more) = c + d
        /\ \A k \in 1..(c + d) : (old \o more)[k] = IF k <= c THEN old[k] ELSE more[k - c]
    BY <2>1, <1>17, <1>18, ConcatProperties
  <2>3. ASSUME NEW k \in 1..c
        PROVE  u.rows[k] = old[k]
    BY <2>1, <2>2
  <2>4. ASSUME NEW k \in 1..d
        PROVE  u.rows[c + k] = more[k]
    <3>1. c + k \in 1..(c + d) /\ ~(c + k <= c) /\ (c + k) - c = k
      BY <2>1
    <3> QED
      BY <2>1, <2>2, <3>1
  <2> QED
    BY <2>1, <2>2, <2>3, <2>4
<1>22. RowsAre(l, u, s, c, a, d, tk)
  <2>1. DOMAIN u.rows = 1..(c + d)
    BY <1>21
  <2>2. \A k \in 1..d : u.rows[c + k] = newRow(a[k], scan.mods[a[k]], tk[a[k]])
    BY <1>12, <1>15, <1>20, <1>21
  <2> QED
    BY <1>1, <1>2, <1>13, <1>19, <1>21, <2>1, <2>2 DEF RowsAre
<1> QED
  BY <1>u, <1>10, <1>11, <1>22 DEF Renewed, u

\* The index of some rows.
LEMMA Reindexed ==
  ASSUME NEW rows \in Seq(Row)
  PROVE  /\ DOMAIN reindex(rows) \subseteq Id
         /\ \A i \in DOMAIN rows : rows[i].id \in DOMAIN reindex(rows)
         /\ \A id \in DOMAIN reindex(rows) : /\ reindex(rows)[id] \in DOMAIN rows
                                             /\ rows[reindex(rows)[id]].id = id
         /\ reindex(rows) \in [DOMAIN reindex(rows) -> Nat \ {0}]
<1> DEFINE D == {row.id : row \in ToSet(rows)}
           At(id) == {i \in DOMAIN rows : rows[i].id = id}
<1>1. Len(rows) \in Nat /\ DOMAIN rows = 1..Len(rows) /\ \A i \in DOMAIN rows : rows[i] \in Row
  OBVIOUS
<1>2. \A id \in D : \E i \in DOMAIN rows : rows[i].id = id
  BY DEF ToSet
<1>3. \A i \in DOMAIN rows : rows[i].id \in D /\ rows[i].id \in Id
  BY <1>1 DEF ToSet, Row
<1>4. reindex(rows) = [id \in D |-> Max(At(id))]
  BY DEF reindex
<1> HIDE DEF D
<1>5. ASSUME NEW id \in D
      PROVE  Max(At(id)) \in DOMAIN rows /\ rows[Max(At(id))].id = id
  <2>1. At(id) \in SUBSET Nat /\ At(id) # {}
    BY <1>1, <1>2
  <2>2. \A i \in At(id) : i <= Len(rows)
    BY <1>1
  <2> HIDE DEF At
  <2>3. Max(At(id)) \in At(id)
    BY <1>1, <2>1, <2>2, MaxIsMember
  <2> QED
    BY <2>3 DEF At
<1> HIDE DEF At
<1>6. /\ DOMAIN reindex(rows) = D
      /\ \A id \in D : reindex(rows)[id] = Max(At(id))
  BY <1>4
<1>7. \A id \in D : reindex(rows)[id] \in Nat \ {0}
  BY <1>1, <1>5, <1>6
<1>8. reindex(rows) \in [D -> Nat \ {0}]
  BY <1>4, <1>6, <1>7
<1> QED
  BY <1>2, <1>3, <1>5, <1>6, <1>8

LEMMA UpdatedTyped ==
  ASSUME NEW l, WellTyped(l), scan.mods \in Folder
  PROVE  WellTyped(updated(l))
<1> DEFINE u == updated(l)
<1>1. \E s, c, a, d, tk : Renewed(l, u, s, c, a, d, tk)
  BY Updating
<1> HIDE DEF u
<1>2. PICK s, c, a, d, tk : Renewed(l, u, s, c, a, d, tk)
  BY <1>1
<1>3. Numbers(tk, l) /\ RowsAre(l, u, s, c, a, d, tk) /\ TicketsAre(l, u, tk)
  BY <1>2 DEF Renewed
<1>4. u.rows \in Seq(Row) /\ c \in Nat /\ d \in Nat /\ DOMAIN u.rows = 1..(c + d)
  BY <1>3 DEF RowsAre, Lists
<1>5. u = [rows |-> u.rows, index |-> u.index, tickets |-> u.tickets] /\ u.index = reindex(u.rows)
  BY <1>2 DEF Renewed
<1>6. DOMAIN u.index \subseteq Id /\ u.index \in [DOMAIN u.index -> Nat \ {0}]
  BY <1>4, <1>5, Reindexed
<1>7. DOMAIN u.tickets \subseteq Nat \ {0} /\ u.tickets \in [DOMAIN u.tickets -> Ticket]
  <2>1. \A id \in Fresh(l) : tk[id] \in Nat \ {0} /\ newTicket(id) \in Ticket
    <3>1. Fresh(l) \subseteq Id
      BY Enumerated DEF Fresh
    <3>2. 0 \in Time
      BY ModFolderAssumption DEF Time
    <3> QED
      BY <1>3, <3>1, <3>2 DEF Numbers, newTicket, Ticket
  <2>2. \A t \in Kept(l) : t \in Nat \ {0} /\ l.tickets[t] \in Ticket
    BY DEF Kept, WellTyped
  <2>3. \A t \in DOMAIN u.tickets : t \in Nat \ {0} /\ u.tickets[t] \in Ticket
    BY <1>3, <2>1, <2>2 DEF TicketsAre
  <2>4. u.tickets = [t \in DOMAIN u.tickets |-> u.tickets[t]]
    BY <1>3 DEF TicketsAre
  <2> QED
    BY <2>3, <2>4
<1>8. Bounded(u)
  <2>1. PICK m \in Nat : /\ \A t \in DOMAIN l.tickets : t <= m
                         /\ \A i \in DOMAIN l.rows : l.rows[i].ticket <= m
    BY DEF WellTyped, Bounded
  <2>2. PICK n \in Nat : \A id \in Fresh(l) : tk[id] <= n
    BY <1>3 DEF Numbers
  <2>3. \A id \in Fresh(l) : tk[id] \in Nat
    BY <1>3 DEF Numbers
  <2>4. \A t \in DOMAIN u.tickets : t <= m + n
    <3>1. \A t \in Kept(l) : t \in Nat /\ t <= m
      BY <2>1 DEF Kept, WellTyped
    <3>2. \A t \in Kept(l) : t <= m + n
      BY <3>1
    <3>3. \A id \in Fresh(l) : tk[id] <= m + n
      BY <2>2, <2>3
    <3> QED
      BY <1>3, <3>2, <3>3 DEF TicketsAre
  <2>5. ASSUME NEW k \in DOMAIN u.rows
        PROVE  u.rows[k].ticket <= m + n
    <3>1. \A i \in DOMAIN l.rows : l.rows[i].ticket \in Nat
      <4>1. \A i \in DOMAIN l.rows : l.rows[i] \in Row
        BY DEF WellTyped
      <4> QED
        BY <4>1 DEF Row
    <3>2. CASE k \in 1..c
      <4>1. s[k] \in DOMAIN l.rows
        BY <1>3, <3>2 DEF RowsAre, Lists, Left
      <4>2. CASE u.rows[k] = l.rows[s[k]]
        BY <2>1, <3>1, <4>1, <4>2
      <4>3. ASSUME NEW id \in Id, Becomes(l, s[k], id),
                   u.rows[k] = newRow(id, scan.mods[id], tk[id])
            PROVE  u.rows[k].ticket <= m + n
        <5>1. id \in Fresh(l) /\ u.rows[k].ticket = tk[id]
          BY <4>3 DEF Becomes, Fresh, newRow
        <5> QED
          BY <2>2, <2>3, <5>1
      <4> QED
        BY <1>3, <3>2, <4>2, <4>3 DEF RowsAre
    <3>3. CASE k \notin 1..c
      <4>1. k - c \in 1..d /\ c + (k - c) = k
        BY <1>4, <3>3
      <4>2. a[k - c] \in Fresh(l) /\ u.rows[k].ticket = tk[a[k - c]]
        <5>1. u.rows[k] = newRow(a[k - c], scan.mods[a[k - c]], tk[a[k - c]])
          BY <1>3, <4>1 DEF RowsAre
        <5>2. a[k - c] \in Added(l)
          BY <1>3, <4>1 DEF RowsAre, Lists
        <5> QED
          BY <5>1, <5>2 DEF newRow, Fresh
      <4> QED
        BY <2>2, <2>3, <4>2
    <3> QED
      BY <3>2, <3>3
  <2>6. m + n \in Nat
    OBVIOUS
  <2> QED
    BY <2>4, <2>5, <2>6 DEF Bounded
<1> QED
  BY <1>4, <1>5, <1>6, <1>7, <1>8 DEF WellTyped, u

-----------------------------------------------------------------------------
(* A list that tells the truth.                                              *)

\* Times that files have had.
Used == (1..changes) \cup {MaxChanges + 1}
UsedTimes(l) == \A i \in DOMAIN l.rows : l.rows[i].time \in Used
UsedFiles(f) == \A id \in Id : f[id] # 0 => f[id] \in Used

\* The index leads from each id to its row, each mod that is resolved has its own ticket,
\* and what was read for the file that a row is about was read from that file f has.
Indexed(l) ==
  /\ \A id \in DOMAIN l.index : l.index[id] \in DOMAIN l.rows /\ l.rows[l.index[id]].id = id
  /\ \A i \in DOMAIN l.rows : l.rows[i].id \in DOMAIN l.index /\ l.index[l.rows[i].id] = i
Ticketed(l) ==
  /\ \A i \in DOMAIN l.rows : l.rows[i].ticket # 0 =>
       l.rows[i].ticket \in DOMAIN l.tickets /\ l.tickets[l.rows[i].ticket].id = l.rows[i].id
  /\ \A t \in DOMAIN l.tickets : \E i \in DOMAIN l.rows : l.rows[i].ticket = t
Genuine(l, row) == IF row.ticket = 0 THEN row.details = row.time
                   ELSE l.tickets[row.ticket].read => l.tickets[row.ticket].details = row.time
Accurate(l, f) ==
  \A i \in DOMAIN l.rows : f[l.rows[i].id] = l.rows[i].time => Genuine(l, l.rows[i])
Matches(l, f) == /\ \A i \in DOMAIN l.rows : /\ l.rows[i].id \in Present(f)
                                             /\ l.rows[i].time = f[l.rows[i].id]
                 /\ \A id \in Present(f) : \E i \in DOMAIN l.rows : l.rows[i].id = id
True(l, f) == Indexed(l) /\ Ticketed(l) /\ Accurate(l, f)

\* What is left of a list is listed, in the places of s, and has its tickets.
LEMMA LeftRows ==
  ASSUME NEW l, WellTyped(l), Indexed(l), Ticketed(l), scan.mods \in Folder,
         NEW s, NEW c, Lists(s, c, Left(l)), NEW k \in 1..c
  PROVE  /\ s[k] \in DOMAIN l.rows /\ l.rows[s[k]].id \in DOMAIN l.index
         /\ l.rows[s[k]].id \in Present(scan.mods)
         /\ \A id \in Id : Becomes(l, s[k], id) => l.rows[s[k]].id = id
         /\ (\A id \in Id : ~Becomes(l, s[k], id)) =>
              /\ l.rows[s[k]].time = scan.mods[l.rows[s[k]].id]
              /\ l.rows[s[k]].ticket # 0 => l.rows[s[k]].ticket \in Kept(l)
<1> DEFINE i == s[k]
           id == l.rows[i].id
<1>1. i \in DOMAIN l.rows /\ i \notin Gone(l)
  BY DEF Lists, Left
<1>2. id \in DOMAIN l.index /\ l.index[id] = i
  BY <1>1 DEF Indexed
<1>3. id \in Id
  BY <1>2 DEF WellTyped
<1> HIDE DEF i
<1>4. id \in Present(scan.mods)
  BY <1>1, <1>2 DEF Gone, RowsOf
<1>5. \A jd \in Id : Becomes(l, i, jd) => id = jd
  BY <1>2 DEF Becomes, Indexed, Changed
<1>6. ASSUME \A jd \in Id : ~Becomes(l, i, jd)
      PROVE  /\ l.rows[i].time = scan.mods[id]
             /\ l.rows[i].ticket # 0 => l.rows[i].ticket \in Kept(l)
  <2>1. id \notin Changed(l)
    BY <1>2, <1>3, <1>6 DEF Becomes
  <2>2. l.rows[i].time = scan.mods[id]
    BY <1>1, <1>2, <1>4, <2>1 DEF Changed
  <2>3. SUFFICES ASSUME l.rows[i].ticket # 0, l.rows[i].ticket \notin Kept(l)
                 PROVE  FALSE
    BY <2>2
  <2>4. l.rows[i].ticket \in DOMAIN l.tickets /\ l.tickets[l.rows[i].ticket].id = id
    BY <1>1, <2>3 DEF Ticketed
  <2>5. PICK j \in (RowsOf(l, Changed(l)) \cup Gone(l)) \cap DOMAIN l.rows :
               l.rows[j].ticket = l.rows[i].ticket
    BY <2>3, <2>4 DEF Kept, Resolving
  <2>6. l.rows[j].id = id
    BY <2>3, <2>4, <2>5 DEF Ticketed
  <2>7. j = i
    BY <1>1, <2>5, <2>6 DEF Indexed
  <2>8. PICK jd \in Changed(l) : i = l.index[jd]
    BY <1>1, <2>5, <2>7 DEF RowsOf
  <2> QED
    BY <1>6, <2>8 DEF Becomes, Changed, Present
<1> QED
  BY <1>1, <1>2, <1>4, <1>5, <1>6 DEF i

\* Each row of an updated list is about a file that the scan has seen.
LEMMA UpdatedRows ==
  ASSUME NEW l, WellTyped(l), Indexed(l), Ticketed(l), scan.mods \in Folder,
         NEW u, NEW s, NEW c, NEW a, NEW d, NEW tk, Renewed(l, u, s, c, a, d, tk)
  PROVE  /\ c \in Nat /\ d \in Nat /\ DOMAIN u.rows = 1..(c + d)
         /\ \A k \in 1..c : u.rows[k].id = l.rows[s[k]].id /\ u.rows[k].id \in DOMAIN l.index
         /\ \A k \in 1..d : /\ u.rows[c + k] = newRow(a[k], scan.mods[a[k]], tk[a[k]])
                            /\ a[k] \in Added(l) /\ u.rows[c + k].id = a[k]
         /\ \A k \in DOMAIN u.rows : \/ k \in 1..c
                                     \/ \E n \in 1..d : k = c + n
         /\ \A k \in DOMAIN u.rows : /\ u.rows[k].id \in Present(scan.mods)
                                     /\ u.rows[k].time = scan.mods[u.rows[k].id]
<1>1. RowsAre(l, u, s, c, a, d, tk)
  BY DEF Renewed
<1>2. /\ Lists(s, c, Left(l)) /\ Lists(a, d, Added(l))
      /\ c \in Nat /\ d \in Nat /\ DOMAIN u.rows = 1..(c + d)
  BY <1>1 DEF RowsAre, Lists
<1>3. ASSUME NEW k \in 1..c
      PROVE  /\ u.rows[k].id = l.rows[s[k]].id /\ u.rows[k].id \in DOMAIN l.index
             /\ u.rows[k].id \in Present(scan.mods) /\ u.rows[k].time = scan.mods[u.rows[k].id]
  <2>1. CASE (\A id \in Id : ~Becomes(l, s[k], id)) /\ u.rows[k] = l.rows[s[k]]
    BY <1>2, <2>1, LeftRows
  <2>2. ASSUME NEW id \in Id, Becomes(l, s[k], id),
               u.rows[k] = newRow(id, scan.mods[id], tk[id])
        PROVE  /\ u.rows[k].id = l.rows[s[k]].id /\ u.rows[k].id \in DOMAIN l.index
               /\ u.rows[k].id \in Present(scan.mods) /\ u.rows[k].time = scan.mods[u.rows[k].id]
    <3>1. u.rows[k].id = id /\ u.rows[k].time = scan.mods[id]
      BY <2>2 DEF newRow
    <3> QED
      BY <1>2, <2>2, <3>1, LeftRows
  <2> QED
    BY <1>1, <2>1, <2>2 DEF RowsAre
<1>4. ASSUME NEW k \in 1..d
      PROVE  /\ u.rows[c + k] = newRow(a[k], scan.mods[a[k]], tk[a[k]])
             /\ a[k] \in Added(l) /\ u.rows[c + k].id = a[k] /\ u.rows[c + k].time = scan.mods[a[k]]
  <2>1. u.rows[c + k] = newRow(a[k], scan.mods[a[k]], tk[a[k]])
    BY <1>1 DEF RowsAre
  <2>2. a[k] \in Added(l)
    BY <1>2 DEF Lists
  <2> QED
    BY <2>1, <2>2 DEF newRow
<1>5. ASSUME NEW k \in DOMAIN u.rows, k \notin 1..c
      PROVE  \E n \in 1..d : k = c + n
  <2>1. k - c \in 1..d /\ k = c + (k - c)
    BY <1>2, <1>5
  <2> QED
    BY <2>1
<1>6. \A k \in 1..d : a[k] \in Present(scan.mods)
  BY <1>4 DEF Added
<1>7. ASSUME NEW k \in DOMAIN u.rows
      PROVE  u.rows[k].id \in Present(scan.mods) /\ u.rows[k].time = scan.mods[u.rows[k].id]
  <2>1. CASE k \in 1..c
    BY <1>3, <2>1
  <2>2. CASE k \notin 1..c
    <3>1. PICK n \in 1..d : k = c + n
      BY <1>5, <2>2
    <3> QED
      BY <1>4, <1>6, <3>1
  <2> QED
    BY <2>1, <2>2
<1>8. \A k \in 1..c : u.rows[k].id = l.rows[s[k]].id /\ u.rows[k].id \in DOMAIN l.index
  BY <1>3
<1>9. \A k \in 1..d : /\ u.rows[c + k] = newRow(a[k], scan.mods[a[k]], tk[a[k]])
                      /\ a[k] \in Added(l) /\ u.rows[c + k].id = a[k]
  BY <1>4
<1> QED
  BY <1>2, <1>5, <1>7, <1>8, <1>9

\* No two rows of an updated list have one id.
LEMMA UpdatedIndexed ==
  ASSUME NEW l, WellTyped(l), Indexed(l), Ticketed(l), scan.mods \in Folder,
         NEW u, NEW s, NEW c, NEW a, NEW d, NEW tk, Renewed(l, u, s, c, a, d, tk)
  PROVE  Indexed(u)
<1>1. RowsAre(l, u, s, c, a, d, tk) /\ u.index = reindex(u.rows) /\ u.rows \in Seq(Row)
  BY DEF Renewed, RowsAre
<1>2. Lists(s, c, Left(l)) /\ Lists(a, d, Added(l))
  BY <1>1 DEF RowsAre
<1>0. /\ \A k \in 1..c : u.rows[k].id = l.rows[s[k]].id /\ u.rows[k].id \in DOMAIN l.index
      /\ \A k \in 1..d : a[k] \in Added(l) /\ u.rows[c + k].id = a[k]
      /\ \A k \in DOMAIN u.rows : k \in 1..c \/ \E n \in 1..d : k = c + n
  BY UpdatedRows
<1>3. ASSUME NEW j \in DOMAIN u.rows, NEW k \in DOMAIN u.rows, u.rows[j].id = u.rows[k].id
      PROVE  j = k
  <2>1. CASE j \in 1..c /\ k \in 1..c
    <3>1. l.rows[s[j]].id = l.rows[s[k]].id
      BY <1>0, <1>3, <2>1
    <3>2. s[j] \in DOMAIN l.rows /\ s[k] \in DOMAIN l.rows
      BY <1>2, <2>1 DEF Lists, Left
    <3>3. s[j] = s[k]
      BY <3>1, <3>2 DEF Indexed
    <3> QED
      BY <1>2, <2>1, <3>3 DEF Lists
  <2>2. CASE j \notin 1..c /\ k \notin 1..c
    <3>1. PICK m \in 1..d : j = c + m
      BY <1>0, <2>2
    <3>2. PICK n \in 1..d : k = c + n
      BY <1>0, <2>2
    <3>3. a[m] = a[n]
      BY <1>0, <1>3, <3>1, <3>2
    <3> QED
      BY <1>2, <3>1, <3>2, <3>3 DEF Lists
  <2>3. \A m \in 1..c, n \in 1..d : u.rows[m].id # u.rows[c + n].id
    <3>1. \A m \in 1..c : u.rows[m].id \in DOMAIN l.index
      BY <1>0
    <3>2. \A n \in 1..d : u.rows[c + n].id \in Added(l)
      BY <1>0
    <3> QED
      BY <3>1, <3>2 DEF Added
  <2>4. \A m \in DOMAIN u.rows : m \in 1..c \/ \E n \in 1..d : m = c + n
    BY <1>0
  <2> QED
    BY <1>3, <2>1, <2>2, <2>3, <2>4
<1> QED
  BY <1>1, <1>3, Reindexed DEF Indexed

\* The tickets of an updated list belong to its rows.
LEMMA UpdatedTicketed ==
  ASSUME NEW l, WellTyped(l), True(l, folder), scan.mods \in Folder,
         NEW u, NEW s, NEW c, NEW a, NEW d, NEW tk, Renewed(l, u, s, c, a, d, tk)
  PROVE  Ticketed(u) /\ Accurate(u, folder)
<1>1. RowsAre(l, u, s, c, a, d, tk) /\ TicketsAre(l, u, tk) /\ Numbers(tk, l)
  BY DEF Renewed
<1>2. Lists(s, c, Left(l)) /\ Lists(a, d, Added(l)) /\ c \in Nat
  BY <1>1 DEF RowsAre, Lists
<1>3. Indexed(l) /\ Ticketed(l) /\ Accurate(l, folder)
  BY DEF True
<1>4. /\ DOMAIN u.rows = 1..(c + d)
      /\ \A k \in 1..d : /\ u.rows[c + k] = newRow(a[k], scan.mods[a[k]], tk[a[k]])
                         /\ a[k] \in Added(l)
      /\ \A k \in DOMAIN u.rows : k \in 1..c \/ \E n \in 1..d : k = c + n
  BY <1>3, UpdatedRows
<1>5. ASSUME NEW id \in Fresh(l), NEW k, u.rows[k] = newRow(id, scan.mods[id], tk[id])
      PROVE  /\ u.rows[k].ticket \in DOMAIN u.tickets
             /\ u.tickets[u.rows[k].ticket].id = u.rows[k].id
             /\ Genuine(u, u.rows[k])
  <2>1. /\ u.rows[k].ticket = tk[id] /\ u.rows[k].id = id
        /\ tk[id] \in DOMAIN u.tickets /\ u.tickets[tk[id]] = newTicket(id) /\ tk[id] # 0
    BY <1>1, <1>5 DEF newRow, TicketsAre, Numbers
  <2> QED
    BY <2>1 DEF newTicket, Genuine
<1>6. ASSUME NEW k \in 1..c, u.rows[k] = l.rows[s[k]], \A id \in Id : ~Becomes(l, s[k], id)
      PROVE  /\ u.rows[k].ticket # 0 => /\ u.rows[k].ticket \in DOMAIN u.tickets
                                        /\ u.tickets[u.rows[k].ticket].id = u.rows[k].id
             /\ folder[u.rows[k].id] = u.rows[k].time => Genuine(u, u.rows[k])
  <2> DEFINE t == u.rows[k].ticket
  <2>1. s[k] \in DOMAIN l.rows /\ (t # 0 => t \in Kept(l))
    BY <1>2, <1>3, <1>6, LeftRows
  <2>2. t # 0 => t \in DOMAIN u.tickets /\ u.tickets[t] = l.tickets[t]
    BY <1>1, <2>1 DEF TicketsAre
  <2>3. t # 0 => l.tickets[t].id = u.rows[k].id
    BY <1>3, <1>6, <2>1 DEF Ticketed
  <2>4. folder[u.rows[k].id] = u.rows[k].time => Genuine(l, u.rows[k])
    BY <1>3, <1>6, <2>1 DEF Accurate
  <2> QED
    BY <2>2, <2>3, <2>4 DEF Genuine
<1>7. ASSUME NEW k \in DOMAIN u.rows
      PROVE  /\ u.rows[k].ticket # 0 => /\ u.rows[k].ticket \in DOMAIN u.tickets
                                        /\ u.tickets[u.rows[k].ticket].id = u.rows[k].id
             /\ folder[u.rows[k].id] = u.rows[k].time => Genuine(u, u.rows[k])
  <2>1. CASE k \in 1..c
    <3>1. CASE (\A id \in Id : ~Becomes(l, s[k], id)) /\ u.rows[k] = l.rows[s[k]]
      BY <1>6, <2>1, <3>1
    <3>2. CASE \E id \in Fresh(l) : u.rows[k] = newRow(id, scan.mods[id], tk[id])
      BY <1>5, <3>2
    <3> QED
      BY <1>1, <2>1, <3>1, <3>2 DEF RowsAre, Becomes, Fresh
  <2>2. CASE \E n \in 1..d : k = c + n
    <3>1. PICK n \in 1..d : k = c + n
      BY <2>2
    <3>2. a[n] \in Fresh(l) /\ u.rows[k] = newRow(a[n], scan.mods[a[n]], tk[a[n]])
      BY <1>4, <3>1 DEF Fresh
    <3> QED
      BY <1>5, <3>2
  <2> QED
    BY <1>4, <2>1, <2>2
<1>8. ASSUME NEW i \in Left(l)
      PROVE  /\ \E k \in 1..c : s[k] = i
             /\ \A k \in 1..c : k \in DOMAIN u.rows
  BY <1>2, <1>4 DEF Lists
<1>9. ASSUME NEW t \in DOMAIN u.tickets
      PROVE  \E k \in DOMAIN u.rows : u.rows[k].ticket = t
  <2>1. ASSUME NEW id \in Changed(l), t = tk[id]
        PROVE  \E k \in DOMAIN u.rows : u.rows[k].ticket = t
    <3>1. /\ id \in DOMAIN l.index /\ id \in Present(scan.mods)
          /\ l.index[id] \in DOMAIN l.rows /\ l.rows[l.index[id]].id = id
      BY <1>3, <2>1 DEF Changed, Indexed
    <3>2. l.index[id] \notin Gone(l)
      BY <1>3, <3>1 DEF Gone, RowsOf, Indexed
    <3>3. l.index[id] \in Left(l)
      BY <3>1, <3>2 DEF Left
    <3>4. PICK k \in 1..c : s[k] = l.index[id]
      BY <1>8, <3>3
    <3>5. id \in Id /\ Becomes(l, s[k], id)
      BY <2>1, <3>4 DEF Becomes, Changed, Present
    <3>6. PICK jd \in Id : Becomes(l, s[k], jd) /\ u.rows[k] = newRow(jd, scan.mods[jd], tk[jd])
      BY <1>1, <3>5 DEF RowsAre
    <3>7. jd = id
      BY <1>2, <1>3, <3>5, <3>6, LeftRows
    <3>8. k \in DOMAIN u.rows
      BY <1>8, <3>3
    <3> QED
      BY <2>1, <3>6, <3>7, <3>8 DEF newRow
  <2>2. ASSUME NEW id \in Added(l), t = tk[id]
        PROVE  \E k \in DOMAIN u.rows : u.rows[k].ticket = t
    <3>1. PICK n \in 1..d : a[n] = id
      BY <1>2 DEF Lists
    <3>2. u.rows[c + n].ticket = t
      <4>1. u.rows[c + n] = newRow(a[n], scan.mods[a[n]], tk[a[n]])
        BY <1>4
      <4> QED
        BY <2>2, <3>1, <4>1 DEF newRow
    <3>3. d \in Nat
      BY <1>2 DEF Lists
    <3>4. c + n \in DOMAIN u.rows
      BY <1>2, <1>4, <3>1, <3>3
    <3> QED
      BY <3>2, <3>4
  <2>3. CASE t \in Kept(l)
    <3>1. /\ t \in DOMAIN l.tickets /\ t # 0
          /\ t \notin Resolving(l, RowsOf(l, Changed(l)) \cup Gone(l))
      BY <2>3 DEF Kept, WellTyped
    <3>2. PICK i \in DOMAIN l.rows : l.rows[i].ticket = t
      BY <1>3, <3>1 DEF Ticketed
    <3>3. i \notin RowsOf(l, Changed(l)) /\ i \notin Gone(l)
      BY <3>1, <3>2 DEF Resolving
    <3>4. i \in Left(l)
      BY <3>3 DEF Left
    <3>5. PICK k \in 1..c : s[k] = i
      BY <1>8, <3>4
    <3>6. \A id \in Id : ~Becomes(l, s[k], id)
      BY <3>3, <3>5 DEF Becomes, RowsOf
    <3>7. u.rows[k] = l.rows[i]
      BY <1>1, <3>5, <3>6 DEF RowsAre
    <3>8. k \in DOMAIN u.rows
      BY <1>8, <3>4
    <3> QED
      BY <3>2, <3>7, <3>8
  <2> QED
    BY <1>1, <2>1, <2>2, <2>3 DEF TicketsAre, Fresh
<1> QED
  BY <1>7, <1>9 DEF Ticketed, Accurate

\* An update makes the list agree with what the scan has seen.
LEMMA UpdatedTrue ==
  ASSUME NEW l, WellTyped(l), True(l, folder), scan.mods \in Folder, UsedFiles(scan.mods)
  PROVE  True(updated(l), folder) /\ UsedTimes(updated(l)) /\ Matches(updated(l), scan.mods)
<1> DEFINE u == updated(l)
<1>1. \E s, c, a, d, tk : Renewed(l, u, s, c, a, d, tk)
  BY Updating
<1> HIDE DEF u
<1>2. PICK s, c, a, d, tk : Renewed(l, u, s, c, a, d, tk)
  BY <1>1
<1>3. Indexed(l) /\ Ticketed(l)
  BY DEF True
<1>4. True(u, folder)
  BY <1>2, <1>3, UpdatedIndexed, UpdatedTicketed DEF True
<1>5. /\ c \in Nat /\ d \in Nat /\ DOMAIN u.rows = 1..(c + d)
      /\ \A k \in 1..c : u.rows[k].id = l.rows[s[k]].id
      /\ \A k \in 1..d : u.rows[c + k].id = a[k]
      /\ \A k \in DOMAIN u.rows : /\ u.rows[k].id \in Present(scan.mods)
                                  /\ u.rows[k].time = scan.mods[u.rows[k].id]
  BY <1>2, <1>3, UpdatedRows
<1>6. UsedTimes(u)
  BY <1>5 DEF UsedTimes, UsedFiles, Present
<1>7. Lists(s, c, Left(l)) /\ Lists(a, d, Added(l))
  BY <1>2 DEF Renewed, RowsAre
<1>8. ASSUME NEW id \in Present(scan.mods)
      PROVE  \E k \in DOMAIN u.rows : u.rows[k].id = id
  <2>1. CASE id \in DOMAIN l.index
    <3>1. l.index[id] \in DOMAIN l.rows /\ l.rows[l.index[id]].id = id
      BY <1>3, <2>1 DEF Indexed
    <3>2. l.index[id] \notin Gone(l)
      BY <1>3, <3>1 DEF Gone, RowsOf, Indexed
    <3>3. l.index[id] \in Left(l)
      BY <3>1, <3>2 DEF Left
    <3>4. PICK k \in 1..c : s[k] = l.index[id]
      BY <1>7, <3>3 DEF Lists
    <3>5. k \in DOMAIN u.rows
      BY <1>5
    <3> QED
      BY <1>5, <3>1, <3>4, <3>5
  <2>2. CASE id \notin DOMAIN l.index
    <3>1. PICK n \in 1..d : a[n] = id
      BY <1>7, <2>2 DEF Lists, Added
    <3>2. c + n \in DOMAIN u.rows
      BY <1>5
    <3> QED
      BY <1>5, <3>1, <3>2
  <2> QED
    BY <2>1, <2>2
<1>9. Matches(u, scan.mods)
  BY <1>5, <1>8 DEF Matches
<1> QED
  BY <1>4, <1>6, <1>9 DEF u

-----------------------------------------------------------------------------
(* The other handlers that change the list.                                  *)

\* What becomes of a list whose rows keep their tickets, or lose them.
LEMMA StaysTyped ==
  ASSUME NEW l, WellTyped(l), NEW u,
         u = [rows |-> u.rows, index |-> u.index, tickets |-> u.tickets],
         u.rows \in Seq(Row), DOMAIN u.rows = DOMAIN l.rows,
         \A i \in DOMAIN l.rows : u.rows[i].ticket \in {0, l.rows[i].ticket},
         DOMAIN u.index \subseteq Id, u.index \in [DOMAIN u.index -> Nat \ {0}],
         DOMAIN u.tickets \subseteq DOMAIN l.tickets,
         u.tickets \in [DOMAIN u.tickets -> Ticket]
  PROVE  WellTyped(u)
<1>1. PICK n \in Nat : /\ \A t \in DOMAIN l.tickets : t <= n
                       /\ \A i \in DOMAIN l.rows : l.rows[i].ticket <= n
  BY DEF WellTyped, Bounded
<1>2. \A t \in DOMAIN u.tickets : t <= n
  BY <1>1
<1>3. \A i \in DOMAIN u.rows : u.rows[i].ticket <= n
  BY <1>1
<1>4. Bounded(u)
  BY <1>2, <1>3 DEF Bounded
<1>5. DOMAIN u.tickets \subseteq Nat \ {0}
  BY DEF WellTyped
<1> QED
  BY <1>4, <1>5 DEF WellTyped

LEMMA Shapes ==
  ASSUME NEW l, WellTyped(l)
  PROVE  /\ Len(l.rows) \in Nat /\ DOMAIN l.rows = 1..Len(l.rows)
         /\ \A i \in DOMAIN l.rows :
              /\ l.rows[i] \in Row
              /\ l.rows[i].id \in Id /\ l.rows[i].time \in Time /\ l.rows[i].ticket \in Nat
              /\ l.rows[i].details \in Time /\ l.rows[i].known \in BOOLEAN
         /\ \A t \in DOMAIN l.tickets :
              /\ l.tickets[t] \in Ticket /\ t \in Nat \ {0}
              /\ l.tickets[t].id \in Id /\ l.tickets[t].details \in Time
              /\ l.tickets[t].read \in BOOLEAN
<1>1. l.rows \in Seq(Row)
  BY DEF WellTyped
<1>2. \A i \in DOMAIN l.rows : l.rows[i] \in Row
  BY <1>1
<1>3. \A t \in DOMAIN l.tickets : l.tickets[t] \in Ticket /\ t \in Nat \ {0}
  BY DEF WellTyped
<1>4. Len(l.rows) \in Nat /\ DOMAIN l.rows = 1..Len(l.rows)
  BY <1>1
<1> QED
  BY <1>2, <1>3, <1>4 DEF Row, Ticket

\* A mod's own description has been read.
LEMMA ParseStep ==
  ASSUME WellTyped(list), folder \in Folder, NEW t, parseTask(t)
  PROVE  /\ WellTyped(list')
         /\ list'.rows = list.rows
         /\ True(list, folder) => True(list', folder)
<1> DEFINE x == [id |-> list.tickets[t].id, read |-> TRUE,
                 details |-> folder[list.tickets[t].id]]
<1>1. t \in DOMAIN list.tickets
  BY DEF parseTask
<1>2. list.tickets[t] \in Ticket /\ list.tickets[t].id \in Id
  BY <1>1, Shapes
<1>3. list = [rows |-> list.rows, index |-> list.index, tickets |-> list.tickets]
      /\ list.tickets \in [DOMAIN list.tickets -> Ticket]
  BY DEF WellTyped
<1>4. x \in Ticket
  BY <1>2 DEF Ticket, Folder
<1>5. list' = [rows |-> list.rows, index |-> list.index, tickets |-> [list.tickets EXCEPT ![t] = x]]
  <2>1. list' = [list EXCEPT !.tickets[t] = x]
    BY DEF parseTask
  <2> HIDE DEF x
  <2> QED
    BY <1>3, <2>1
<1> HIDE DEF x
<1>6. /\ list'.rows = list.rows /\ list'.index = list.index
      /\ list' = [rows |-> list'.rows, index |-> list'.index, tickets |-> list'.tickets]
      /\ DOMAIN list'.tickets = DOMAIN list.tickets
      /\ list'.tickets \in [DOMAIN list.tickets -> Ticket]
      /\ list'.tickets[t] = x
      /\ \A r \in DOMAIN list.tickets : r # t => list'.tickets[r] = list.tickets[r]
  BY <1>1, <1>3, <1>4, <1>5
<1>7. WellTyped(list')
  <2> DEFINE u == list'
  <2>1. /\ u.rows \in Seq(Row) /\ DOMAIN u.index \subseteq Id
        /\ u.index \in [DOMAIN u.index -> Nat \ {0}]
    BY <1>6 DEF WellTyped
  <2>2. u = [rows |-> u.rows, index |-> u.index, tickets |-> u.tickets] /\ u.rows = list.rows
        /\ DOMAIN u.tickets = DOMAIN list.tickets /\ u.tickets \in [DOMAIN u.tickets -> Ticket]
    BY <1>6
  <2> HIDE DEF u
  <2>3. WellTyped(u)
    BY <2>1, <2>2, StaysTyped
  <2> QED
    BY <2>3 DEF u
<1>8. ASSUME True(list, folder)
      PROVE  True(list', folder)
  <2>1. Indexed(list) /\ Ticketed(list) /\ Accurate(list, folder)
    BY <1>8 DEF True
  <2>2. Indexed(list')
    BY <1>6, <2>1 DEF Indexed
  <2>3. \A r \in DOMAIN list.tickets : list'.tickets[r].id = list.tickets[r].id
    BY <1>6 DEF x
  <2>4. Ticketed(list')
    BY <1>6, <2>1, <2>3 DEF Ticketed
  <2>5. ASSUME NEW i \in DOMAIN list.rows, folder[list.rows[i].id] = list.rows[i].time
        PROVE  Genuine(list', list.rows[i])
    <3>1. CASE list.rows[i].ticket = t /\ t # 0
      <4>1. list.tickets[t].id = list.rows[i].id
        BY <2>1, <3>1 DEF Ticketed
      <4>2. list'.tickets[t].details = list.rows[i].time
        BY <1>6, <2>5, <4>1 DEF x
      <4> QED
        BY <3>1, <4>2 DEF Genuine
    <3>2. CASE list.rows[i].ticket # t /\ list.rows[i].ticket # 0
      BY <1>6, <2>1, <2>5, <3>2 DEF Genuine, Accurate, Ticketed
    <3>3. CASE list.rows[i].ticket = 0
      BY <2>1, <2>5, <3>3 DEF Genuine, Accurate
    <3> QED
      BY <3>1, <3>2, <3>3
  <2>6. Accurate(list', folder)
    BY <1>6, <2>5 DEF Accurate
  <2> QED
    BY <2>2, <2>4, <2>6 DEF True
<1> QED
  BY <1>6, <1>7, <1>8

\* What was read comes back to the list.
LEMMA FinishParseStep ==
  ASSUME WellTyped(list), NEW t, finishModParse(t)
  PROVE  /\ WellTyped(list')
         /\ True(list, folder) => /\ True(list', folder)
                                  /\ DOMAIN list'.rows = DOMAIN list.rows
                                  /\ \A i \in DOMAIN list.rows :
                                       /\ list'.rows[i].id = list.rows[i].id
                                       /\ list'.rows[i].time = list.rows[i].time
<1> DEFINE l == list
           u == list'
           id == l.tickets[t].id
           i == IF id \in DOMAIN l.index THEN l.index[id] ELSE 1
           x == [id |-> l.rows[i].id, time |-> l.rows[i].time, ticket |-> 0,
                 details |-> l.tickets[t].details, known |-> l.rows[i].known]
           R == IF i \notin DOMAIN l.rows THEN l.rows ELSE [l.rows EXCEPT ![i] = x]
<1>1. t \in DOMAIN l.tickets /\ l.tickets[t].read /\ u = parsed(l, t)
  BY DEF finishModParse
<1>2. /\ id \in Id /\ l.tickets[t].details \in Time /\ t # 0
      /\ Len(l.rows) \in Nat /\ DOMAIN l.rows = 1..Len(l.rows)
      /\ \A k \in DOMAIN l.rows : l.rows[k] \in Row
  BY <1>1, Shapes
<1>3. /\ l = [rows |-> l.rows, index |-> l.index, tickets |-> l.tickets]
      /\ l.rows \in Seq(Row)
      /\ l.index \in [DOMAIN l.index -> Nat \ {0}] /\ DOMAIN l.index \subseteq Id
      /\ l.tickets \in [DOMAIN l.tickets -> Ticket]
  BY DEF WellTyped
<1>4. i \in Nat \ {0}
  BY <1>3
<1>5. ASSUME i \in DOMAIN l.rows
      PROVE  /\ [l.rows EXCEPT ![i].ticket = 0, ![i].details = l.tickets[t].details]
                  = [l.rows EXCEPT ![i] = x]
             /\ x \in Row
  <2> DEFINE T == l.rows
             A == [T EXCEPT ![i].ticket = 0]
             B == [A EXCEPT ![i].details = l.tickets[t].details]
             C == [T EXCEPT ![i] = x]
  <2> HIDE DEF i
  <2>1. T[i] = [id |-> T[i].id, time |-> T[i].time, ticket |-> T[i].ticket,
                details |-> T[i].details, known |-> T[i].known]
    BY <1>2, <1>5 DEF Row
  <2>2. [T[i] EXCEPT !.ticket = 0] = [id |-> T[i].id, time |-> T[i].time, ticket |-> 0,
                                      details |-> T[i].details, known |-> T[i].known]
    BY <2>1
  <2>3. /\ A = [k \in DOMAIN T |-> A[k]]
        /\ A[i] = [id |-> T[i].id, time |-> T[i].time, ticket |-> 0,
                   details |-> T[i].details, known |-> T[i].known]
        /\ \A k \in DOMAIN T \ {i} : A[k] = T[k]
    BY <1>3, <1>5, <2>2
  <2> HIDE DEF A
  <2>4. [A[i] EXCEPT !.details = l.tickets[t].details] = x
    BY <2>3
  <2>5. /\ B = [k \in DOMAIN T |-> B[k]]
        /\ B[i] = x
        /\ \A k \in DOMAIN T \ {i} : B[k] = T[k]
    BY <1>5, <2>3, <2>4
  <2> HIDE DEF B
  <2>6. /\ C = [k \in DOMAIN T |-> C[k]]
        /\ C[i] = x
        /\ \A k \in DOMAIN T \ {i} : C[k] = T[k]
    BY <1>3, <1>5
  <2> HIDE DEF C
  <2>7. \A k \in DOMAIN T : B[k] = C[k]
    BY <2>5, <2>6
  <2>8. B = C
    BY <2>5, <2>6, <2>7
  <2>9. x \in Row
    BY <1>2, <1>5 DEF Row
  <2> QED
    BY <2>8, <2>9 DEF A, B, C
<1>6. u = [rows |-> R, index |-> Inserted(l.index, id, i),
           tickets |-> Restrict(l.tickets, DOMAIN l.tickets \ {t})]
  BY <1>1, <1>3, <1>5 DEF parsed
<1> HIDE DEF i, x
<1>7. R \in Seq(Row) /\ DOMAIN R = DOMAIN l.rows
  <2>1. CASE i \notin DOMAIN l.rows
    BY <1>3, <2>1
  <2>2. CASE i \in DOMAIN l.rows
    <3>1. [l.rows EXCEPT ![i] = x] \in Seq(Row) /\ Len([l.rows EXCEPT ![i] = x]) = Len(l.rows)
      BY <1>2, <1>3, <1>5, <2>2, ExceptSeq
    <3> QED
      BY <1>2, <2>2, <3>1
  <2> QED
    BY <2>1, <2>2
<1>8. \A k \in DOMAIN l.rows : R[k] = IF k = i THEN x ELSE l.rows[k]
  BY <1>3
<1> HIDE DEF R
<1>9. /\ u.rows = R
      /\ u.index = Inserted(l.index, id, i)
      /\ u.tickets = Restrict(l.tickets, DOMAIN l.tickets \ {t})
      /\ u = [rows |-> u.rows, index |-> u.index, tickets |-> u.tickets]
  BY <1>6
<1> HIDE DEF u, l
<1>10. /\ DOMAIN u.tickets = DOMAIN l.tickets \ {t}
       /\ \A r \in DOMAIN u.tickets : u.tickets[r] = l.tickets[r]
       /\ u.tickets \in [DOMAIN u.tickets -> Ticket]
  BY <1>3, <1>9 DEF Restrict
<1>11. /\ DOMAIN u.index = DOMAIN l.index \cup {id}
       /\ u.index \in [DOMAIN u.index -> Nat \ {0}]
       /\ \A jd \in DOMAIN u.index : u.index[jd] = IF jd = id THEN i ELSE l.index[jd]
  BY <1>3, <1>4, <1>9 DEF Inserted
<1>12. WellTyped(u)
  <2>1. \A k \in DOMAIN l.rows : u.rows[k].ticket \in {0, l.rows[k].ticket}
    BY <1>8, <1>9 DEF x
  <2>2. DOMAIN u.index \subseteq Id
    BY <1>2, <1>3, <1>11
  <2>3. WellTyped(l)
    BY DEF l
  <2> QED
    BY <1>7, <1>9, <1>10, <1>11, <2>1, <2>2, <2>3, StaysTyped
<1>13. ASSUME True(l, folder)
       PROVE  /\ True(u, folder)
              /\ DOMAIN u.rows = DOMAIN l.rows
              /\ \A k \in DOMAIN l.rows : u.rows[k].id = l.rows[k].id
                                          /\ u.rows[k].time = l.rows[k].time
  <2>1. Indexed(l) /\ Ticketed(l) /\ Accurate(l, folder)
    BY <1>13 DEF True
  <2>2. PICK j \in DOMAIN l.rows : l.rows[j].ticket = t
    BY <1>1, <2>1 DEF Ticketed, l
  <2>3. l.rows[j].id = id
    BY <1>2, <2>1, <2>2 DEF Ticketed, l
  <2>4. id \in DOMAIN l.index /\ l.index[id] = j /\ i = j
    BY <2>1, <2>2, <2>3 DEF Indexed, i, l
  <2>5. /\ i \in DOMAIN l.rows /\ l.rows[i].ticket = t /\ l.rows[i].id = id
        /\ u.rows[i] = x /\ x.id = id /\ x.ticket = 0
        /\ x.time = l.rows[i].time /\ x.details = l.tickets[t].details
        /\ \A k \in DOMAIN l.rows : k # i => u.rows[k] = l.rows[k]
    BY <1>8, <1>9, <2>2, <2>3, <2>4 DEF x, l
  <2>6. /\ DOMAIN u.rows = DOMAIN l.rows
        /\ \A k \in DOMAIN l.rows : u.rows[k].id = l.rows[k].id
                                    /\ u.rows[k].time = l.rows[k].time
    BY <1>7, <1>9, <2>5
  <2>7. DOMAIN u.index = DOMAIN l.index /\ \A jd \in DOMAIN l.index : u.index[jd] = l.index[jd]
    BY <1>11, <2>4
  <2>8. Indexed(u)
    BY <2>1, <2>6, <2>7 DEF Indexed
  <2>9. ASSUME NEW k \in DOMAIN l.rows, k # i, l.rows[k].ticket # 0
        PROVE  /\ l.rows[k].ticket \in DOMAIN l.tickets /\ l.rows[k].ticket # t
               /\ l.tickets[l.rows[k].ticket].id = l.rows[k].id
    <3>1. l.rows[k].ticket \in DOMAIN l.tickets /\ l.tickets[l.rows[k].ticket].id = l.rows[k].id
      BY <2>1, <2>9 DEF Ticketed
    <3>2. ASSUME l.rows[k].ticket = t
          PROVE  FALSE
      <4>1. l.rows[k].id = id
        BY <3>1, <3>2 DEF l
      <4> QED
        BY <2>1, <2>4, <2>9, <4>1 DEF Indexed
    <3> QED
      BY <3>1, <3>2
  <2>10. Ticketed(u)
    <3>1. ASSUME NEW k \in DOMAIN u.rows, u.rows[k].ticket # 0
          PROVE  /\ u.rows[k].ticket \in DOMAIN u.tickets
                 /\ u.tickets[u.rows[k].ticket].id = u.rows[k].id
      <4>1. k # i /\ u.rows[k] = l.rows[k]
        BY <2>5, <2>6, <3>1
      <4> QED
        BY <1>10, <2>6, <2>9, <3>1, <4>1
    <3>2. ASSUME NEW r \in DOMAIN u.tickets
          PROVE  \E k \in DOMAIN u.rows : u.rows[k].ticket = r
      <4>1. r \in DOMAIN l.tickets /\ r # t
        BY <1>10
      <4>2. PICK k \in DOMAIN l.rows : l.rows[k].ticket = r
        BY <2>1, <4>1 DEF Ticketed
      <4> QED
        BY <2>5, <2>6, <4>1, <4>2
    <3> QED
      BY <3>1, <3>2 DEF Ticketed
  <2>11. Accurate(u, folder)
    <3> SUFFICES ASSUME NEW k \in DOMAIN u.rows, folder[u.rows[k].id] = u.rows[k].time
                 PROVE  Genuine(u, u.rows[k])
      BY DEF Accurate
    <3>1. folder[l.rows[k].id] = l.rows[k].time /\ k \in DOMAIN l.rows
      BY <2>6
    <3>2. Genuine(l, l.rows[k])
      BY <2>1, <3>1 DEF Accurate
    <3>3. CASE k = i
      <4>1. l.tickets[t].details = l.rows[k].time
        BY <1>1, <1>2, <2>5, <3>2, <3>3 DEF Genuine, l
      <4> QED
        BY <2>5, <3>3, <4>1 DEF Genuine
    <3>4. CASE k # i
      <4>1. u.rows[k] = l.rows[k]
        BY <2>5, <3>1, <3>4
      <4>2. l.rows[k].ticket # 0 => u.tickets[l.rows[k].ticket] = l.tickets[l.rows[k].ticket]
        BY <1>10, <2>9, <3>1, <3>4
      <4> QED
        BY <3>2, <4>1, <4>2 DEF Genuine
    <3> QED
      BY <3>3, <3>4
  <2> QED
    BY <2>6, <2>8, <2>10, <2>11 DEF True
<1> QED
  BY <1>12, <1>13 DEF u, l

-----------------------------------------------------------------------------
(* A list that tells the truth about the folder stays one.                   *)

ScanRecord == [state : Scans, mods : Folder]
Typed == /\ folder \in Folder /\ WellTyped(list)
         /\ scan \in ScanRecord /\ scheduled \in BOOLEAN
         /\ page \in {"closed", "opening", "open"} /\ event \in BOOLEAN
         /\ changes \in 0..MaxChanges /\ mixed \in BOOLEAN
Looked == page = "open" /\ scan.state = "none" /\ ~event
Honest == /\ True(list, folder) /\ UsedTimes(list)
          /\ Looked => Matches(list, scan.mods)
MInv == Typed /\ UsedFiles(folder) /\ UsedFiles(scan.mods) /\ (~mixed => Honest)

LEMMA TypedIsTypeOK == Typed => TypeOK
<1> SUFFICES ASSUME Typed
             PROVE  TypeOK
  OBVIOUS
<1>1. /\ list.rows \in Seq(Row)
      /\ DOMAIN list.index \subseteq Id /\ list.index \in [DOMAIN list.index -> Nat \ {0}]
      /\ DOMAIN list.tickets \subseteq Nat \ {0} /\ list.tickets \in [DOMAIN list.tickets -> Ticket]
  BY DEF Typed, WellTyped
<1>2. \A id \in DOMAIN list.index : list.index[id] \in Nat \ {0}
  BY <1>1
<1>3. \A t \in DOMAIN list.tickets : t \in Nat \ {0} /\ list.tickets[t] \in Ticket
  BY <1>1
<1> QED
  BY <1>1, <1>2, <1>3 DEF Typed, TypeOK, ScanRecord, Scans

LEMMA UnreadTyped == Unread \in Folder /\ UsedFiles(Unread)
<1>1. 0 \in Time
  BY ModFolderAssumption DEF Time
<1> QED
  BY <1>1 DEF Unread, Folder, UsedFiles

\* Another scan is under way, or will be.
LEMMA UpdateTyped ==
  ASSUME scan \in ScanRecord, scheduled \in BOOLEAN, UsedFiles(scan.mods), update
  PROVE  /\ scan' \in ScanRecord /\ scheduled' \in BOOLEAN /\ scan'.state # "none"
         /\ scan'.mods \in {scan.mods, Unread} /\ UsedFiles(scan'.mods)
<1>1. /\ scan = [state |-> scan.state, mods |-> scan.mods]
      /\ scan.state \in Scans /\ scan.mods \in Folder
  BY DEF ScanRecord
<1>2. CASE scan.state = "none"
  BY <1>2, UnreadTyped DEF update, ScanRecord, Scans
<1>3. CASE scan.state # "none"
  BY <1>1, <1>3 DEF update, ScanRecord
<1> QED
  BY <1>2, <1>3

\* Times that were used stay used, and the next one is not.
LEMMA NextTime ==
  ASSUME changes \in 0..MaxChanges, changes < MaxChanges, changes' = changes + 1
  PROVE  /\ Used \subseteq Used' /\ 0 \notin Used
         /\ changes + 1 \in Time /\ changes + 1 \in Used' /\ changes + 1 \notin Used
         /\ changes' \in 0..MaxChanges
BY ModFolderAssumption DEF Used, Time

\* The folder changes, and perhaps somebody asks for a scan.
LEMMA FolderStep ==
  ASSUME MInv, NEW f \in Folder, FolderBecomes(f), UNCHANGED <<list, page, mixed>>,
         update \/ UNCHANGED <<scan, scheduled>>,
         \A id \in Id : f[id] \in {folder[id], 0, changes + 1}
  PROVE  MInv'
<1>1. /\ folder' = f /\ changes < MaxChanges /\ changes' = changes + 1
      /\ event' \in BOOLEAN /\ (page = "open" => event')
  BY DEF FolderBecomes, MInv, Typed
<1>2. /\ Used \subseteq Used' /\ 0 \notin Used
      /\ changes + 1 \in Used' /\ changes + 1 \notin Used /\ changes' \in 0..MaxChanges
  BY <1>1, NextTime DEF MInv, Typed
<1>3. /\ scan' \in ScanRecord /\ scheduled' \in BOOLEAN
      /\ UsedFiles(scan'.mods)
  BY UpdateTyped DEF MInv, Typed
<1>4. Typed'
  BY <1>1, <1>2, <1>3 DEF MInv, Typed
<1>5. UsedFiles(scan.mods)'
  BY <1>2, <1>3 DEF UsedFiles
<1>6. UsedFiles(folder)'
  BY <1>1, <1>2 DEF UsedFiles, MInv
<1>7. ASSUME ~mixed
      PROVE  Honest'
  <2>1. True(list, folder) /\ UsedTimes(list)
    BY <1>7 DEF MInv, Honest
  <2>2. UsedTimes(list)'
    BY <1>2, <2>1 DEF UsedTimes
  <2>3. ~Looked'
    BY <1>1 DEF Looked
  <2>4. ASSUME NEW i \in DOMAIN list.rows, f[list.rows[i].id] = list.rows[i].time
        PROVE  Genuine(list, list.rows[i])
    <3>1. list.rows[i].time \in Used /\ list.rows[i].id \in Id
      BY <2>1, Shapes DEF UsedTimes, MInv, Typed
    <3>2. folder[list.rows[i].id] = f[list.rows[i].id]
      BY <1>2, <2>4, <3>1
    <3> QED
      BY <2>1, <2>4, <3>2 DEF True, Accurate
  <2>5. Accurate(list, folder)'
    BY <1>1, <2>4 DEF Accurate, Genuine
  <2>6. Indexed(list)' /\ Ticketed(list)'
    BY <2>1 DEF True, Indexed, Ticketed
  <2> QED
    BY <2>2, <2>3, <2>5, <2>6 DEF Honest, True
<1> QED
  BY <1>4, <1>5, <1>6, <1>7 DEF MInv

\* Steps that leave list and folder alone.
LEMMA QuietMInv ==
  ASSUME MInv, UNCHANGED <<folder, list, changes, mixed>>,
         scan' \in ScanRecord, scheduled' \in BOOLEAN, event' \in BOOLEAN,
         page' \in {"closed", "opening", "open"}, UsedFiles(scan'.mods),
         Looked' => Looked /\ scan'.mods = scan.mods
  PROVE  MInv'
<1>1. Typed'
  BY DEF MInv, Typed
<1>2. UsedFiles(folder)' /\ UsedFiles(scan.mods)'
  BY DEF MInv, UsedFiles, Used
<1>3. ~mixed => Honest'
  <2> SUFFICES ASSUME ~mixed
               PROVE  Honest'
    OBVIOUS
  <2>1. Honest
    BY DEF MInv
  <2>2. True(list, folder)' /\ UsedTimes(list)'
    BY <2>1 DEF Honest, True, Indexed, Ticketed, Accurate, Genuine, UsedTimes, Used
  <2>3. Looked' => Matches(list, scan.mods)'
    BY <2>1 DEF Honest, Matches
  <2> QED
    BY <2>2, <2>3 DEF Honest
<1> QED
  BY <1>1, <1>2, <1>3 DEF MInv

\* What the scan saw goes into the list.
LEMMA FinishUpdateMInv ==
  ASSUME MInv, finishUpdate
  PROVE  MInv'
<1>1. /\ folder' = folder /\ changes' = changes /\ mixed' = mixed
      /\ page' = page /\ event' = event /\ scheduled' = FALSE
      /\ list' = updated(list)
  BY DEF finishUpdate
<1>2. scan' \in ScanRecord /\ scan'.mods \in {scan.mods, Unread}
      /\ (scan'.state = "none" => scan'.mods = scan.mods)
  <2>1. scan = [state |-> scan.state, mods |-> scan.mods] /\ scan.mods \in Folder
    BY DEF MInv, Typed, ScanRecord
  <2>2. CASE scheduled
    BY <2>2, UnreadTyped DEF finishUpdate, ScanRecord, Scans
  <2>3. CASE ~scheduled
    <3>1. scan' = [state |-> "none", mods |-> scan.mods]
      BY <2>1, <2>3 DEF finishUpdate
    <3> QED
      BY <2>1, <3>1 DEF ScanRecord, Scans
  <2> QED
    BY <2>2, <2>3
<1>3. scan.mods \in Folder /\ WellTyped(list)
  BY DEF MInv, Typed, ScanRecord
<1>4. Typed'
  BY <1>1, <1>2, <1>3, UpdatedTyped DEF MInv, Typed
<1>5. UsedFiles(folder)' /\ UsedFiles(scan.mods)'
  BY <1>1, <1>2, UnreadTyped DEF MInv, UsedFiles, Used
<1>6. ASSUME ~mixed
      PROVE  Honest'
  <2> DEFINE u == updated(list)
  <2>1. True(u, folder) /\ UsedTimes(u) /\ Matches(u, scan.mods)
    BY <1>3, <1>6, UpdatedTrue DEF MInv, Honest
  <2>2. list' = u
    BY <1>1
  <2> HIDE DEF u
  <2>3. True(list, folder)' /\ UsedTimes(list)'
    BY <1>1, <2>1, <2>2 DEF True, Indexed, Ticketed, Accurate, Genuine, UsedTimes, Used
  <2>4. Looked' => Matches(list, scan.mods)'
    BY <1>2, <2>1, <2>2 DEF Looked, Matches
  <2> QED
    BY <2>3, <2>4 DEF Honest
<1> QED
  BY <1>1, <1>4, <1>5, <1>6 DEF MInv

\* What was read goes into the list.
LEMMA ParseMInv ==
  ASSUME MInv, NEW t \in DOMAIN list.tickets, parseTask(t) \/ finishModParse(t)
  PROVE  MInv'
<1>1. UNCHANGED <<folder, scan, scheduled, page, event, changes, mixed>>
  BY DEF parseTask, finishModParse
<1>2. /\ WellTyped(list')
      /\ True(list, folder) => /\ True(list', folder)
                               /\ DOMAIN list'.rows = DOMAIN list.rows
                               /\ \A i \in DOMAIN list.rows :
                                    /\ list'.rows[i].id = list.rows[i].id
                                    /\ list'.rows[i].time = list.rows[i].time
  <2>1. CASE parseTask(t)
    BY <2>1, ParseStep DEF MInv, Typed
  <2>2. CASE finishModParse(t)
    BY <2>2, FinishParseStep DEF MInv, Typed
  <2> QED
    BY <2>1, <2>2
<1>3. Typed'
  BY <1>1, <1>2 DEF MInv, Typed
<1>4. UsedFiles(folder)' /\ UsedFiles(scan.mods)'
  BY <1>1 DEF MInv, UsedFiles, Used
<1>5. ASSUME ~mixed
      PROVE  Honest'
  <2>1. Honest
    BY <1>5 DEF MInv
  <2>2. True(list', folder) /\ DOMAIN list'.rows = DOMAIN list.rows
        /\ \A i \in DOMAIN list.rows : list'.rows[i].id = list.rows[i].id
                                       /\ list'.rows[i].time = list.rows[i].time
    BY <1>2, <2>1 DEF Honest
  <2>3. True(list, folder)'
    BY <1>1, <2>2 DEF True, Indexed, Ticketed, Accurate, Genuine
  <2>4. UsedTimes(list)'
    BY <1>1, <2>1, <2>2 DEF Honest, UsedTimes, Used
  <2>5. Looked' => Matches(list, scan.mods)'
    BY <1>1, <2>1, <2>2 DEF Honest, Looked, Matches
  <2> QED
    BY <2>3, <2>4, <2>5 DEF Honest
<1> QED
  BY <1>1, <1>3, <1>4, <1>5 DEF MInv

LEMMA WithKnown ==
  ASSUME NEW q, NEW b, q = [id |-> q.id, time |-> q.time, ticket |-> q.ticket,
                            details |-> q.details, known |-> q.known]
  PROVE  [q EXCEPT !.known = b] = [id |-> q.id, time |-> q.time, ticket |-> q.ticket,
                                   details |-> q.details, known |-> b]
OBVIOUS

\* A row whose file is deleted says so until it is removed.
LEMMA DeletedRow ==
  ASSUME NEW q \in Row
  PROVE  /\ [q EXCEPT !.known = FALSE] \in Row
         /\ [q EXCEPT !.known = FALSE].id = q.id /\ [q EXCEPT !.known = FALSE].time = q.time
         /\ [q EXCEPT !.known = FALSE].ticket = q.ticket
         /\ [q EXCEPT !.known = FALSE].details = q.details
<1> DEFINE x == [id |-> q.id, time |-> q.time, ticket |-> q.ticket, details |-> q.details,
                 known |-> FALSE]
<1>1. q = [id |-> q.id, time |-> q.time, ticket |-> q.ticket, details |-> q.details,
           known |-> q.known]
  BY DEF Row
<1>2. [q EXCEPT !.known = FALSE] = x
  BY <1>1, WithKnown, Zenon
<1>3. /\ x \in Row /\ x.id = q.id /\ x.time = q.time
      /\ x.ticket = q.ticket /\ x.details = q.details
  BY DEF Row
<1> HIDE DEF x
<1> QED
  BY <1>2, <1>3, Zenon

\* Rows that differ in known only.
LEMMA SameRows ==
  ASSUME NEW l, NEW u, u.index = l.index, u.tickets = l.tickets, DOMAIN u.rows = DOMAIN l.rows,
         \A k \in DOMAIN l.rows :
           /\ u.rows[k].id = l.rows[k].id /\ u.rows[k].time = l.rows[k].time
           /\ u.rows[k].ticket = l.rows[k].ticket /\ u.rows[k].details = l.rows[k].details
  PROVE  /\ Indexed(l) => Indexed(u)
         /\ Ticketed(l) => Ticketed(u)
         /\ \A k \in DOMAIN l.rows : Genuine(l, l.rows[k]) => Genuine(u, u.rows[k])
         /\ \A f : Accurate(l, f) => Accurate(u, f)
         /\ \A f : Matches(l, f) => Matches(u, f)
<1>1. Indexed(l) => Indexed(u)
  BY DEF Indexed
<1>2. Ticketed(l) => Ticketed(u)
  <2> SUFFICES ASSUME Ticketed(l)
               PROVE  Ticketed(u)
    OBVIOUS
  <2>1. \A k \in DOMAIN u.rows : u.rows[k].ticket # 0 =>
          u.rows[k].ticket \in DOMAIN u.tickets /\ u.tickets[u.rows[k].ticket].id = u.rows[k].id
    BY DEF Ticketed
  <2>2. \A t \in DOMAIN u.tickets : \E k \in DOMAIN u.rows : u.rows[k].ticket = t
    BY DEF Ticketed
  <2> QED
    BY <2>1, <2>2 DEF Ticketed
<1>3. \A k \in DOMAIN l.rows : Genuine(l, l.rows[k]) => Genuine(u, u.rows[k])
  BY DEF Genuine
<1>4. \A f : Accurate(l, f) => Accurate(u, f)
  BY <1>3 DEF Accurate
<1>5. \A f : Matches(l, f) => Matches(u, f)
  BY DEF Matches
<1> QED
  BY <1>1, <1>2, <1>3, <1>4, <1>5

LEMMA DeleteMInv ==
  ASSUME MInv, NEW i \in DOMAIN list.rows, deleteMods(i)
  PROVE  MInv'
<1> DEFINE r == list.rows[i]
           x == [r EXCEPT !.known = FALSE]
           u == [rows |-> [list.rows EXCEPT ![i] = x], index |-> list.index,
                 tickets |-> list.tickets]
<1>1. WellTyped(list) /\ r \in Row /\ r.id \in Id
  BY Shapes DEF MInv, Typed
<1>2. /\ list = [rows |-> list.rows, index |-> list.index, tickets |-> list.tickets]
      /\ list.rows \in Seq(Row) /\ i \in 1..Len(list.rows) /\ DOMAIN list.rows = 1..Len(list.rows)
  BY <1>1, Shapes DEF WellTyped
<1>3. list' = u
  <2>1. list' = [list EXCEPT !.rows[i].known = FALSE]
    BY DEF deleteMods
  <2>2. list' = [list EXCEPT !.rows = [list.rows EXCEPT ![i] = x]]
    BY <2>1
  <2> HIDE DEF x
  <2> QED
    BY <1>2, <2>2
<1>4. /\ x \in Row /\ x.id = r.id /\ x.time = r.time
      /\ x.ticket = r.ticket /\ x.details = r.details
  BY <1>1, DeletedRow
<1> HIDE DEF x
<1>5. /\ u.rows \in Seq(Row) /\ DOMAIN u.rows = DOMAIN list.rows
      /\ u.index = list.index /\ u.tickets = list.tickets
      /\ u = [rows |-> u.rows, index |-> u.index, tickets |-> u.tickets]
      /\ \A k \in DOMAIN list.rows : u.rows[k] = IF k = i THEN x ELSE list.rows[k]
  BY <1>2, <1>4, ExceptSeq
<1> HIDE DEF u
<1>6. \A k \in DOMAIN list.rows :
        /\ u.rows[k].id = list.rows[k].id /\ u.rows[k].time = list.rows[k].time
        /\ u.rows[k].ticket = list.rows[k].ticket /\ u.rows[k].details = list.rows[k].details
  BY <1>4, <1>5 DEF r
<1>7. WellTyped(u)
  <2>1. \A k \in DOMAIN list.rows : u.rows[k].ticket \in {0, list.rows[k].ticket}
    BY <1>6
  <2>2. /\ DOMAIN u.index \subseteq Id /\ u.index \in [DOMAIN u.index -> Nat \ {0}]
        /\ DOMAIN u.tickets \subseteq DOMAIN list.tickets
        /\ u.tickets \in [DOMAIN u.tickets -> Ticket]
    BY <1>1, <1>5 DEF WellTyped
  <2> QED
    BY <1>1, <1>5, <2>1, <2>2, StaysTyped
<1>8. CASE UNCHANGED <<folder, event, changes>>
  <2>1. UNCHANGED <<folder, scan, scheduled, page, event, changes, mixed>>
    BY <1>8 DEF deleteMods
  <2>2. Typed'
    BY <1>3, <1>7, <2>1 DEF MInv, Typed
  <2>3. UsedFiles(folder)' /\ UsedFiles(scan.mods)'
    BY <2>1 DEF MInv, UsedFiles, Used
  <2>4. ASSUME ~mixed
        PROVE  Honest'
    <3>1. Honest
      BY <2>4 DEF MInv
    <3>2. True(u, folder)
      BY <1>5, <1>6, <3>1, SameRows DEF Honest, True
    <3>3. True(list, folder)'
      BY <1>3, <2>1, <3>2 DEF True, Indexed, Ticketed, Accurate, Genuine
    <3>4. UsedTimes(list)'
      BY <1>3, <1>5, <1>6, <2>1, <3>1 DEF Honest, UsedTimes, Used
    <3>5. Looked' => Matches(list, scan.mods)'
      <4>1. Looked => Matches(u, scan.mods)
        BY <1>5, <1>6, <3>1, SameRows DEF Honest
      <4> QED
        BY <1>3, <2>1, <4>1 DEF Looked, Matches
    <3> QED
      BY <3>3, <3>4, <3>5 DEF Honest
  <2> QED
    BY <2>1, <2>2, <2>3, <2>4 DEF MInv
<1>9. CASE /\ folder[r.id] # 0
           /\ FolderBecomes([folder EXCEPT ![r.id] = 0])
  <2>1. /\ UNCHANGED <<scan, scheduled, page, mixed>> /\ page = "open"
        /\ folder' = [folder EXCEPT ![r.id] = 0] /\ event' = (event \/ page = "open")
        /\ changes < MaxChanges /\ changes' = changes + 1
    BY <1>9 DEF deleteMods, FolderBecomes
  <2>2. /\ Used \subseteq Used' /\ 0 \notin Used /\ changes' \in 0..MaxChanges
    BY <2>1, NextTime DEF MInv, Typed
  <2>3. folder' \in Folder /\ \A id \in Id : folder'[id] = IF id = r.id THEN 0 ELSE folder[id]
    <3>1. 0 \in Time
      BY ModFolderAssumption DEF Time
    <3> QED
      BY <2>1, <3>1 DEF MInv, Typed, Folder
  <2>4. Typed'
    BY <1>3, <1>7, <2>1, <2>2, <2>3 DEF MInv, Typed
  <2>5. UsedFiles(folder)' /\ UsedFiles(scan.mods)'
    BY <2>1, <2>2, <2>3 DEF MInv, UsedFiles
  <2>6. ASSUME ~mixed
        PROVE  Honest'
    <3>1. Honest
      BY <2>6 DEF MInv
    <3>2. Indexed(list)' /\ Ticketed(list)'
      <4>1. Indexed(u) /\ Ticketed(u)
        BY <1>5, <1>6, <3>1, SameRows DEF Honest, True
      <4> QED
        BY <1>3, <4>1 DEF Indexed, Ticketed
    <3>3. UsedTimes(list)'
      BY <1>3, <1>5, <1>6, <2>2, <3>1 DEF Honest, UsedTimes
    <3>4. ASSUME NEW k \in DOMAIN list.rows, folder'[list.rows[k].id] = list.rows[k].time
          PROVE  Genuine(list, list.rows[k])
      <4>1. list.rows[k].time \in Used /\ list.rows[k].id \in Id
        BY <1>1, <3>1, Shapes DEF Honest, UsedTimes
      <4>2. folder[list.rows[k].id] = list.rows[k].time
        BY <2>2, <2>3, <3>4, <4>1
      <4> QED
        BY <3>1, <4>2 DEF Honest, True, Accurate
    <3>5. Accurate(list, folder)'
      <4>1. \A k \in DOMAIN u.rows : folder'[u.rows[k].id] = u.rows[k].time =>
              Genuine(u, u.rows[k])
        BY <1>5, <1>6, <3>4, SameRows
      <4> QED
        BY <1>3, <4>1 DEF Accurate, Genuine
    <3>6. ~Looked'
      BY <2>1 DEF Looked
    <3> QED
      BY <3>2, <3>3, <3>5, <3>6 DEF Honest, True
  <2> QED
    BY <2>1, <2>4, <2>5, <2>6 DEF MInv
<1> QED
  BY <1>8, <1>9 DEF deleteMods

\* A mod is turned on or off.
LEMMA ToggleMInv ==
  ASSUME MInv, NEW i \in DOMAIN list.rows, setModStatus(i)
  PROVE  MInv'
<1> DEFINE r == list.rows[i]
           n == Toggled(r.id)
           x == [id |-> n, time |-> r.time, ticket |-> r.ticket, details |-> r.details,
                 known |-> r.known]
           J == Inserted(Restrict(list.index, DOMAIN list.index \ {r.id}), n, i)
           u == [rows |-> [list.rows EXCEPT ![i] = x], index |-> J, tickets |-> list.tickets]
           f == [folder EXCEPT ![n] = folder[r.id], ![r.id] = 0]
<1>1. WellTyped(list) /\ r \in Row /\ r.id \in Id
  BY Shapes DEF MInv, Typed
<1>2. n \in Id /\ n # r.id
  <2>1. r.id = <<r.id[1], r.id[2]>> /\ r.id[1] \in Mod /\ r.id[2] \in BOOLEAN
    BY <1>1 DEF Id
  <2>2. \A m \in Mod, b \in BOOLEAN : <<m, ~b>> \in Id /\ <<m, ~b>> # <<m, b>>
    BY DEF Id
  <2>3. n = <<r.id[1], ~r.id[2]>>
    BY DEF Toggled
  <2> HIDE DEF n, r
  <2> QED
    BY <2>1, <2>2, <2>3, Zenon
<1>3. /\ list = [rows |-> list.rows, index |-> list.index, tickets |-> list.tickets]
      /\ list.rows \in Seq(Row) /\ i \in 1..Len(list.rows) /\ DOMAIN list.rows = 1..Len(list.rows)
      /\ i \in Nat \ {0}
  BY <1>1, Shapes DEF WellTyped
<1>4. /\ page = "open" /\ folder[r.id] # 0 /\ folder[n] = 0 /\ FolderBecomes(f)
      /\ list' = [list EXCEPT !.rows[i].id = n,
                              !.index = Inserted(Restrict(@, DOMAIN @ \ {r.id}), n, i)]
      /\ mixed' = (mixed \/ r.ticket # 0 \/ n \in DOMAIN list.index)
      /\ UNCHANGED <<scan, scheduled, page>>
  BY DEF setModStatus
<1>5. [r EXCEPT !.id = n] = x /\ x \in Row
  BY <1>1, <1>2 DEF Row
<1>6. list' = u
  <2>1. list' = [list EXCEPT !.rows = [list.rows EXCEPT ![i] = [r EXCEPT !.id = n]], !.index = J]
    BY <1>3, <1>4
  <2> HIDE DEF x, J, n
  <2> QED
    BY <1>3, <1>5, <2>1
<1> HIDE DEF n
<1>7. x.id = n /\ x.time = r.time /\ x.ticket = r.ticket /\ x.details = r.details
  OBVIOUS
<1> HIDE DEF x
<1>8. /\ DOMAIN J = (DOMAIN list.index \ {r.id}) \cup {n}
      /\ J = [id \in DOMAIN J |-> J[id]]
      /\ \A id \in DOMAIN J : J[id] = IF id = n THEN i ELSE list.index[id]
  BY DEF Inserted, Restrict
<1> HIDE DEF J
<1>9. /\ u.rows \in Seq(Row) /\ DOMAIN u.rows = DOMAIN list.rows
      /\ u.index = J /\ u.tickets = list.tickets
      /\ u = [rows |-> u.rows, index |-> u.index, tickets |-> u.tickets]
      /\ \A k \in DOMAIN list.rows : u.rows[k] = IF k = i THEN x ELSE list.rows[k]
  BY <1>3, <1>5, ExceptSeq
<1> HIDE DEF u
<1>10. \A k \in DOMAIN list.rows :
         /\ u.rows[k].id = IF k = i THEN n ELSE list.rows[k].id
         /\ u.rows[k].time = list.rows[k].time
         /\ u.rows[k].ticket = list.rows[k].ticket /\ u.rows[k].details = list.rows[k].details
  BY <1>7, <1>9 DEF r
<1>11. WellTyped(u)
  <2>1. \A k \in DOMAIN list.rows : u.rows[k].ticket \in {0, list.rows[k].ticket}
    BY <1>10
  <2>2. DOMAIN list.index \subseteq Id /\ list.index \in [DOMAIN list.index -> Nat \ {0}]
        /\ list.tickets \in [DOMAIN list.tickets -> Ticket]
    BY <1>1 DEF WellTyped
  <2>3. \A id \in DOMAIN J : id \in Id /\ J[id] \in Nat \ {0}
    BY <1>2, <1>3, <1>8, <2>2
  <2>4. DOMAIN u.index \subseteq Id /\ u.index \in [DOMAIN u.index -> Nat \ {0}]
    BY <1>8, <1>9, <2>3
  <2> QED
    BY <1>1, <1>9, <2>1, <2>2, <2>4, StaysTyped
<1>12. /\ folder' = f /\ event' = (event \/ page = "open")
       /\ changes < MaxChanges /\ changes' = changes + 1
  BY <1>4 DEF FolderBecomes
<1>13. Used \subseteq Used' /\ 0 \notin Used /\ changes' \in 0..MaxChanges
  BY <1>12, NextTime DEF MInv, Typed
<1>14. f \in Folder /\ \A id \in Id : f[id] = IF id = r.id THEN 0 ELSE
                                              IF id = n THEN folder[r.id] ELSE folder[id]
  <2>1. 0 \in Time
    BY ModFolderAssumption DEF Time
  <2> QED
    BY <1>1, <1>2, <2>1 DEF MInv, Typed, Folder
<1> HIDE DEF f
<1>15. Typed'
  BY <1>4, <1>6, <1>11, <1>12, <1>13, <1>14 DEF MInv, Typed
<1>16. UsedFiles(folder)' /\ UsedFiles(scan.mods)'
  BY <1>1, <1>4, <1>12, <1>13, <1>14 DEF MInv, UsedFiles
<1>17. ASSUME ~mixed'
       PROVE  Honest'
  <2>1. Honest /\ r.ticket = 0 /\ n \notin DOMAIN list.index
    BY <1>4, <1>17 DEF MInv
  <2>2. Indexed(list) /\ Ticketed(list) /\ Accurate(list, folder) /\ UsedTimes(list)
    BY <2>1 DEF Honest, True
  <2>3. r.id \in DOMAIN list.index /\ list.index[r.id] = i
    BY <2>2 DEF Indexed
  <2>4. \A k \in DOMAIN list.rows : k # i => /\ list.rows[k].id \in DOMAIN list.index
                                             /\ list.rows[k].id # r.id /\ list.rows[k].id # n
    BY <2>1, <2>2, <2>3 DEF Indexed
  <2>5. Indexed(u)
    <3>1. ASSUME NEW id \in DOMAIN u.index
          PROVE  u.index[id] \in DOMAIN u.rows /\ u.rows[u.index[id]].id = id
      <4>1. CASE id = n
        BY <1>8, <1>9, <1>10, <4>1
      <4>2. CASE id # n
        <5>1. id \in DOMAIN list.index /\ id # r.id /\ u.index[id] = list.index[id]
          BY <1>8, <1>9, <4>2
        <5>2. list.index[id] \in DOMAIN list.rows /\ list.rows[list.index[id]].id = id
          BY <2>2, <5>1 DEF Indexed
        <5> QED
          BY <1>9, <1>10, <5>1, <5>2
      <4> QED
        BY <4>1, <4>2
    <3>2. ASSUME NEW k \in DOMAIN u.rows
          PROVE  u.rows[k].id \in DOMAIN u.index /\ u.index[u.rows[k].id] = k
      <4>1. CASE k = i
        BY <1>8, <1>9, <1>10, <4>1
      <4>2. CASE k # i
        BY <1>8, <1>9, <1>10, <2>2, <2>4, <4>2 DEF Indexed
      <4> QED
        BY <4>1, <4>2
    <3> QED
      BY <3>1, <3>2 DEF Indexed
  <2>6. Ticketed(u)
    <3>1. ASSUME NEW k \in DOMAIN u.rows, u.rows[k].ticket # 0
          PROVE  /\ u.rows[k].ticket \in DOMAIN u.tickets
                 /\ u.tickets[u.rows[k].ticket].id = u.rows[k].id
      <4>1. k # i /\ u.rows[k].id = list.rows[k].id /\ u.rows[k].ticket = list.rows[k].ticket
        BY <1>9, <1>10, <2>1, <3>1
      <4> QED
        BY <1>9, <2>2, <3>1, <4>1 DEF Ticketed
    <3>2. \A t \in DOMAIN u.tickets : \E k \in DOMAIN u.rows : u.rows[k].ticket = t
      BY <1>9, <1>10, <2>2 DEF Ticketed
    <3> QED
      BY <3>1, <3>2 DEF Ticketed
  <2>7. ASSUME NEW k \in DOMAIN u.rows, f[u.rows[k].id] = u.rows[k].time
        PROVE  Genuine(u, u.rows[k])
    <3>1. folder[list.rows[k].id] = list.rows[k].time
      <4>1. CASE k = i
        BY <1>2, <1>9, <1>10, <1>14, <2>7, <4>1
      <4>2. CASE k # i
        <5>1. list.rows[k].id \in Id
          BY <1>1, <1>9, Shapes
        <5> QED
          BY <1>9, <1>10, <1>14, <2>4, <2>7, <4>2, <5>1
      <4> QED
        BY <4>1, <4>2
    <3>2. Genuine(list, list.rows[k])
      BY <1>9, <2>2, <3>1 DEF Accurate
    <3> QED
      BY <1>9, <1>10, <3>2 DEF Genuine
  <2>8. True(list, folder)'
    <3>1. True(u, f)
      BY <2>5, <2>6, <2>7 DEF True, Accurate
    <3> QED
      BY <1>6, <1>12, <3>1 DEF True, Indexed, Ticketed, Accurate, Genuine
  <2>9. UsedTimes(list)'
    BY <1>6, <1>9, <1>10, <1>13, <2>2 DEF UsedTimes
  <2>10. ~Looked'
    BY <1>4, <1>12 DEF Looked
  <2> QED
    BY <2>8, <2>9, <2>10 DEF Honest
<1> QED
  BY <1>15, <1>16, <1>17 DEF MInv

LEMMA InitMInv == Init => MInv
<1> SUFFICES ASSUME Init
             PROVE  MInv
  OBVIOUS
<1>1. /\ folder \in [Id -> {0, MaxChanges + 1}]
      /\ list = [rows |-> <<>>, index |-> <<>>, tickets |-> <<>>]
      /\ scan = [state |-> "none", mods |-> Unread]
      /\ scheduled = FALSE /\ page = "closed" /\ event = FALSE
      /\ changes = 0 /\ mixed = FALSE
  BY Zenon DEF Init
<1>2. /\ list = [rows |-> list.rows, index |-> list.index, tickets |-> list.tickets]
      /\ list.rows = <<>> /\ list.index = <<>> /\ list.tickets = <<>>
  BY <1>1
<1>3. WellTyped(list)
  <2>1. list.rows \in Seq(Row) /\ DOMAIN list.rows = {}
    BY <1>2
  <2>2. DOMAIN list.index = {} /\ list.index = [x \in {} |-> x]
    BY <1>2
  <2>3. DOMAIN list.tickets = {} /\ list.tickets = [x \in {} |-> x]
    BY <1>2
  <2>4. Bounded(list)
    BY <2>1, <2>3 DEF Bounded
  <2> QED
    BY <1>2, <2>1, <2>2, <2>3, <2>4 DEF WellTyped
<1>4. {0, MaxChanges + 1} \subseteq Time /\ 0 \in 0..MaxChanges
  BY ModFolderAssumption DEF Time
<1>5. folder \in Folder
  BY <1>1, <1>4 DEF Folder
<1>6. Typed
  BY <1>1, <1>3, <1>4, <1>5, UnreadTyped DEF Typed, ScanRecord, Scans
<1>7. UsedFiles(folder) /\ UsedFiles(scan.mods)
  BY <1>1, UnreadTyped DEF UsedFiles, Used
<1>8. Honest
  <2>1. DOMAIN list.rows = {} /\ DOMAIN list.index = {} /\ DOMAIN list.tickets = {}
    BY <1>2
  <2>2. True(list, folder) /\ UsedTimes(list)
    BY <2>1 DEF True, Indexed, Ticketed, Accurate, UsedTimes
  <2>3. ~Looked
    BY <1>1 DEF Looked
  <2> QED
    BY <2>2, <2>3 DEF Honest
<1> QED
  BY <1>6, <1>7, <1>8 DEF MInv

\* Steps of the page and of the scan.
LEMMA ScanMInv ==
  ASSUME MInv, openedImpl \/ addPath \/ closedImpl \/ directoryChanged \/ runningStateChanged
               \/ loadTask
  PROVE  MInv'
<1>1. /\ scan \in ScanRecord /\ scheduled \in BOOLEAN /\ event \in BOOLEAN
      /\ page \in {"closed", "opening", "open"} /\ UsedFiles(scan.mods) /\ UsedFiles(folder)
      /\ folder \in Folder
  BY DEF MInv, Typed
<1>2. UNCHANGED <<folder, list, changes, mixed>>
  BY DEF openedImpl, addPath, closedImpl, directoryChanged, runningStateChanged, loadTask
<1>3. CASE openedImpl \/ addPath \/ directoryChanged \/ runningStateChanged
  <2>1. update
    BY <1>3 DEF openedImpl, addPath, directoryChanged, runningStateChanged
  <2>2. /\ scan' \in ScanRecord /\ scheduled' \in BOOLEAN /\ scan'.state # "none"
        /\ UsedFiles(scan'.mods)
    BY <1>1, <2>1, UpdateTyped
  <2>3. event' \in BOOLEAN /\ page' \in {"closed", "opening", "open"}
    BY <1>1, <1>3 DEF openedImpl, addPath, directoryChanged, runningStateChanged
  <2>4. ~Looked'
    BY <2>2 DEF Looked
  <2> QED
    BY <1>2, <2>2, <2>3, <2>4, QuietMInv
<1>4. CASE closedImpl
  <2>1. scan' = scan /\ scheduled' = scheduled /\ event' = FALSE /\ page' = "closed"
    BY <1>4 DEF closedImpl
  <2>2. ~Looked'
    BY <2>1 DEF Looked
  <2> QED
    BY <1>1, <1>2, <2>1, <2>2, QuietMInv
<1>5. CASE loadTask
  <2>1. /\ scan' = [state |-> "read", mods |-> folder]
        /\ scheduled' = scheduled /\ event' = event /\ page' = page
    BY <1>5 DEF loadTask
  <2>2. scan' \in ScanRecord /\ scan'.mods = folder /\ scan'.state = "read"
    BY <1>1, <2>1 DEF ScanRecord, Scans
  <2>3. ~Looked'
    BY <2>2 DEF Looked
  <2> QED
    BY <1>1, <1>2, <2>1, <2>2, <2>3, QuietMInv
<1> QED
  BY <1>3, <1>4, <1>5

\* A file comes, is replaced or goes, by way of the launcher or not.
LEMMA ChangeMInv ==
  ASSUME MInv, ChangedByAnother \/ \E m \in Mod : installMod(m)
  PROVE  MInv'
<1>1. /\ folder \in [Id -> Time] /\ changes \in 0..MaxChanges /\ 0 \in Time
  BY ModFolderAssumption DEF MInv, Typed, Folder, Time
<1>2. ASSUME NEW f, FolderBecomes(f)
      PROVE  changes + 1 \in Time
  <2>1. changes < MaxChanges
    BY <1>2 DEF FolderBecomes
  <2> QED
    BY <1>1, <2>1, ModFolderAssumption DEF Time
<1>3. CASE ChangedByAnother
  <2>1. PICK id \in Id, v \in {0, changes + 1} : FolderBecomes([folder EXCEPT ![id] = v])
    BY <1>3 DEF ChangedByAnother
  <2> DEFINE f == [folder EXCEPT ![id] = v]
  <2>2. v \in Time
    BY <1>1, <1>2, <2>1
  <2>3. f \in Folder /\ \A jd \in Id : f[jd] \in {folder[jd], 0, changes + 1}
    BY <1>1, <2>2 DEF Folder
  <2>4. UNCHANGED <<list, scan, scheduled, page, mixed>>
    BY <1>3 DEF ChangedByAnother
  <2>5. FolderBecomes(f)
    BY <2>1
  <2> HIDE DEF f
  <2> QED
    BY <2>3, <2>4, <2>5, FolderStep
<1>4. ASSUME NEW m \in Mod, installMod(m)
      PROVE  MInv'
  <2> DEFINE old == IF folder[Enabled(m)] # 0 THEN Enabled(m) ELSE Disabled(m)
             cleared == [folder EXCEPT ![old] = 0]
             f == [cleared EXCEPT ![Enabled(m)] = changes + 1]
  <2>1. Enabled(m) \in Id /\ old \in Id
    BY DEF Enabled, Disabled, Id
  <2>2. UNCHANGED <<list, page, mixed>>
    BY <1>4 DEF installMod
  <2>3. \/ FolderBecomes(f) /\ update
        \/ FolderBecomes(cleared) /\ UNCHANGED <<scan, scheduled>>
    BY <1>4 DEF installMod
  <2> HIDE DEF old
  <2>4. cleared \in Folder /\ \A jd \in Id : cleared[jd] \in {folder[jd], 0, changes + 1}
    BY <1>1, <2>1 DEF Folder
  <2> HIDE DEF cleared
  <2>5. changes + 1 \in Time =>
          f \in Folder /\ \A jd \in Id : f[jd] \in {folder[jd], 0, changes + 1}
    BY <2>1, <2>4 DEF Folder
  <2> HIDE DEF f
  <2>6. CASE FolderBecomes(f) /\ update
    BY <1>2, <2>2, <2>5, <2>6, FolderStep
  <2>7. CASE FolderBecomes(cleared) /\ UNCHANGED <<scan, scheduled>>
    BY <2>2, <2>4, <2>7, FolderStep
  <2> QED
    BY <2>3, <2>6, <2>7
<1> QED
  BY <1>3, <1>4

LEMMA NextMInv == MInv /\ [Next]_vars => MInv'
<1> SUFFICES ASSUME MInv, [Next]_vars
             PROVE  MInv'
  OBVIOUS
<1>1. CASE UNCHANGED vars
  <2>1. UNCHANGED <<folder, list, scan, scheduled, page, event, changes, mixed>>
    BY <1>1 DEF vars
  <2>2. /\ scan \in ScanRecord /\ scheduled \in BOOLEAN /\ event \in BOOLEAN
        /\ page \in {"closed", "opening", "open"} /\ UsedFiles(scan.mods)
    BY DEF MInv, Typed
  <2>3. Looked' => Looked
    BY <2>1 DEF Looked
  <2> QED
    BY <2>1, <2>2, <2>3, QuietMInv
<1> QED
  BY <1>1, ScanMInv, FinishUpdateMInv, ParseMInv, ChangeMInv, ToggleMInv, DeleteMInv DEF Next

\* The list, what is read and what is scanned have the types that the model gives them.
THEOREM TypeCorrect == Spec => []TypeOK
<1>1. MInv => TypeOK
  BY TypedIsTypeOK DEF MInv
<1> QED
  BY <1>1, InitMInv, NextMInv, PTL DEF Spec

\* Nothing is on its way to an open page any more, and no mod was toggled at a bad moment.
Settled == /\ page = "open" /\ ~event /\ scan.state = "none" /\ DOMAIN list.tickets = {}
           /\ ~mixed

LEMMA SettledShows ==
  ASSUME IInv, MInv, Settled
  PROVE  ShowsFolder
<1>1. scan.mods = folder
  BY DEF IInv, ScheduledBehind, NoChangeMissed, NothingDue, Settled
<1>2. Honest /\ Looked /\ WellTyped(list)
  BY DEF MInv, Settled, Looked, Typed
<1>3. Indexed(list) /\ Ticketed(list) /\ Accurate(list, folder) /\ Matches(list, folder)
  BY <1>1, <1>2 DEF Honest, True
<1>4. ASSUME NEW i \in DOMAIN list.rows
      PROVE  /\ list.rows[i].id \in Present(folder)
             /\ list.rows[i].time = folder[list.rows[i].id]
             /\ list.rows[i].details = folder[list.rows[i].id]
  <2>1. list.rows[i].id \in Present(folder) /\ list.rows[i].time = folder[list.rows[i].id]
    BY <1>3 DEF Matches
  <2>2. list.rows[i].ticket = 0
    BY <1>3 DEF Ticketed, Settled
  <2>3. Genuine(list, list.rows[i])
    BY <1>3, <2>1 DEF Accurate
  <2> QED
    BY <2>1, <2>2, <2>3 DEF Genuine
<1>5. \A id \in Present(folder) : \E i \in DOMAIN list.rows : list.rows[i].id = id
  BY <1>3 DEF Matches
<1>6. Shown = {<<id, folder[id], folder[id]>> : id \in Present(folder)}
  <2>1. ASSUME NEW i \in DOMAIN list.rows
        PROVE  <<list.rows[i].id, list.rows[i].time, list.rows[i].details>>
                 = <<list.rows[i].id, folder[list.rows[i].id], folder[list.rows[i].id]>>
    BY <1>4
  <2>2. ASSUME NEW x \in Shown
        PROVE  \E id \in Present(folder) : x = <<id, folder[id], folder[id]>>
    <3>1. PICK i \in DOMAIN list.rows :
                 x = <<list.rows[i].id, list.rows[i].time, list.rows[i].details>>
      BY DEF Shown, ToSet
    <3> QED
      BY <1>4, <2>1, <3>1
  <2>3. ASSUME NEW id \in Present(folder)
        PROVE  <<id, folder[id], folder[id]>> \in Shown
    <3>1. PICK i \in DOMAIN list.rows : list.rows[i].id = id
      BY <1>5
    <3>2. list.rows[i] \in ToSet(list.rows)
      BY DEF ToSet
    <3> QED
      BY <2>1, <3>1, <3>2 DEF Shown
  <2> QED
    BY <2>2, <2>3
<1>7. Len(list.rows) = Cardinality(Present(folder))
  <2> DEFINE n == Len(list.rows)
             g == [i \in 1..n |-> list.rows[i].id]
  <2>1. n \in Nat /\ DOMAIN list.rows = 1..n
    BY <1>2, Shapes
  <2> HIDE DEF n
  <2>2. g \in [1..n -> Present(folder)]
    BY <1>4, <2>1
  <2>3. \A i, j \in 1..n : g[i] = g[j] => i = j
    BY <1>3, <2>1 DEF Indexed
  <2>4. \A id \in Present(folder) : \E i \in 1..n : g[i] = id
    BY <1>5, <2>1
  <2> HIDE DEF g
  <2>5. g \in Bijection(1..n, Present(folder))
    BY <2>2, <2>3, <2>4 DEF Bijection, Injection, Surjection, IsInjective
  <2>6. ExistsBijection(1..n, Present(folder))
    BY <2>5 DEF ExistsBijection
  <2> QED
    BY <2>1, <2>6, FS_CountingElements DEF n
<1> QED
  BY <1>6, <1>7 DEF ShowsFolder

\* A page at which nothing more is due shows each file of the folder once, as it is and
\* with what was read from it (ModFolderModel.cpp:118-243): what ShownIsTrue says the page
\* comes to, without the fairness that gets it there.
THEOREM SettledIsTrue == Spec => [](Settled => ShowsFolder)
<1>1. IInv /\ MInv => (Settled => ShowsFolder)
  BY SettledShows
<1> QED
  BY <1>1, InitHolds, StepHolds, InitMInv, NextMInv, PTL DEF Spec
=============================================================================
