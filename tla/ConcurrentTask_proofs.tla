------------------------ MODULE ConcurrentTask_proofs ------------------------
(***************************************************************************)
(* Proofs about ConcurrentTask, for every set of children and every number *)
(* of slots: its bookkeeping never loses or doubles a child, its steps are *)
(* those of TaskBag, a success leaves no child out but those that fail     *)
(* without giving a reason, and a sequence runs its steps in order.        *)
(***************************************************************************)
EXTENDS ConcurrentTask, FiniteSetTheorems, SequenceTheorems, TLAPS

-----------------------------------------------------------------------------
(* Lemmas about the operators the handlers are built from. *)

\* What the type of a task record says of its fields.
LEMMA RecordFields ==
  ASSUME NEW t \in TaskRecord
  PROVE  /\ t.state \in TaskState /\ t.all \in Seq(Child) /\ t.queue \in Seq(Child)
         /\ t.doing \subseteq Child /\ t.succeeded \in Nat /\ t.failed \in Nat
         /\ t.skipped \in Nat /\ t.fail_reasons \in Nat /\ t.aborted \in BOOLEAN
BY DEF TaskRecord

\* Positions in the first k of a queue form a finite set of at most k.
LEMMA AmongFinite ==
  ASSUME NEW t, NEW cs, NEW k \in Nat, NEW S
  PROVE  /\ IsFiniteSet(Among(t, cs, k, S))
         /\ Cardinality(Among(t, cs, k, S)) \in 0..k
<1>1. IsFiniteSet(1..k) /\ Cardinality(1..k) = k
  BY FS_Interval
<1>2. Among(t, cs, k, S) \in SUBSET (1..k)
  BY DEF Among
<1> QED
  BY <1>1, <1>2, FS_Subset, FS_CardinalityType

\* The first k entries are children to run, children that ran well and children
\* that ran badly, and no entry is two of these.
LEMMA AmongPartition ==
  ASSUME NEW t, NEW cs \in [Child -> ChildState], t.queue \in Seq(Child),
         NEW k \in 0..Len(t.queue)
  PROVE  k = Cardinality(ToRun(t, cs, k)) + Cardinality(RanWell(t, cs, k))
             + Cardinality(RanBadly(t, cs, k))
<1> DEFINE R == ToRun(t, cs, k)  W == RanWell(t, cs, k)  B == RanBadly(t, cs, k)
<1>k. k \in Nat
  OBVIOUS
<1>1. IsFiniteSet(R) /\ IsFiniteSet(W) /\ IsFiniteSet(B)
  BY <1>k, AmongFinite DEF ToRun, RanWell, RanBadly
<1>2. \A i \in 1..k : cs[t.queue[i]] \in ChildState
  OBVIOUS
<1>3. R \cup (W \cup B) = 1..k
  BY <1>2 DEF ToRun, RanWell, RanBadly, Among, ChildState, ChildEnded, Ended
<1>4. W \cap B = {} /\ R \cap (W \cup B) = {}
  BY DEF ToRun, RanWell, RanBadly, Among, ChildEnded, Ended
<1>5. Cardinality(1..k) = k
  BY <1>k, FS_Interval
<1> HIDE DEF R, W, B
<1>6. /\ IsFiniteSet(W \cup B)
      /\ Cardinality(W \cup B) = Cardinality(W) + Cardinality(B) - Cardinality(W \cap B)
  BY <1>1, FS_Union
<1>7. Cardinality(R \cup (W \cup B))
        = Cardinality(R) + Cardinality(W \cup B) - Cardinality(R \cap (W \cup B))
  BY <1>1, <1>6, FS_Union
<1>8. Cardinality({}) = 0 /\ Cardinality(R) \in Nat /\ Cardinality(W) \in Nat
      /\ Cardinality(B) \in Nat
  BY <1>1, FS_EmptySet, FS_CardinalityType
<1>9. Cardinality(R \cup (W \cup B)) = k
  BY <1>3, <1>5, Zenon
<1>10. Cardinality(W \cap B) = 0 /\ Cardinality(R \cap (W \cup B)) = 0
  BY <1>4, <1>8, Zenon
<1>11. k = Cardinality(R) + Cardinality(W) + Cardinality(B)
  BY <1>k, <1>6, <1>7, <1>8, <1>9, <1>10
<1> QED
  BY <1>11 DEF R, W, B

\* One more entry is at most one more child to run.
LEMMA ToRunStep ==
  ASSUME NEW t, NEW cs, NEW k \in Nat \ {0}
  PROVE  Cardinality(ToRun(t, cs, k)) <= Cardinality(ToRun(t, cs, k - 1)) + 1
<1> DEFINE P == ToRun(t, cs, k - 1)
<1>1. IsFiniteSet(P)
  BY AmongFinite DEF ToRun
<1>2. IsFiniteSet(P \cup {k}) /\ Cardinality(P \cup {k}) <= Cardinality(P) + 1
  BY <1>1, FS_AddElement, FS_CardinalityType
<1>3. ToRun(t, cs, k) \in SUBSET (P \cup {k})
  BY DEF ToRun, Among
<1>4. Cardinality(ToRun(t, cs, k)) <= Cardinality(P \cup {k})
  BY <1>2, <1>3, FS_Subset
<1>5. Cardinality(P) \in Nat /\ Cardinality(P \cup {k}) \in Nat
  BY <1>1, <1>2, FS_CardinalityType
<1>6. IsFiniteSet(ToRun(t, cs, k))
  BY AmongFinite DEF ToRun
<1>7. Cardinality(ToRun(t, cs, k)) \in Nat
  BY <1>6, FS_CardinalityType
<1> QED
  BY <1>2, <1>4, <1>5, <1>7

\* Entries of a queue without repetitions at the positions P are as many as P.
LEMMA DistinctEntries ==
  ASSUME NEW q, NEW P \in SUBSET (DOMAIN q), IsFiniteSet(P),
         \A i, j \in DOMAIN q : q[i] = q[j] => i = j
  PROVE  /\ IsFiniteSet({q[i] : i \in P})
         /\ Cardinality({q[i] : i \in P}) = Cardinality(P)
<1> DEFINE T == {q[i] : i \in P}
           f == [i \in P |-> q[i]]
<1>1. f \in Surjection(P, T)
  BY DEF Surjection, IsInjective
<1>2. f \in Injection(P, T)
  BY DEF Injection, IsInjective
<1> QED
  BY <1>1, <1>2, FS_Surjection

\* Appending to a sequence adds one to its entries.
LEMMA AppendEntries ==
  ASSUME NEW q \in Seq(Child), NEW c \in Child
  PROVE  Entries(Append(q, c)) = Entries(q) \cup {c}
<1> DEFINE r == Append(q, c)
<1>1. /\ \A i \in DOMAIN q : r[i] = q[i]
      /\ r[Len(q) + 1] = c /\ DOMAIN r = DOMAIN q \cup {Len(q) + 1}
  OBVIOUS
<1> HIDE DEF r
<1> QED
  BY <1>1 DEF Entries, r

-----------------------------------------------------------------------------
(* The bookkeeping of one object in mid-handler, and the pieces of handlers  *)
(* that keep it.                                                             *)

Good(t) == t \in TaskRecord /\ IsFiniteSet(t.doing) /\ Accounted(t)

\* dropQueued() turns every queued child into a skipped one.
LEMMA DropGood ==
  ASSUME NEW t, Good(t)
  PROVE  /\ Good(dropQueued(t))
         /\ dropQueued(t).queue = <<>>
<1> DEFINE u == dropQueued(t)
<1>1. /\ u.state = t.state /\ u.all = t.all /\ u.queue = <<>> /\ u.doing = t.doing
      /\ u.succeeded = t.succeeded /\ u.failed = t.failed
      /\ u.skipped = t.skipped + Len(t.queue)
  BY DEF dropQueued, Good, TaskRecord
<1>2. u \in TaskRecord
  <2>1. <<>> \in Seq(Child) /\ t.skipped + Len(t.queue) \in Nat
    BY RecordFields DEF Good
  <2> QED
    BY <2>1 DEF dropQueued, Good, TaskRecord
<1>3. NoneTwice(u)
  BY <1>1 DEF Good, Accounted, NoneTwice, Entries
<1>4. IsFiniteSet(u.doing) /\ Cardinality(u.doing) <= MaxConcurrent
  BY <1>1 DEF Good, Accounted
<1>5. Conserved(u)
  <2>1. Cardinality(t.doing) \in Nat
    BY FS_CardinalityType DEF Good
  <2>2. Len(t.queue) \in Nat /\ Len(u.queue) = 0
    BY <1>1, RecordFields DEF Good
  <2> QED
    BY <1>1, <2>1, <2>2, RecordFields
    DEF Good, Accounted, Conserved, totalSize, finishedSize
<1> QED
  BY <1>1, <1>2, <1>3, <1>4, <1>5 DEF Good, Accounted

\* The loop of startNext() moves the entries it takes to a slot or to a count,
\* and never takes more slots than there are.
LEMMA TakeGood ==
  ASSUME NEW t, Good(t), NEW cs \in [Child -> ChildState],
         NEW k \in 0..Len(t.queue), TakesFirst(t, cs, k)
  PROVE  /\ Good(take(t, cs, k))
         /\ take(t, cs, k).state = t.state
<1> DEFINE u == take(t, cs, k)
           R == Cardinality(ToRun(t, cs, k))
           W == Cardinality(RanWell(t, cs, k))
           B == Cardinality(RanBadly(t, cs, k))
           N == {t.queue[i] : i \in ToRun(t, cs, k)}
           n == Len(t.queue)
<1>1. t \in TaskRecord /\ t.queue \in Seq(Child) /\ n \in Nat /\ k \in Nat
  BY RecordFields DEF Good
<1>2. R \in Nat /\ W \in Nat /\ B \in Nat /\ k = R + W + B
  <2>1. k = R + W + B
    BY <1>1, AmongPartition
  <2>2. R \in 0..k /\ W \in 0..k /\ B \in 0..k
    BY <1>1, AmongFinite DEF ToRun, RanWell, RanBadly
  <2> QED
    BY <1>1, <2>1, <2>2
<1>3. ToRun(t, cs, k) \subseteq 1..k /\ 1..k \subseteq DOMAIN t.queue
  BY <1>1 DEF ToRun, Among
<1>4. IsFiniteSet(N) /\ Cardinality(N) = R
  <2> DEFINE P == ToRun(t, cs, k)  q == t.queue
  <2>1. IsFiniteSet(P)
    BY <1>1, AmongFinite DEF ToRun
  <2>2. \A i, j \in DOMAIN q : q[i] = q[j] => i = j
    BY DEF Good, Accounted, NoneTwice
  <2>3. P \in SUBSET (DOMAIN q)
    BY <1>3
  <2> HIDE DEF u, W, B, n, P, q
  <2>4. /\ IsFiniteSet({q[i] : i \in P})
        /\ Cardinality({q[i] : i \in P}) = Cardinality(P)
    BY <2>1, <2>2, <2>3, DistinctEntries
  <2> QED
    BY <2>4 DEF P, q
<1>5. N \subseteq Entries(t.queue)
  BY <1>3 DEF Entries
<1>6. t.doing \cap N = {}
  BY <1>5 DEF Good, Accounted, NoneTwice
<1>7. IsFiniteSet(t.doing \cup N) /\ Cardinality(t.doing \cup N) = Cardinality(t.doing) + R
  <2>1. Cardinality(t.doing \cap N) = 0
    BY <1>6, FS_EmptySet, Zenon
  <2>2. /\ IsFiniteSet(t.doing \cup N)
        /\ Cardinality(t.doing \cup N)
             = Cardinality(t.doing) + Cardinality(N) - Cardinality(t.doing \cap N)
    BY <1>4, FS_Union DEF Good
  <2>3. Cardinality(t.doing) \in Nat
    BY FS_CardinalityType DEF Good
  <2> QED
    BY <1>2, <1>4, <2>1, <2>2, <2>3
<1>8. /\ SubSeq(t.queue, k + 1, n) \in Seq(Child)
      /\ Len(SubSeq(t.queue, k + 1, n)) = n - k
      /\ \A i \in 1..(n - k) : SubSeq(t.queue, k + 1, n)[i] = t.queue[k + i]
  <2>1. \A i \in (k + 1)..n : t.queue[i] \in Child
    BY <1>1
  <2>2. k + 1 \in Int /\ n \in Int
    BY <1>1
  <2>3. /\ SubSeq(t.queue, k + 1, n) \in Seq(Child)
        /\ Len(SubSeq(t.queue, k + 1, n)) = IF k + 1 <= n THEN n - (k + 1) + 1 ELSE 0
        /\ \A i \in 1..(n - (k + 1) + 1) :
             SubSeq(t.queue, k + 1, n)[i] = t.queue[(k + 1) + i - 1]
    BY <2>1, <2>2, SubSeqProperties
  <2> QED
    BY <1>1, <2>3
<1>9. /\ u.state = t.state /\ u.all = t.all /\ u.queue = SubSeq(t.queue, k + 1, n)
      /\ u.doing = t.doing \cup N /\ u.succeeded = t.succeeded + W
      /\ u.failed = t.failed + B /\ u.skipped = t.skipped
  BY <1>1 DEF take, TaskRecord
<1>10. N \subseteq Child
  BY <1>1, <1>3
<1>11. u \in TaskRecord
  <2>1. /\ t.doing \in SUBSET Child
        /\ t.succeeded \in Nat /\ t.failed \in Nat /\ t.fail_reasons \in Nat
    BY <1>1, RecordFields
  <2>2. u = [t EXCEPT !.queue = SubSeq(t.queue, k + 1, n), !.doing = t.doing \cup N,
                      !.succeeded = t.succeeded + W, !.failed = t.failed + B,
                      !.fail_reasons = t.fail_reasons + B]
    BY DEF take
  <2> HIDE DEF u, N, R, W, B, n
  <2>3. t.doing \cup N \in SUBSET Child
    BY <1>10, <2>1
  <2>4. W \in Nat /\ B \in Nat
    BY <1>2
  <2>5. t.succeeded + W \in Nat /\ t.failed + B \in Nat /\ t.fail_reasons + B \in Nat
    BY <2>1, <2>4
  <2> QED
    BY <1>1, <1>8, <2>2, <2>3, <2>5 DEF TaskRecord
<1>12. NoneTwice(u)
  <2>1. \A i \in DOMAIN u.queue : k + i \in DOMAIN t.queue /\ u.queue[i] = t.queue[k + i]
    BY <1>1, <1>8, <1>9
  <2>2. \A i, j \in DOMAIN u.queue : u.queue[i] = u.queue[j] => i = j
    <3>1. SUFFICES ASSUME NEW i \in DOMAIN u.queue, NEW j \in DOMAIN u.queue,
                          u.queue[i] = u.queue[j]
                   PROVE  i = j
      OBVIOUS
    <3>2. k + i = k + j
      BY <2>1, <3>1 DEF Good, Accounted, NoneTwice
    <3>3. i \in Nat /\ j \in Nat
      BY <1>1, <1>8, <1>9
    <3> QED
      BY <1>1, <3>2, <3>3
  <2>3. u.doing \cap Entries(u.queue) = {}
    <3>1. SUFFICES ASSUME NEW i \in DOMAIN u.queue PROVE u.queue[i] \notin u.doing
      BY DEF Entries
    <3>2. u.queue[i] \notin t.doing
      BY <2>1 DEF Good, Accounted, NoneTwice, Entries
    <3>3. u.queue[i] \notin N
      <4>1. SUFFICES ASSUME NEW j \in ToRun(t, cs, k), t.queue[j] = u.queue[i] PROVE FALSE
        OBVIOUS
      <4>2. j \in DOMAIN t.queue /\ j <= k /\ i >= 1
        BY <1>1, <1>3, <1>8, <1>9
      <4>3. j = k + i
        BY <2>1, <4>1, <4>2 DEF Good, Accounted, NoneTwice
      <4> QED
        BY <1>1, <1>8, <1>9, <4>2, <4>3
    <3> QED
      BY <1>9, <3>2, <3>3
  <2>4. u.doing \cup Entries(u.queue) \subseteq Entries(u.all)
    <3>1. Entries(u.queue) \subseteq Entries(t.queue)
      BY <2>1 DEF Entries
    <3> QED
      BY <1>5, <1>9, <3>1 DEF Good, Accounted, NoneTwice
  <2> QED
    BY <2>2, <2>3, <2>4 DEF NoneTwice
<1>13. Conserved(u)
  <2>1. Cardinality(t.doing) \in Nat
    BY FS_CardinalityType DEF Good
  <2>2. Len(t.all) = t.succeeded + t.failed + t.skipped + Cardinality(t.doing) + n
    BY DEF Good, Accounted, Conserved, totalSize, finishedSize
  <2>3. Len(u.queue) = n - k /\ Cardinality(u.doing) = Cardinality(t.doing) + R
    BY <1>7, <1>8, <1>9
  <2>4. t.succeeded \in Nat /\ t.failed \in Nat /\ t.skipped \in Nat
    BY <1>1, RecordFields
  <2>5. /\ Len(u.all) = Len(t.all) /\ u.succeeded = t.succeeded + W
        /\ u.failed = t.failed + B /\ u.skipped = t.skipped
    BY <1>9
  <2>6. n \in Nat /\ k \in Nat
    BY <1>1
  <2>7. ((t.succeeded + W) + (t.failed + B) + t.skipped) + (Cardinality(t.doing) + R) + (n - k)
          = (t.succeeded + t.failed + t.skipped) + Cardinality(t.doing) + n
    <3>1. PICK s \in Nat, f \in Nat, d \in Nat, p \in Nat, r \in Nat, w \in Nat, b \in Nat,
               m \in Nat, j \in Nat :
            /\ s = t.succeeded /\ f = t.failed /\ d = t.skipped /\ p = Cardinality(t.doing)
            /\ r = R /\ w = W /\ b = B /\ m = n /\ j = k
      BY <1>2, <2>1, <2>4, <2>6
    <3>2. j = r + w + b
      BY <1>2, <3>1
    <3>3. ((s + w) + (f + b) + d) + (p + r) + (m - j) = (s + f + d) + p + m
      BY <3>2
    <3> QED
      BY <3>1, <3>3
  <2> HIDE DEF u, R, W, B, n
  <2> QED
    BY <2>2, <2>3, <2>5, <2>7 DEF Conserved, totalSize, finishedSize
<1>14. Cardinality(u.doing) <= MaxConcurrent
  <2>1. Cardinality(t.doing) \in Nat /\ Cardinality(t.doing) <= MaxConcurrent
    BY FS_CardinalityType DEF Good, Accounted
  <2>2. CASE k = 0
    BY <1>2, <1>7, <1>9, <2>1, <2>2
  <2>3. CASE k # 0
    <3>1. k \in Nat \ {0} /\ k - 1 \in 0..(k - 1) /\ k - 1 \in Nat
      BY <1>1, <2>3
    <3>2. R <= Cardinality(ToRun(t, cs, k - 1)) + 1
      BY <3>1, ToRunStep
    <3>3. Cardinality(t.doing) + Cardinality(ToRun(t, cs, k - 1)) < MaxConcurrent
      BY <3>1 DEF TakesFirst, HasSlot
    <3>4. Cardinality(ToRun(t, cs, k - 1)) \in Nat
      BY <3>1, AmongFinite DEF ToRun
    <3> QED
      BY <1>2, <1>7, <1>9, <2>1, <3>2, <3>3, <3>4, MaxConcurrentAssumption
  <2> QED
    BY <2>2, <2>3
<1> QED
  BY <1>7, <1>9, <1>11, <1>12, <1>13, <1>14 DEF Good, Accounted

\* Children that leave their slots are counted once each.
LEMMA RetireGood ==
  ASSUME NEW t, Good(t), NEW S \in SUBSET t.doing, NEW u \in TaskRecord,
         u.all = t.all, u.queue = t.queue, u.doing = t.doing \ S,
         finishedSize(u) = finishedSize(t) + Cardinality(S)
  PROVE  Good(u)
<1>1. IsFiniteSet(S) /\ IsFiniteSet(u.doing)
  BY FS_Subset DEF Good
<1>2. Cardinality(t.doing) = Cardinality(S) + Cardinality(u.doing)
  <2>1. t.doing = S \cup u.doing /\ S \cap u.doing = {}
    OBVIOUS
  <2>2. Cardinality(S \cup u.doing)
          = Cardinality(S) + Cardinality(u.doing) - Cardinality(S \cap u.doing)
    BY <1>1, FS_Union
  <2>3. Cardinality(S \cap u.doing) = 0
    BY <2>1, FS_EmptySet, Zenon
  <2>4. Cardinality(S \cup u.doing) = Cardinality(t.doing)
    BY <2>1, Zenon
  <2>5. Cardinality(S) \in Nat /\ Cardinality(u.doing) \in Nat
    BY <1>1, FS_CardinalityType
  <2> QED
    BY <2>2, <2>3, <2>4, <2>5
<1>3. NoneTwice(u)
  BY DEF Good, Accounted, NoneTwice
<1>4. PICK s \in Nat, d \in Nat, n \in Nat, m \in Nat :
         s = Cardinality(S) /\ d = Cardinality(u.doing) /\ n = Len(u.queue) /\ m = finishedSize(t)
  <2>1. finishedSize(t) \in Nat
    <3>1. t.succeeded \in Nat /\ t.failed \in Nat /\ t.skipped \in Nat
      BY RecordFields DEF Good
    <3> QED
      BY <3>1 DEF finishedSize
  <2>2. Len(u.queue) \in Nat
    <3>1. u.queue \in Seq(Child)
      BY RecordFields
    <3> QED
      BY <3>1
  <2>3. Cardinality(S) \in Nat /\ Cardinality(u.doing) \in Nat
    BY <1>1, FS_CardinalityType
  <2> QED
    BY <2>1, <2>2, <2>3
<1>5. totalSize(u) = m + (s + d) + n
  BY <1>2, <1>4 DEF Good, Accounted, Conserved, totalSize
<1>6. Conserved(u)
  <2>1. totalSize(u) = (m + s) + d + n
    BY <1>5
  <2> QED
    BY <1>4, <2>1 DEF Conserved
<1>7. Cardinality(u.doing) <= MaxConcurrent
  <2>1. s + d <= MaxConcurrent
    BY <1>2, <1>4 DEF Good, Accounted
  <2>2. d <= MaxConcurrent
    BY <2>1, MaxConcurrentAssumption
  <2> QED
    BY <1>4, <2>2
<1> QED
  BY <1>1, <1>3, <1>6, <1>7 DEF Good, Accounted

\* Ending a task that is idle leaves its bookkeeping alone.
LEMMA FinishGood ==
  ASSUME NEW t, Good(t), t.state = "Running"
  PROVE  /\ Good(finishIfIdle(t))
         /\ IdleUnlessRunning(finishIfIdle(t))
<1> DEFINE u == finishIfIdle(t)
<1>1. /\ u.all = t.all /\ u.queue = t.queue /\ u.doing = t.doing
      /\ u.succeeded = t.succeeded /\ u.failed = t.failed /\ u.skipped = t.skipped
  BY DEF finishIfIdle, finishTask, Good, TaskRecord
<1>2. u \in TaskRecord
  BY DEF finishIfIdle, finishTask, Good, TaskRecord, TaskState, Ended
<1>3. Good(u)
  <2> HIDE DEF u
  <2> QED
    BY <1>1, <1>2
    DEF Good, Accounted, NoneTwice, Conserved, totalSize, finishedSize
<1>4. u.state = "Running" \/ (u.queue = <<>> /\ u.doing = {})
  BY <1>1 DEF finishIfIdle
<1>5. IdleUnlessRunning(u)
  <2> HIDE DEF u
  <2> QED
    BY <1>4 DEF IdleUnlessRunning, isFinished, Ended
<1> QED
  BY <1>3, <1>5

\* startNext() keeps the bookkeeping, whoever calls it and however the children are.
LEMMA StartNextGood ==
  ASSUME NEW t, Good(t), IdleUnlessRunning(t), NEW cs \in [Child -> ChildState],
         NEW p, p \subseteq Child \cup {"startNext"}, startNext(t, cs, p)
  PROVE  /\ Good(self') /\ IdleUnlessRunning(self')
         /\ posted' \subseteq Child \cup {"startNext"}
<1>1. CASE t.state # "Running"
  BY <1>1 DEF startNext
<1>2. CASE t.state = "Running"
  <2> DEFINE u == IF t.aborted THEN dropQueued(t) ELSE t
  <2>1. PICK k \in 0..Len(u.queue) :
          /\ TakesFirst(u, cs, k)
          /\ self' = finishIfIdle(take(u, cs, k))
          /\ posted' = p \cup {u.queue[i] : i \in Among(u, cs, k, {"Inactive"})}
    BY <1>2 DEF startNext
  <2>2. Good(u) /\ u.state = "Running"
    BY <1>2, DropGood DEF dropQueued, Good, TaskRecord
  <2> HIDE DEF u
  <2>3. Good(take(u, cs, k)) /\ take(u, cs, k).state = "Running"
    BY <2>1, <2>2, TakeGood
  <2>4. Good(self') /\ IdleUnlessRunning(self')
    BY <2>1, <2>3, FinishGood
  <2>5. {u.queue[i] : i \in Among(u, cs, k, {"Inactive"})} \subseteq Child
    <3>1. u.queue \in Seq(Child)
      BY <2>2, RecordFields DEF Good
    <3>2. \A i \in 1..k : u.queue[i] \in Child
      BY <2>1, <3>1
    <3> QED
      BY <3>2 DEF Among
  <2> QED
    BY <2>1, <2>4, <2>5
<1> QED
  BY <1>1, <1>2

-----------------------------------------------------------------------------
(* The invariant. *)

IInv == /\ Good(self)
        /\ IdleUnlessRunning(self)
        /\ child \in [Child -> ChildState]
        /\ posted \subseteq Child \cup {"startNext"}

LEMMA InitIInv == Init => IInv
<1> SUFFICES ASSUME Init PROVE IInv
  OBVIOUS
<1>1. self \in TaskRecord
  BY DEF Init, TaskRecord, TaskState
<1>2. Cardinality(self.doing) = 0 /\ IsFiniteSet(self.doing)
  BY FS_EmptySet DEF Init
<1>3. Accounted(self)
  BY <1>2, MaxConcurrentAssumption
  DEF Init, Accounted, NoneTwice, Entries, Conserved, totalSize, finishedSize
<1>4. IdleUnlessRunning(self)
  BY DEF Init, IdleUnlessRunning
<1> QED
  BY <1>1, <1>2, <1>3, <1>4 DEF Init, IInv, Good, ChildState

-----------------------------------------------------------------------------
(* Each action keeps the invariant. *)

LEMMA AddTaskIInv ==
  ASSUME IInv, NEW c \in Child, addTask(c)
  PROVE  IInv'
<1> DEFINE t == self  u == self'
<1>1. t \in TaskRecord /\ Good(t) /\ t.all \in Seq(Child) /\ t.queue \in Seq(Child)
  BY RecordFields DEF IInv, Good
<1>2. /\ u.state = t.state /\ u.all = Append(t.all, c) /\ u.queue = Append(t.queue, c)
      /\ u.doing = t.doing /\ u.succeeded = t.succeeded /\ u.failed = t.failed
      /\ u.skipped = t.skipped
  BY <1>1 DEF addTask, TaskRecord
<1>3. u \in TaskRecord
  <2>1. Append(t.all, c) \in Seq(Child) /\ Append(t.queue, c) \in Seq(Child)
    BY <1>1
  <2> QED
    BY <1>1, <2>1 DEF addTask, TaskRecord
<1>4. c \notin Entries(t.all) /\ ~isFinished(t)
  BY DEF addTask
<1>5. /\ Len(u.all) = Len(t.all) + 1 /\ Len(u.queue) = Len(t.queue) + 1
      /\ \A i \in DOMAIN t.queue : u.queue[i] = t.queue[i]
      /\ \A i \in DOMAIN t.all : u.all[i] = t.all[i]
      /\ u.all[Len(t.all) + 1] = c /\ u.queue[Len(t.queue) + 1] = c
      /\ DOMAIN u.all = DOMAIN t.all \cup {Len(t.all) + 1}
      /\ DOMAIN u.queue = DOMAIN t.queue \cup {Len(t.queue) + 1}
  BY <1>1, <1>2
<1>6. Entries(u.all) = Entries(t.all) \cup {c} /\ Entries(u.queue) = Entries(t.queue) \cup {c}
  BY <1>1, <1>2, AppendEntries
<1>7. NoneTwice(u)
  <2>1. c \notin Entries(t.queue) /\ c \notin t.doing
    BY <1>1, <1>4 DEF Good, Accounted, NoneTwice
  <2>2. \A i, j \in DOMAIN u.queue : u.queue[i] = u.queue[j] => i = j
    <3>1. \A i \in DOMAIN t.queue : u.queue[i] # c
      BY <1>5, <2>1 DEF Entries
    <3>2. \A i, j \in DOMAIN t.queue : t.queue[i] = t.queue[j] => i = j
      BY <1>1 DEF Good, Accounted, NoneTwice
    <3> HIDE DEF u
    <3> QED
      BY <1>5, <3>1, <3>2
  <2> HIDE DEF u
  <2> QED
    BY <1>1, <1>2, <1>6, <2>1, <2>2 DEF Good, Accounted, NoneTwice
<1>8. Conserved(u)
  <2>1. PICK m \in Nat, d \in Nat, n \in Nat :
           m = finishedSize(t) /\ d = Cardinality(t.doing) /\ n = Len(t.queue)
    BY <1>1, RecordFields, FS_CardinalityType DEF Good, finishedSize
  <2>2. Len(u.all) = (m + d + n) + 1 /\ Len(u.queue) = n + 1
    BY <1>1, <1>5, <2>1 DEF Good, Accounted, Conserved, totalSize
  <2>3. finishedSize(u) = m /\ Cardinality(u.doing) = d
    BY <1>2, <2>1 DEF finishedSize
  <2>4. (m + d + n) + 1 = m + d + (n + 1)
    OBVIOUS
  <2> QED
    BY <2>2, <2>3, <2>4 DEF Conserved, totalSize
<1>9. Good(u)
  BY <1>1, <1>2, <1>3, <1>7, <1>8 DEF Good, Accounted
<1>10. IdleUnlessRunning(u)
  BY <1>2, <1>4 DEF IInv, IdleUnlessRunning, isFinished
<1>11. (child \in [Child -> ChildState])' /\ (posted \subseteq Child \cup {"startNext"})'
  BY DEF addTask, IInv
<1> QED
  BY <1>9, <1>10, <1>11 DEF IInv, Good, Accounted, NoneTwice, Conserved, IdleUnlessRunning,
     Entries, isFinished, totalSize, finishedSize, TaskRecord

LEMMA StartIInv ==
  ASSUME IInv, start
  PROVE  IInv'
<1> DEFINE t == [self EXCEPT !.state = "Running"]
<1>1. self \in TaskRecord
  BY DEF IInv, Good
<1>2. /\ t.state = "Running" /\ t.all = self.all /\ t.queue = self.queue /\ t.doing = self.doing
      /\ t.succeeded = self.succeeded /\ t.failed = self.failed /\ t.skipped = self.skipped
  BY <1>1 DEF TaskRecord
<1>3. t \in TaskRecord
  BY <1>1 DEF TaskRecord, TaskState
<1>4. startNext(t, child, posted)
  BY DEF start
<1> HIDE DEF t
<1>5. Good(t) /\ IdleUnlessRunning(t)
  BY <1>2, <1>3
  DEF IInv, Good, Accounted, NoneTwice, Conserved, totalSize, finishedSize, IdleUnlessRunning,
      isFinished, Ended
<1>6. Good(self') /\ IdleUnlessRunning(self') /\ posted' \subseteq Child \cup {"startNext"}
  BY <1>4, <1>5, StartNextGood DEF IInv
<1>7. child' = child
  BY DEF start
<1> QED
  BY <1>6, <1>7 DEF IInv

LEMMA StartNextEventIInv ==
  ASSUME IInv, startNextEvent
  PROVE  IInv'
<1>1. startNext(self, child, posted \ {"startNext"})
  BY DEF startNextEvent
<1>2. Good(self') /\ IdleUnlessRunning(self') /\ posted' \subseteq Child \cup {"startNext"}
  BY <1>1, StartNextGood DEF IInv
<1> QED
  BY <1>2 DEF IInv, startNextEvent

\* abort() makes of the object one that is aborted, has nothing queued, and counts the
\* children that end at once as failed with a reason.
LEMMA AbortMakes ==
  ASSUME IInv, abort
  PROVE  \E u, S :
           /\ S \in SUBSET {c \in self.doing : child[c] = "Running"}
           /\ Good(u) /\ IdleUnlessRunning(u)
           /\ u.state = self.state /\ u.all = self.all /\ u.aborted = TRUE
           /\ u.queue = <<>> /\ u.doing = self.doing \ S
           /\ u.succeeded = self.succeeded /\ u.skipped = self.skipped + Len(self.queue)
           /\ Cardinality(S) \in Nat
           /\ u.failed = self.failed + Cardinality(S)
           /\ u.fail_reasons = self.fail_reasons + Cardinality(S)
           /\ self' = IF u.state = "Running" THEN finishIfIdle(u) ELSE u
           /\ child' = [c \in Child |-> IF c \in S THEN "AbortedByUser" ELSE child[c]]
           /\ UNCHANGED posted
<1> DEFINE a == [self EXCEPT !.aborted = TRUE]
           t == dropQueued(a)
<1>1. PICK S \in SUBSET {c \in self.doing : child[c] = "Running"} :
        LET u == [t EXCEPT !.doing = @ \ S, !.failed = @ + Cardinality(S),
                           !.fail_reasons = @ + Cardinality(S)]
        IN /\ self' = IF u.state = "Running" THEN finishIfIdle(u) ELSE u
           /\ child' = [c \in Child |-> IF c \in S THEN "AbortedByUser" ELSE child[c]]
           /\ UNCHANGED posted
  BY DEF abort
<1> DEFINE u == [t EXCEPT !.doing = @ \ S, !.failed = @ + Cardinality(S),
                          !.fail_reasons = @ + Cardinality(S)]
<1>2. /\ a \in TaskRecord /\ a.state = self.state /\ a.all = self.all /\ a.queue = self.queue
      /\ a.doing = self.doing /\ a.succeeded = self.succeeded /\ a.failed = self.failed
      /\ a.skipped = self.skipped /\ a.fail_reasons = self.fail_reasons /\ a.aborted = TRUE
  BY DEF IInv, Good, TaskRecord
<1>3. Good(a) /\ IdleUnlessRunning(a)
  <2> HIDE DEF a
  <2> QED
    BY <1>2
    DEF IInv, Good, Accounted, NoneTwice, Conserved, totalSize, finishedSize, IdleUnlessRunning,
        isFinished
<1>4. /\ Good(t) /\ t.state = self.state /\ t.all = self.all /\ t.queue = <<>>
      /\ t.doing = self.doing /\ t.succeeded = self.succeeded /\ t.failed = self.failed
      /\ t.skipped = self.skipped + Len(self.queue) /\ t.fail_reasons = self.fail_reasons
      /\ t.aborted = TRUE
  <2> HIDE DEF a
  <2>1. Good(t) /\ t.queue = <<>>
    BY <1>3, DropGood
  <2> QED
    BY <1>2, <2>1 DEF dropQueued, TaskRecord
<1>5. S \in SUBSET t.doing /\ IsFiniteSet(S) /\ Cardinality(S) \in Nat
  <2>1. S \in SUBSET t.doing
    BY <1>1, <1>4
  <2> QED
    BY <1>4, <2>1, FS_Subset, FS_CardinalityType DEF Good
<1> HIDE DEF t
<1>6. /\ u.state = t.state /\ u.all = t.all /\ u.queue = t.queue /\ u.doing = t.doing \ S
      /\ u.succeeded = t.succeeded /\ u.failed = t.failed + Cardinality(S)
      /\ u.skipped = t.skipped /\ u.fail_reasons = t.fail_reasons + Cardinality(S)
      /\ u.aborted = t.aborted
  BY <1>4 DEF Good, TaskRecord
<1>7. u \in TaskRecord
  <2>1. t \in TaskRecord
    BY <1>4 DEF Good
  <2>2. /\ t.doing \ S \in SUBSET Child /\ t.failed + Cardinality(S) \in Nat
        /\ t.fail_reasons + Cardinality(S) \in Nat
    BY <1>5, <2>1, RecordFields
  <2> QED
    BY <2>1, <2>2 DEF TaskRecord
<1>8. self' = (IF u.state = "Running" THEN finishIfIdle(u) ELSE u)
  BY <1>1
<1> HIDE DEF u
<1>9. Good(u)
  <2>1. PICK x \in Nat, y \in Nat, z \in Nat, n \in Nat :
           x = t.succeeded /\ y = t.failed /\ z = t.skipped /\ n = Cardinality(S)
    BY <1>4, <1>5, RecordFields DEF Good
  <2>2. x + (y + n) + z = (x + y + z) + n
    OBVIOUS
  <2>3. finishedSize(u) = finishedSize(t) + Cardinality(S)
    BY <1>6, <2>1, <2>2 DEF finishedSize
  <2> QED
    BY <1>4, <1>5, <1>6, <1>7, <2>3, RetireGood
<1>10. IdleUnlessRunning(u)
  BY <1>2, <1>3, <1>4, <1>6 DEF IdleUnlessRunning, isFinished
<1>11. /\ u.state = self.state /\ u.all = self.all /\ u.aborted = TRUE
       /\ u.queue = <<>> /\ u.doing = self.doing \ S
       /\ u.succeeded = self.succeeded /\ u.skipped = self.skipped + Len(self.queue)
       /\ u.failed = self.failed + Cardinality(S)
       /\ u.fail_reasons = self.fail_reasons + Cardinality(S)
  BY <1>4, <1>6
<1> QED
  BY <1>1, <1>5, <1>8, <1>9, <1>10, <1>11

LEMMA AbortIInv ==
  ASSUME IInv, abort
  PROVE  IInv'
<1>1. PICK u, S :
           /\ Good(u) /\ IdleUnlessRunning(u)
           /\ self' = IF u.state = "Running" THEN finishIfIdle(u) ELSE u
           /\ child' = [c \in Child |-> IF c \in S THEN "AbortedByUser" ELSE child[c]]
           /\ UNCHANGED posted
  BY AbortMakes
<1>2. Good(self') /\ IdleUnlessRunning(self')
  BY <1>1, FinishGood
<1>3. child' \in [Child -> ChildState]
  BY <1>1 DEF IInv, ChildState, ChildEnded, Ended
<1> QED
  BY <1>1, <1>2, <1>3 DEF IInv

\* A child that leaves its slot is counted once, with what its end drops of a sequence.
LEMMA SubTaskMakes ==
  ASSUME IInv, NEW c \in Child, NEW outcome \in ChildEnded, ChildEnds(c, outcome),
         c \in self.doing
  PROVE  \E u :
           /\ Good(u) /\ IdleUnlessRunning(u)
           /\ u.state = "Running" /\ u.all = self.all /\ u.aborted = self.aborted
           /\ u.doing = self.doing \ {c}
           /\ startNext(u, child', posted)
           /\ IF outcome = "Succeeded"
              THEN /\ u.queue = self.queue /\ u.skipped = self.skipped
                   /\ u.succeeded = self.succeeded + 1 /\ u.failed = self.failed
                   /\ u.fail_reasons = self.fail_reasons
              ELSE /\ u.queue = IF IsSequential THEN <<>> ELSE self.queue
                   /\ u.skipped = IF IsSequential THEN self.skipped + Len(self.queue)
                                                  ELSE self.skipped
                   /\ u.succeeded = self.succeeded /\ u.failed = self.failed + 1
                   /\ u.fail_reasons = self.fail_reasons
                                         + IF outcome = "FailedSilently" THEN 0 ELSE 1
<1>1. self \in TaskRecord /\ self.state = "Running"
  BY DEF IInv, Good, IdleUnlessRunning
<1>2. Cardinality({c}) = 1
  BY FS_Singleton
<1>3. ASSUME NEW t, Good(t), t.state = "Running", c \in t.doing, NEW u \in TaskRecord,
             u.state = t.state, u.all = t.all, u.queue = t.queue, u.doing = t.doing \ {c},
             u.skipped = t.skipped,
             \/ u.succeeded = t.succeeded + 1 /\ u.failed = t.failed
             \/ u.succeeded = t.succeeded /\ u.failed = t.failed + 1
      PROVE  Good(u) /\ IdleUnlessRunning(u)
  <2>1. PICK x \in Nat, y \in Nat, z \in Nat :
           x = t.succeeded /\ y = t.failed /\ z = t.skipped
    BY <1>3, RecordFields DEF Good
  <2>2. (x + 1) + y + z = (x + y + z) + 1 /\ x + (y + 1) + z = (x + y + z) + 1
    OBVIOUS
  <2>3. finishedSize(u) = finishedSize(t) + Cardinality({c})
    BY <1>2, <1>3, <2>1, <2>2 DEF finishedSize
  <2>4. Good(u)
    BY <1>3, <2>3, RetireGood
  <2> QED
    BY <1>3, <2>4 DEF IdleUnlessRunning, isFinished, Ended
<1>4. CASE outcome = "Succeeded"
  <2> DEFINE u == subTaskSucceeded(c)
  <2>1. /\ u \in TaskRecord /\ u.state = self.state /\ u.all = self.all
        /\ u.queue = self.queue /\ u.doing = self.doing \ {c} /\ u.skipped = self.skipped
        /\ u.succeeded = self.succeeded + 1 /\ u.failed = self.failed
        /\ u.fail_reasons = self.fail_reasons /\ u.aborted = self.aborted
    <3>1. u = [self EXCEPT !.doing = self.doing \ {c}, !.succeeded = self.succeeded + 1]
      BY <1>1 DEF subTaskSucceeded, disposeOf, TaskRecord
    <3>2. self.doing \ {c} \in SUBSET Child /\ self.succeeded + 1 \in Nat
      BY <1>1, RecordFields
    <3> HIDE DEF u
    <3> QED
      BY <1>1, <3>1, <3>2 DEF TaskRecord
  <2>2. startNext(u, child', posted)
    BY <1>4 DEF ChildEnds
  <2> HIDE DEF u
  <2>3. Good(u) /\ IdleUnlessRunning(u)
    BY <1>1, <1>3, <2>1 DEF IInv
  <2> QED
    BY <1>1, <1>4, <2>1, <2>2, <2>3
<1>5. CASE outcome # "Succeeded"
  <2> DEFINE t == IF IsSequential THEN dropQueued(self) ELSE self
             r == IF outcome = "FailedSilently" THEN 0 ELSE 1
             u == subTaskFailed(c, r)
  <2>1. Good(t) /\ t.queue = IF IsSequential THEN <<>> ELSE self.queue
    BY DropGood DEF IInv
  <2>2. /\ t.state = self.state /\ t.doing = self.doing /\ t.all = self.all
        /\ t.skipped = IF IsSequential THEN self.skipped + Len(self.queue) ELSE self.skipped
        /\ t.succeeded = self.succeeded /\ t.failed = self.failed
        /\ t.fail_reasons = self.fail_reasons /\ t.aborted = self.aborted
    BY <1>1 DEF dropQueued, TaskRecord
  <2>3. u = [disposeOf(t, c) EXCEPT !.failed = @ + 1, !.fail_reasons = @ + r]
    BY DEF subTaskFailed
  <2>4. startNext(u, child', posted)
    BY <1>5 DEF ChildEnds
  <2>5. r \in Nat
    OBVIOUS
  <2>6. r = IF outcome = "FailedSilently" THEN 0 ELSE 1
    OBVIOUS
  <2> HIDE DEF t, u, r
  <2>7. /\ u \in TaskRecord /\ u.state = t.state /\ u.all = t.all
        /\ u.queue = t.queue /\ u.doing = t.doing \ {c} /\ u.skipped = t.skipped
        /\ u.succeeded = t.succeeded /\ u.failed = t.failed + 1
        /\ u.fail_reasons = t.fail_reasons + r /\ u.aborted = t.aborted
    <3>1. t \in TaskRecord
      BY <2>1 DEF Good
    <3>2. u = [t EXCEPT !.doing = t.doing \ {c}, !.failed = t.failed + 1,
                        !.fail_reasons = t.fail_reasons + r]
      BY <2>3, <3>1 DEF disposeOf, TaskRecord
    <3>3. /\ t.doing \ {c} \in SUBSET Child /\ t.failed + 1 \in Nat
          /\ t.fail_reasons + r \in Nat
      BY <2>5, <3>1, RecordFields
    <3> QED
      BY <3>1, <3>2, <3>3 DEF TaskRecord
  <2>8. Good(u) /\ IdleUnlessRunning(u)
    BY <1>1, <1>3, <2>1, <2>2, <2>7
  <2> QED
    BY <1>1, <1>5, <2>1, <2>2, <2>4, <2>6, <2>7, <2>8
<1> QED
  BY <1>4, <1>5

LEMMA ChildEndsIInv ==
  ASSUME IInv, NEW c \in Child, NEW outcome \in ChildEnded, ChildEnds(c, outcome)
  PROVE  IInv'
<1>1. child' \in [Child -> ChildState]
  BY DEF ChildEnds, IInv, ChildState
<1>2. CASE c \notin self.doing
  BY <1>1, <1>2 DEF ChildEnds, IInv
<1>3. CASE c \in self.doing
  <2>1. PICK u : Good(u) /\ IdleUnlessRunning(u) /\ startNext(u, child', posted)
    BY <1>3, SubTaskMakes
  <2> QED
    BY <1>1, <2>1, StartNextGood DEF IInv
<1> QED
  BY <1>2, <1>3

LEMMA NextIInv == IInv /\ [Next]_vars => IInv'
<1> SUFFICES ASSUME IInv, [Next]_vars PROVE IInv'
  OBVIOUS
<1>1. CASE start
  BY <1>1, StartIInv
<1>2. CASE startNextEvent
  BY <1>2, StartNextEventIInv
<1>3. CASE abort
  BY <1>3, AbortIInv
<1>4. ASSUME NEW c \in Child, addTask(c) PROVE IInv'
  BY <1>4, AddTaskIInv
<1>5. ASSUME NEW c \in Child, startEvent(c) PROVE IInv'
  BY <1>5 DEF startEvent, ChildStarts, IInv, ChildState
<1>6. ASSUME NEW c \in Child, StartedByAnother(c) PROVE IInv'
  BY <1>6 DEF StartedByAnother, ChildStarts, IInv, ChildState
<1>7. ASSUME NEW c \in Child, NEW outcome \in ChildEnded, ChildEnds(c, outcome) PROVE IInv'
  BY <1>7, ChildEndsIInv
<1>8. CASE UNCHANGED vars
  BY <1>8 DEF vars, IInv
<1> QED
  BY <1>1, <1>2, <1>3, <1>4, <1>5, <1>6, <1>7, <1>8 DEF Next

LEMMA Invariance == Spec => []IInv
BY InitIInv, NextIInv, PTL DEF Spec

\* The fields of the task, the states of its children and the event loop have
\* the values the code can give them.
THEOREM TypeCorrect == Spec => []TypeOK
<1>1. IInv => TypeOK
  BY DEF IInv, TypeOK, Good
<1> QED
  BY <1>1, Invariance, PTL

\* No child is lost or counted twice, no more slots are used than there are, and
\* an ended task holds no child: for every set of children, every number of
\* slots, sequential or not, with children that others run and abort.
THEOREM AccountingHolds == Spec => []Accounting
<1>1. IInv => Accounting
  BY DEF IInv, Accounting, Good
<1> QED
  BY <1>1, Invariance, PTL

-----------------------------------------------------------------------------
(* What startNext() does to a running task, for the proofs about its end.    *)

\* Taking entries off the queue moves them to a slot or to a count.
LEMMA TakeMoves ==
  ASSUME NEW t, Good(t), NEW cs, NEW k \in 0..Len(t.queue)
  PROVE  LET u == take(t, cs, k) IN
         /\ u.state = t.state /\ u.all = t.all /\ u.aborted = t.aborted /\ u.skipped = t.skipped
         /\ u.doing \cup Entries(u.queue) \subseteq t.doing \cup Entries(t.queue)
         /\ \E w, b \in Nat : /\ u.succeeded = t.succeeded + w
                              /\ u.failed = t.failed + b
                              /\ u.fail_reasons = t.fail_reasons + b
<1> DEFINE u == take(t, cs, k)
<1>1. t \in TaskRecord /\ t.queue \in Seq(Child) /\ k \in Nat
  BY RecordFields DEF Good
<1>2. /\ u.state = t.state /\ u.all = t.all /\ u.aborted = t.aborted /\ u.skipped = t.skipped
      /\ u.queue = SubSeq(t.queue, k + 1, Len(t.queue))
      /\ u.doing = t.doing \cup {t.queue[i] : i \in ToRun(t, cs, k)}
      /\ u.succeeded = t.succeeded + Cardinality(RanWell(t, cs, k))
      /\ u.failed = t.failed + Cardinality(RanBadly(t, cs, k))
      /\ u.fail_reasons = t.fail_reasons + Cardinality(RanBadly(t, cs, k))
  BY <1>1 DEF take, TaskRecord
<1>3. Cardinality(RanWell(t, cs, k)) \in Nat /\ Cardinality(RanBadly(t, cs, k)) \in Nat
  BY <1>1, AmongFinite DEF RanWell, RanBadly
<1>4. ToRun(t, cs, k) \subseteq DOMAIN t.queue
  BY <1>1 DEF ToRun, Among
<1>5. Entries(u.queue) \subseteq Entries(t.queue)
  BY <1>1, <1>2 DEF Entries
<1> HIDE DEF u
<1>6. u.doing \cup Entries(u.queue) \subseteq t.doing \cup Entries(t.queue)
  BY <1>2, <1>4, <1>5 DEF Entries
<1>7. \E w, b \in Nat : /\ u.succeeded = t.succeeded + w
                        /\ u.failed = t.failed + b
                        /\ u.fail_reasons = t.fail_reasons + b
  BY <1>2, <1>3
<1> QED
  BY <1>2, <1>6, <1>7 DEF u

\* A running task comes out of startNext() as finishIfIdle() leaves an object w that
\* has lost no child: some were counted, none was dropped unless the task is aborted.
Advances(t, w) ==
  /\ w.state = "Running" /\ w.all = t.all /\ w.aborted = t.aborted
  /\ w.doing \cup Entries(w.queue) \subseteq t.doing \cup Entries(t.queue)
  /\ \E s, b, d \in Nat : /\ w.succeeded = t.succeeded + s
                          /\ w.failed = t.failed + b
                          /\ w.fail_reasons = t.fail_reasons + b
                          /\ w.skipped = t.skipped + d
                          /\ d = 0 \/ t.aborted

LEMMA StartNextAdvances ==
  ASSUME NEW t, Good(t), t.state = "Running", NEW cs \in [Child -> ChildState],
         NEW p, startNext(t, cs, p)
  PROVE  \E w : Good(w) /\ Advances(t, w) /\ self' = finishIfIdle(w)
<1> DEFINE u == IF t.aborted THEN dropQueued(t) ELSE t
<1>1. PICK k \in 0..Len(u.queue) :
        TakesFirst(u, cs, k) /\ self' = finishIfIdle(take(u, cs, k))
  BY DEF startNext
<1>2. /\ Good(u) /\ u.state = "Running" /\ u.all = t.all /\ u.aborted = t.aborted
      /\ u.doing = t.doing /\ Entries(u.queue) \subseteq Entries(t.queue)
      /\ u.succeeded = t.succeeded /\ u.failed = t.failed /\ u.fail_reasons = t.fail_reasons
      /\ u.skipped \in {t.skipped, t.skipped + Len(t.queue)}
      /\ u.skipped = t.skipped \/ t.aborted
  <2>1. CASE ~t.aborted
    BY <2>1
  <2>2. CASE t.aborted
    <3>1. u = dropQueued(t) /\ t \in TaskRecord
      BY <2>2 DEF Good
    <3>2. Good(u) /\ u.queue = <<>>
      BY <3>1, DropGood
    <3>3. /\ u.state = t.state /\ u.all = t.all /\ u.aborted = t.aborted
          /\ u.doing = t.doing /\ u.succeeded = t.succeeded /\ u.failed = t.failed
          /\ u.fail_reasons = t.fail_reasons /\ u.skipped = t.skipped + Len(t.queue)
      BY <3>1 DEF dropQueued, TaskRecord
    <3> HIDE DEF u
    <3> QED
      BY <2>2, <3>2, <3>3 DEF Entries
  <2> QED
    BY <2>1, <2>2
<1>3. t.skipped \in Nat /\ Len(t.queue) \in Nat
  BY RecordFields DEF Good
<1> DEFINE w == take(u, cs, k)
<1>4. Good(w)
  <2> HIDE DEF u
  <2> QED
    BY <1>1, <1>2, TakeGood
<1>5. Advances(t, w)
  <2> HIDE DEF u
  <2>1. /\ w.state = u.state /\ w.all = u.all /\ w.aborted = u.aborted /\ w.skipped = u.skipped
        /\ w.doing \cup Entries(w.queue) \subseteq u.doing \cup Entries(u.queue)
        /\ \E s, b \in Nat : /\ w.succeeded = u.succeeded + s
                             /\ w.failed = u.failed + b
                             /\ w.fail_reasons = u.fail_reasons + b
    BY <1>1, <1>2, TakeMoves
  <2>2. PICK s \in Nat, b \in Nat : /\ w.succeeded = t.succeeded + s
                                    /\ w.failed = t.failed + b
                                    /\ w.fail_reasons = t.fail_reasons + b
    BY <1>2, <2>1
  <2>3. PICK d \in Nat : u.skipped = t.skipped + d /\ (d = 0 \/ t.aborted)
    <3>1. CASE u.skipped = t.skipped
      <4>1. t.skipped = t.skipped + 0
        BY <1>3
      <4> QED
        BY <3>1, <4>1
    <3>2. CASE u.skipped # t.skipped
      BY <1>2, <1>3, <3>2
    <3> QED
      BY <3>1, <3>2
  <2> HIDE DEF w
  <2>4. /\ w.state = "Running" /\ w.all = t.all /\ w.aborted = t.aborted
        /\ w.doing \cup Entries(w.queue) \subseteq t.doing \cup Entries(t.queue)
        /\ w.skipped = t.skipped + d
    BY <1>2, <2>1, <2>3
  <2> QED
    BY <2>2, <2>3, <2>4 DEF Advances
<1> QED
  BY <1>1, <1>4, <1>5

-----------------------------------------------------------------------------
(* The promise of TaskBag. *)

Open(t) == totalSize(t) - finishedSize(t)

\* The children unaccounted for are those queued and those in a slot.
LEMMA OpenIs ==
  ASSUME NEW t, Good(t)
  PROVE  /\ Open(t) = Cardinality(t.doing) + Len(t.queue)
         /\ Open(t) \in Nat
         /\ Open(t) = 0 <=> t.queue = <<>> /\ t.doing = {}
<1>1. PICK m \in Nat, d \in Nat, n \in Nat :
         m = finishedSize(t) /\ d = Cardinality(t.doing) /\ n = Len(t.queue)
  BY RecordFields, FS_CardinalityType DEF Good, finishedSize
<1>2. Open(t) = d + n
  BY <1>1 DEF Open, Good, Accounted, Conserved
<1>3. d = 0 <=> t.doing = {}
  BY <1>1, FS_EmptySet DEF Good
<1>4. n = 0 <=> t.queue = <<>>
  BY <1>1, RecordFields DEF Good
<1> QED
  BY <1>1, <1>2, <1>3, <1>4

\* Accounting for a child leaves fewer open.
LEMMA OpenShrinks ==
  ASSUME NEW t, Good(t), NEW w, Good(w), w.all = t.all, finishedSize(w) >= finishedSize(t)
  PROVE  Open(w) \in 0..Open(t)
<1>1. Open(w) \in Nat /\ Open(t) \in Nat
  BY OpenIs
<1>2. finishedSize(w) \in Nat /\ finishedSize(t) \in Nat /\ Len(t.all) \in Nat
  BY RecordFields DEF Good, finishedSize
<1> QED
  BY <1>1, <1>2 DEF Open, totalSize

\* The end of a handler of a running task: it goes on with children open, or it
\* finishes with none, and as aborted exactly when it was.
LEMMA FinishIsBag ==
  ASSUME NEW w, Good(w), w.state = "Running", NEW n \in Nat, Open(w) \in 0..n,
         self' = finishIfIdle(w)
  PROVE  /\ self'.aborted = w.aborted
         /\ \/ self'.state = "Running" /\ Open(self') \in 1..n
            \/ /\ self'.state \in Ended /\ Open(self') = 0
               /\ self'.state = "AbortedByUser" <=> self'.aborted
<1>1. /\ Open(w) \in Nat
      /\ Open(w) = 0 <=> w.queue = <<>> /\ w.doing = {}
  BY OpenIs
<1>2. CASE w.queue = <<>> /\ w.doing = {}
  <2>1. self' = finishTask(w)
    BY <1>2 DEF finishIfIdle
  <2>2. Open(self') = Open(w) /\ self'.aborted = w.aborted
    BY <2>1 DEF finishTask, Open, totalSize, finishedSize, Good, TaskRecord
  <2>3. self'.state = IF w.aborted THEN "AbortedByUser"
                      ELSE IF w.fail_reasons = 0 THEN "Succeeded" ELSE "Failed"
    BY <2>1 DEF finishTask, Good, TaskRecord
  <2> QED
    BY <1>1, <1>2, <2>2, <2>3, RecordFields DEF Ended, Good
<1>3. CASE ~(w.queue = <<>> /\ w.doing = {})
  <2>1. self' = w
    BY <1>3 DEF finishIfIdle
  <2> QED
    BY <1>1, <1>3, <2>1
<1> QED
  BY <1>2, <1>3

\* startNext() in the words of the bag.
LEMMA StartNextIsBag ==
  ASSUME NEW t, Good(t), t.state = "Running", NEW cs \in [Child -> ChildState],
         NEW p, startNext(t, cs, p), NEW n \in Nat, Open(t) \in 0..n
  PROVE  /\ self'.aborted = t.aborted
         /\ \/ self'.state = "Running" /\ Open(self') \in 1..n
            \/ /\ self'.state \in Ended /\ Open(self') = 0
               /\ self'.state = "AbortedByUser" <=> self'.aborted
<1>1. PICK w : Good(w) /\ Advances(t, w) /\ self' = finishIfIdle(w)
  BY StartNextAdvances
<1>2. finishedSize(w) >= finishedSize(t)
  <2>1. PICK s \in Nat, b \in Nat, d \in Nat :
           w.succeeded = t.succeeded + s /\ w.failed = t.failed + b /\ w.skipped = t.skipped + d
    BY <1>1 DEF Advances
  <2>2. t.succeeded \in Nat /\ t.failed \in Nat /\ t.skipped \in Nat
    BY RecordFields DEF Good
  <2> QED
    BY <2>1, <2>2 DEF finishedSize
<1>3. Open(w) \in 0..Open(t)
  BY <1>1, <1>2, OpenShrinks DEF Advances
<1>4. Open(w) \in 0..n
  BY <1>3, OpenIs
<1> QED
  BY <1>1, <1>4, FinishIsBag DEF Advances

LEMMA InitIsBag == Init => Bag!Init
BY DEF Init, Bag!Init, totalSize, finishedSize

\* Where the fields the bag sees are as before, it sees nothing.
LEMMA SameIsBag ==
  ASSUME self' = self
  PROVE  UNCHANGED Bag!vars
BY DEF Bag!vars, totalSize, finishedSize

\* A handler of a running task in which nothing is handed in.
LEMMA RunIsBag ==
  ASSUME IInv, self.state = "Running", NEW t, Good(t), t.state = "Running",
         t.aborted \in {self.aborted, TRUE}, t.all = self.all,
         finishedSize(t) >= finishedSize(self),
         \/ \E p, cs : cs \in [Child -> ChildState] /\ startNext(t, cs, p)
         \/ self' = finishIfIdle(t)
  PROVE  Bag!Next
<1>1. Good(self) /\ Open(self) \in Nat /\ Open(t) \in 0..Open(self)
  BY OpenIs, OpenShrinks DEF IInv
<1>2. /\ self'.aborted = t.aborted
      /\ \/ self'.state = "Running" /\ Open(self') \in 1..Open(self)
         \/ /\ self'.state \in Ended /\ Open(self') = 0
            /\ self'.state = "AbortedByUser" <=> self'.aborted
  BY <1>1, StartNextIsBag, FinishIsBag
<1>3. Bag!AbortsStick
  BY <1>2 DEF Bag!AbortsStick
<1>4. CASE self'.state = "Running" /\ Open(self') \in 1..Open(self)
  <2>1. Bag!Account
    BY <1>1, <1>3, <1>4 DEF Bag!Account, Open, totalSize, finishedSize
  <2> QED
    BY <2>1 DEF Bag!Next
<1>5. CASE /\ self'.state \in Ended /\ Open(self') = 0
           /\ self'.state = "AbortedByUser" <=> self'.aborted
  <2>1. Bag!Finish
    BY <1>3, <1>5 DEF Bag!Finish, Bag!Ended, Ended, Open, totalSize, finishedSize
  <2> QED
    BY <2>1 DEF Bag!Next
<1> QED
  BY <1>2, <1>4, <1>5

LEMMA AddTaskIsBag ==
  ASSUME IInv, NEW c \in Child, addTask(c)
  PROVE  Bag!Next
<1>1. /\ self'.state = self.state /\ self'.all = Append(self.all, c)
      /\ self'.aborted = self.aborted /\ finishedSize(self') = finishedSize(self)
  BY DEF addTask, IInv, Good, TaskRecord, finishedSize
<1>2. self.all \in Seq(Child) /\ finishedSize(self) \in Nat
  BY RecordFields DEF IInv, Good, finishedSize
<1>3. Len(self'.all) = Len(self.all) + 1
  BY <1>1, <1>2
<1>4. Bag!HandIn
  BY <1>1, <1>2, <1>3 DEF Bag!HandIn, Bag!Ended, addTask, isFinished, Ended, totalSize
<1> QED
  BY <1>4 DEF Bag!Next

\* Starting begins a run, or goes all the way when there is nothing left to run.
LEMMA StartIsBag ==
  ASSUME IInv, start
  PROVE  Bag!Next
<1> DEFINE t == [self EXCEPT !.state = "Running"]
<1>1. /\ t \in TaskRecord /\ t.state = "Running" /\ t.all = self.all /\ t.queue = self.queue
      /\ t.doing = self.doing /\ t.succeeded = self.succeeded /\ t.failed = self.failed
      /\ t.skipped = self.skipped /\ t.aborted = self.aborted
  BY DEF IInv, Good, TaskRecord, TaskState
<1>2. startNext(t, child, posted) /\ self.state # "Running"
  BY DEF start
<1> HIDE DEF t
<1>3. Good(t)
  BY <1>1 DEF IInv, Good, Accounted, NoneTwice, Conserved, totalSize, finishedSize
<1>4. Open(t) = Open(self)
  BY <1>1 DEF Open, totalSize, finishedSize
<1>5. Open(self) \in Nat /\ Open(t) \in 0..Open(self)
  BY <1>3, <1>4, OpenIs
<1>6. /\ self'.aborted = self.aborted
      /\ \/ self'.state = "Running" /\ Open(self') \in 1..Open(self)
         \/ /\ self'.state \in Ended /\ Open(self') = 0
            /\ self'.state = "AbortedByUser" <=> self'.aborted
  BY <1>1, <1>2, <1>3, <1>5, StartNextIsBag DEF IInv
<1>7. Bag!AbortsStick
  BY <1>6 DEF Bag!AbortsStick
<1>8. Bag!Begin \/ Bag!Finish
  BY <1>2, <1>6, <1>7
  DEF Bag!Begin, Bag!Finish, Bag!Ended, Ended, Open, totalSize, finishedSize
<1> QED
  BY <1>8 DEF Bag!Next

LEMMA StartNextEventIsBag ==
  ASSUME IInv, startNextEvent
  PROVE  Bag!Next \/ UNCHANGED Bag!vars
<1>1. startNext(self, child, posted \ {"startNext"})
  BY DEF startNextEvent
<1>2. CASE self.state # "Running"
  BY <1>1, <1>2, SameIsBag DEF startNext
<1>3. CASE self.state = "Running"
  <2>1. finishedSize(self) >= finishedSize(self)
    BY RecordFields DEF IInv, Good, finishedSize
  <2> QED
    BY <1>1, <1>3, <2>1, RunIsBag DEF IInv
<1> QED
  BY <1>2, <1>3

\* An abort of a running task is a step of its run; before or after, it is only noted.
LEMMA AbortIsBag ==
  ASSUME IInv, abort
  PROVE  Bag!Next
<1>1. PICK u, S :
        /\ Good(u) /\ u.state = self.state /\ u.all = self.all /\ u.aborted = TRUE
        /\ u.succeeded = self.succeeded /\ u.skipped = self.skipped + Len(self.queue)
        /\ Cardinality(S) \in Nat /\ u.failed = self.failed + Cardinality(S)
        /\ self' = IF u.state = "Running" THEN finishIfIdle(u) ELSE u
  BY AbortMakes
<1>a. finishedSize(u) >= finishedSize(self)
  <2>1. /\ self.succeeded \in Nat /\ self.failed \in Nat /\ self.skipped \in Nat
        /\ Len(self.queue) \in Nat
    BY RecordFields DEF IInv, Good
  <2> QED
    BY <1>1, <2>1 DEF finishedSize
<1>2. CASE self.state = "Running"
  BY <1>1, <1>a, <1>2, RunIsBag
<1>3. CASE self.state # "Running"
  <2>1. self' = u
    BY <1>1, <1>3
  <2>2. Open(self') \in 0..Open(self)
    BY <1>1, <1>a, <2>1, OpenShrinks DEF IInv
  <2>3. Bag!Account
    BY <1>1, <1>3, <2>1, <2>2 DEF Bag!Account, Bag!AbortsStick, Open, totalSize, finishedSize
  <2> QED
    BY <2>3 DEF Bag!Next
<1> QED
  BY <1>2, <1>3

LEMMA ChildEndsIsBag ==
  ASSUME IInv, NEW c \in Child, NEW outcome \in ChildEnded, ChildEnds(c, outcome)
  PROVE  Bag!Next \/ UNCHANGED Bag!vars
<1>1. CASE c \notin self.doing
  BY <1>1, SameIsBag DEF ChildEnds
<1>2. CASE c \in self.doing
  <2>1. PICK u : /\ Good(u) /\ u.state = "Running" /\ u.all = self.all
                 /\ u.aborted = self.aborted /\ startNext(u, child', posted)
                 /\ \/ u.succeeded = self.succeeded + 1 /\ u.failed = self.failed
                    \/ u.succeeded = self.succeeded /\ u.failed = self.failed + 1
                 /\ u.skipped \in {self.skipped, self.skipped + Len(self.queue)}
    BY <1>2, SubTaskMakes
  <2>2. /\ self.succeeded \in Nat /\ self.failed \in Nat /\ self.skipped \in Nat
        /\ Len(self.queue) \in Nat /\ self.state = "Running"
    BY <1>2, RecordFields DEF IInv, Good, IdleUnlessRunning
  <2>3. finishedSize(u) >= finishedSize(self)
    <3>1. u.succeeded + u.failed >= self.succeeded + self.failed /\ u.skipped >= self.skipped
      BY <2>1, <2>2
    <3>2. u.succeeded \in Nat /\ u.failed \in Nat /\ u.skipped \in Nat
      BY <2>1, <2>2
    <3> QED
      BY <2>2, <3>1, <3>2 DEF finishedSize
  <2>4. child' \in [Child -> ChildState]
    BY DEF ChildEnds, IInv, ChildState
  <2> QED
    BY <2>1, <2>2, <2>3, <2>4, RunIsBag
<1> QED
  BY <1>1, <1>2

LEMMA NextIsBag == IInv /\ [Next]_vars => [Bag!Next]_(Bag!vars)
<1> SUFFICES ASSUME IInv, [Next]_vars PROVE Bag!Next \/ UNCHANGED Bag!vars
  OBVIOUS
<1>1. CASE start
  BY <1>1, StartIsBag
<1>2. CASE startNextEvent
  BY <1>2, StartNextEventIsBag
<1>3. CASE abort
  BY <1>3, AbortIsBag
<1>4. ASSUME NEW c \in Child, addTask(c) PROVE Bag!Next
  BY <1>4, AddTaskIsBag
<1>5. ASSUME NEW c \in Child, startEvent(c) \/ StartedByAnother(c) PROVE UNCHANGED Bag!vars
  BY <1>5, SameIsBag DEF startEvent, StartedByAnother
<1>6. ASSUME NEW c \in Child, NEW outcome \in ChildEnded, ChildEnds(c, outcome)
      PROVE  Bag!Next \/ UNCHANGED Bag!vars
  BY <1>6, ChildEndsIsBag
<1>7. CASE UNCHANGED vars
  BY <1>7, SameIsBag DEF vars
<1> QED
  BY <1>1, <1>2, <1>3, <1>4, <1>5, <1>6, <1>7 DEF Next

\* Whatever is handed in, started, aborted or used by others, the task does what TaskBag
\* promises: it ends only when every child is accounted for, once per start, and as
\* aborted exactly when it was.  (That it does end is ImplementsBag's fairness.)
THEOREM ImplementsBagSteps == Spec => Bag!Spec
<1>1. Init => Bag!Init
  BY InitIsBag
<1>2. IInv /\ [Next]_vars => [Bag!Next]_(Bag!vars)
  BY NextIsBag
<1> QED
  BY <1>1, <1>2, Invariance, PTL DEF Spec, Bag!Spec

-----------------------------------------------------------------------------
(* A success leaves out only children that failed in silence.                *)

\* The children counted already, and those of them that may have failed in silence.
Gone(t) == Entries(t.all) \ (Entries(t.queue) \cup t.doing)
Silenced(t, cs) == {c \in Gone(t) : cs[c] = "FailedSilently" \/ c \in Silent \cap Shared}

\* A failure has a reason or was silent; only an abort, or the failure of a step of a
\* sequence, drops children; and a success knows of neither.
Reasoned(t, cs) == t.failed <= t.fail_reasons + Cardinality(Silenced(t, cs))
NoneDropped(t) == t.skipped = 0 \/ (IsSequential /\ t.failed > 0)
Tallied(t, cs) == /\ Reasoned(t, cs)
                  /\ NoneDropped(t) \/ t.aborted
                  /\ t.state = "Succeeded" => t.fail_reasons = 0 /\ NoneDropped(t)

\* Who fails in silence, and that nobody starts our own children but the event loop.
SilentOnes == /\ \A c \in Child : child[c] = "FailedSilently" => c \in Silent
              /\ \A c \in posted \cap Child : c \in Shared \/ child[c] = "Inactive"

TInv == IInv /\ Tallied(self, child) /\ SilentOnes

LEMMA SilencedFinite ==
  ASSUME NEW t, Good(t), NEW cs
  PROVE  IsFiniteSet(Silenced(t, cs)) /\ Cardinality(Silenced(t, cs)) \in Nat
<1>1. t.all \in Seq(Child) /\ Len(t.all) \in Nat
  BY RecordFields DEF Good
<1> DEFINE D == 1..Len(t.all)
           f == [i \in D |-> t.all[i]]
<1>2. IsFiniteSet(D)
  BY <1>1, FS_Interval
<1>3. f \in Surjection(D, Entries(t.all))
  BY <1>1 DEF Surjection, Entries
<1>4. IsFiniteSet(Entries(t.all))
  BY <1>2, <1>3, FS_Surjection
<1>5. Silenced(t, cs) \in SUBSET Entries(t.all)
  BY DEF Silenced, Gone
<1> QED
  BY <1>4, <1>5, FS_Subset, FS_CardinalityType

\* Failures with a reason, and silent ones forgotten of nobody, keep the tally.
LEMMA ReasonedGrows ==
  ASSUME NEW t, Good(t), NEW cs, Reasoned(t, cs), NEW w, Good(w), NEW ds,
         Silenced(t, cs) \subseteq Silenced(w, ds), NEW n \in Nat,
         w.failed = t.failed + n, w.fail_reasons = t.fail_reasons + n
  PROVE  Reasoned(w, ds)
<1>1. Cardinality(Silenced(t, cs)) \in Nat /\ Cardinality(Silenced(w, ds)) \in Nat
  BY SilencedFinite
<1>2. Cardinality(Silenced(t, cs)) <= Cardinality(Silenced(w, ds))
  BY SilencedFinite, FS_Subset
<1>3. t.failed \in Nat /\ t.fail_reasons \in Nat
  BY RecordFields DEF Good
<1> QED
  BY <1>1, <1>2, <1>3 DEF Reasoned

\* One child that fails in silence makes one more.
LEMMA ReasonedSilently ==
  ASSUME NEW t, Good(t), NEW cs, Reasoned(t, cs), NEW w, Good(w), NEW ds, NEW c,
         Silenced(t, cs) \subseteq Silenced(w, ds),
         c \in Silenced(w, ds), c \notin Silenced(t, cs),
         w.failed = t.failed + 1, w.fail_reasons = t.fail_reasons
  PROVE  Reasoned(w, ds)
<1> DEFINE P == Silenced(t, cs)
<1>1. IsFiniteSet(P) /\ Cardinality(P) \in Nat /\ Cardinality(Silenced(w, ds)) \in Nat
  BY SilencedFinite
<1>2. Cardinality(P \cup {c}) = Cardinality(P) + 1
  BY <1>1, FS_AddElement
<1>3. Cardinality(P \cup {c}) <= Cardinality(Silenced(w, ds))
  BY SilencedFinite, FS_Subset
<1>4. t.failed \in Nat /\ t.fail_reasons \in Nat
  BY RecordFields DEF Good
<1> QED
  BY <1>1, <1>2, <1>3, <1>4 DEF Reasoned

\* The end of a handler of a running task.
LEMMA FinishTallied ==
  ASSUME NEW w, Good(w), w.state = "Running", NEW cs, Tallied(w, cs)
  PROVE  Tallied(finishIfIdle(w), cs)
<1> DEFINE u == finishIfIdle(w)
<1>1. CASE u = w
  BY <1>1
<1>2. CASE u # w
  <2>1. u = finishTask(w) /\ w \in TaskRecord
    BY <1>2 DEF finishIfIdle, Good
  <2>2. /\ u.all = w.all /\ u.queue = w.queue /\ u.doing = w.doing /\ u.failed = w.failed
        /\ u.skipped = w.skipped /\ u.fail_reasons = w.fail_reasons /\ u.aborted = w.aborted
        /\ u.state = "Succeeded" => ~w.aborted /\ w.fail_reasons = 0
    BY <2>1 DEF finishTask, TaskRecord
  <2> HIDE DEF u
  <2>3. Silenced(u, cs) = Silenced(w, cs)
    BY <2>2 DEF Silenced, Gone
  <2>4. Reasoned(u, cs) /\ (NoneDropped(w) => NoneDropped(u))
    BY <2>2, <2>3 DEF Tallied, Reasoned, NoneDropped
  <2>5. u.state = "Succeeded" => u.fail_reasons = 0 /\ NoneDropped(u)
    BY <2>2, <2>4 DEF Tallied
  <2>6. NoneDropped(u) \/ u.aborted
    BY <2>2, <2>4 DEF Tallied
  <2> QED
    BY <2>4, <2>5, <2>6 DEF Tallied, u
<1> QED
  BY <1>1, <1>2

\* startNext() keeps the tally.
LEMMA StartNextTallied ==
  ASSUME NEW t, Good(t), NEW cs \in [Child -> ChildState], NEW p,
         startNext(t, cs, p), Tallied(t, cs)
  PROVE  Tallied(self', cs)
<1>1. CASE t.state # "Running"
  BY <1>1 DEF startNext
<1>2. CASE t.state = "Running"
  <2>1. PICK w : Good(w) /\ Advances(t, w) /\ self' = finishIfIdle(w)
    BY <1>2, StartNextAdvances
  <2>2. PICK b \in Nat, d \in Nat :
           /\ w.failed = t.failed + b /\ w.fail_reasons = t.fail_reasons + b
           /\ w.skipped = t.skipped + d /\ (d = 0 \/ t.aborted)
    BY <2>1 DEF Advances
  <2>3. Silenced(t, cs) \subseteq Silenced(w, cs)
    BY <2>1 DEF Advances, Silenced, Gone
  <2>4. Reasoned(w, cs)
    BY <2>1, <2>2, <2>3, ReasonedGrows DEF Tallied
  <2>5. NoneDropped(w) \/ w.aborted
    <3>1. t.failed \in Nat /\ t.skipped \in Nat
      BY RecordFields DEF Good
    <3> QED
      BY <2>1, <2>2, <3>1 DEF Advances, Tallied, NoneDropped
  <2>6. Tallied(w, cs)
    BY <2>1, <2>4, <2>5 DEF Advances, Tallied
  <2> QED
    BY <2>1, <2>6, FinishTallied DEF Advances
<1> QED
  BY <1>1, <1>2

\* What startNext() posts are children that nobody has started.
LEMMA StartNextPosts ==
  ASSUME NEW t, Good(t), NEW cs, NEW p, startNext(t, cs, p)
  PROVE  \A c \in posted' \cap Child : c \in p \/ cs[c] = "Inactive"
BY DEF startNext, Among

LEMMA InitTInv == Init => TInv
<1> SUFFICES ASSUME Init PROVE TInv
  OBVIOUS
<1>1. IInv
  BY InitIInv
<1>2. self.failed = 0 /\ self.fail_reasons = 0 /\ self.skipped = 0 /\ self.state = "Inactive"
  BY DEF Init
<1>3. Cardinality(Silenced(self, child)) \in Nat
  BY <1>1, SilencedFinite DEF IInv
<1> QED
  BY <1>1, <1>2, <1>3 DEF Init, TInv, Tallied, Reasoned, NoneDropped, SilentOnes

LEMMA AddTaskTInv ==
  ASSUME TInv, NEW c \in Child, addTask(c)
  PROVE  TInv'
<1>1. IInv' /\ child' = child
  BY AddTaskIInv DEF TInv, addTask
<1>2. /\ self'.state = self.state /\ self'.failed = self.failed /\ self'.skipped = self.skipped
      /\ self'.fail_reasons = self.fail_reasons /\ self'.aborted = self.aborted
      /\ self'.doing = self.doing
      /\ self'.all = Append(self.all, c) /\ self'.queue = Append(self.queue, c)
  BY DEF addTask, TInv, IInv, Good, TaskRecord
<1>3. Silenced(self, child) \subseteq Silenced(self', child)
  <2>1. self.all \in Seq(Child) /\ self.queue \in Seq(Child)
    BY RecordFields DEF TInv, IInv, Good
  <2>2. /\ Entries(self'.all) = Entries(self.all) \cup {c}
        /\ Entries(self'.queue) = Entries(self.queue) \cup {c}
    BY <1>2, <2>1, AppendEntries
  <2>3. c \notin Entries(self.all)
    BY DEF addTask
  <2> QED
    BY <1>2, <2>2, <2>3 DEF Silenced, Gone
<1>4. Reasoned(self', child)
  <2>1. self'.failed = self.failed + 0 /\ self'.fail_reasons = self.fail_reasons + 0
    BY <1>2, RecordFields DEF TInv, IInv, Good
  <2> QED
    BY <1>1, <1>3, <2>1, ReasonedGrows DEF TInv, IInv, Tallied
<1>5. Tallied(self', child)
  BY <1>2, <1>4 DEF TInv, Tallied, NoneDropped
<1>6. SilentOnes'
  BY NoStartNextChild DEF addTask, TInv, SilentOnes
<1> QED
  BY <1>1, <1>5, <1>6 DEF TInv

LEMMA StartTInv ==
  ASSUME TInv, start
  PROVE  TInv'
<1> DEFINE t == [self EXCEPT !.state = "Running"]
<1>1. /\ t \in TaskRecord /\ t.state = "Running" /\ t.all = self.all /\ t.queue = self.queue
      /\ t.doing = self.doing /\ t.succeeded = self.succeeded /\ t.failed = self.failed
      /\ t.skipped = self.skipped /\ t.aborted = self.aborted
      /\ t.fail_reasons = self.fail_reasons
  BY DEF TInv, IInv, Good, TaskRecord, TaskState
<1>2. startNext(t, child, posted) /\ child' = child
  BY DEF start
<1> HIDE DEF t
<1>3. Good(t)
  BY <1>1 DEF TInv, IInv, Good, Accounted, NoneTwice, Conserved, totalSize, finishedSize
<1>4. Silenced(t, child) = Silenced(self, child)
  BY <1>1 DEF Silenced, Gone
<1>5. Tallied(t, child)
  BY <1>1, <1>4 DEF TInv, Tallied, Reasoned, NoneDropped
<1>6. Tallied(self', child)
  BY <1>2, <1>3, <1>5, StartNextTallied DEF TInv, IInv
<1>7. SilentOnes'
  BY <1>2, <1>3, StartNextPosts DEF TInv, SilentOnes
<1> QED
  BY <1>2, <1>6, <1>7, StartIInv DEF TInv

LEMMA StartNextEventTInv ==
  ASSUME TInv, startNextEvent
  PROVE  TInv'
<1>1. startNext(self, child, posted \ {"startNext"}) /\ child' = child
  BY DEF startNextEvent
<1>2. Tallied(self', child)
  BY <1>1, StartNextTallied DEF TInv, IInv
<1>3. SilentOnes'
  BY <1>1, StartNextPosts DEF TInv, IInv, SilentOnes
<1> QED
  BY <1>1, <1>2, <1>3, StartNextEventIInv DEF TInv

LEMMA AbortTInv ==
  ASSUME TInv, abort
  PROVE  TInv'
<1>1. PICK u, S :
           /\ S \in SUBSET {c \in self.doing : child[c] = "Running"}
           /\ Good(u) /\ IdleUnlessRunning(u)
           /\ u.state = self.state /\ u.all = self.all /\ u.aborted = TRUE
           /\ u.queue = <<>> /\ u.doing = self.doing \ S
           /\ u.succeeded = self.succeeded /\ u.skipped = self.skipped + Len(self.queue)
           /\ Cardinality(S) \in Nat
           /\ u.failed = self.failed + Cardinality(S)
           /\ u.fail_reasons = self.fail_reasons + Cardinality(S)
           /\ self' = IF u.state = "Running" THEN finishIfIdle(u) ELSE u
           /\ child' = [c \in Child |-> IF c \in S THEN "AbortedByUser" ELSE child[c]]
           /\ UNCHANGED posted
  BY AbortMakes DEF TInv
<1>2. Silenced(self, child) \subseteq Silenced(u, child')
  <2>1. Gone(self) \subseteq Gone(u)
    BY <1>1 DEF Gone, Entries
  <2>2. \A c \in Gone(self) : c \notin S /\ c \in Child
    BY <1>1, RecordFields DEF Gone, TInv, IInv, Good, Entries
  <2> QED
    BY <1>1, <2>1, <2>2 DEF Silenced
<1>3. Reasoned(u, child')
  BY <1>1, <1>2, ReasonedGrows DEF TInv, IInv, Tallied
<1>4. u.state = "Succeeded" => u.fail_reasons = 0 /\ NoneDropped(u)
  <2>1. ASSUME self.state = "Succeeded"
        PROVE  self.queue = <<>> /\ S = {}
    BY <1>1, <2>1 DEF TInv, IInv, IdleUnlessRunning, isFinished, Ended
  <2>2. self.skipped \in Nat /\ self.failed \in Nat /\ self.fail_reasons \in Nat
    BY RecordFields DEF TInv, IInv, Good
  <2>3. ASSUME self.state = "Succeeded"
        PROVE  /\ u.skipped = self.skipped /\ u.failed = self.failed
               /\ u.fail_reasons = self.fail_reasons
    <3>1. Len(self.queue) = 0 /\ Cardinality(S) = 0
      BY <2>1, <2>3, FS_EmptySet
    <3> QED
      BY <1>1, <2>2, <3>1
  <2>4. self.state = "Succeeded" => self.fail_reasons = 0 /\ NoneDropped(self)
    BY DEF TInv, Tallied
  <2> QED
    BY <1>1, <2>3, <2>4 DEF NoneDropped
<1>5. Tallied(u, child')
  BY <1>1, <1>3, <1>4 DEF Tallied
<1>6. Tallied(self', child')
  BY <1>1, <1>5, FinishTallied
<1>7. SilentOnes'
  BY <1>1 DEF TInv, IInv, SilentOnes
<1> QED
  BY <1>6, <1>7, AbortIInv DEF TInv

LEMMA ChildEndsTInv ==
  ASSUME TInv, NEW c \in Child, NEW outcome \in ChildEnded, ChildEnds(c, outcome)
  PROVE  TInv'
<1>1. /\ child \in [Child -> ChildState] /\ child[c] = "Running"
      /\ child' = [child EXCEPT ![c] = outcome]
      /\ outcome = "FailedSilently" => c \in Silent
      /\ child' \in [Child -> ChildState]
  BY DEF ChildEnds, TInv, IInv, ChildState
<1>2. \A t : Good(t) => Silenced(t, child) \subseteq Silenced(t, child')
  BY <1>1, RecordFields DEF Silenced, Gone, Good, Entries
<1>3. /\ \A d \in Child : child'[d] = "FailedSilently" => d \in Silent
      /\ \A d \in posted \cap Child : d \in Shared \/ (child'[d] = "Inactive" /\ d # c)
  BY <1>1 DEF TInv, SilentOnes
<1>4. CASE c \notin self.doing
  <2>1. self' = self /\ posted' = posted
    BY <1>4 DEF ChildEnds
  <2>2. Silenced(self, child) \subseteq Silenced(self', child')
    BY <1>2, <2>1 DEF TInv, IInv
  <2>3. self.failed = self.failed + 0 /\ self.fail_reasons = self.fail_reasons + 0
    BY RecordFields DEF TInv, IInv, Good
  <2>4. Reasoned(self', child')
    BY <2>1, <2>2, <2>3, ReasonedGrows DEF TInv, IInv, Tallied
  <2>5. Tallied(self', child')
    BY <2>1, <2>4 DEF TInv, Tallied
  <2>6. SilentOnes'
    BY <1>3, <2>1 DEF SilentOnes
  <2> QED
    BY <2>5, <2>6, ChildEndsIInv DEF TInv
<1>5. CASE c \in self.doing
  <2>1. PICK u :
           /\ Good(u) /\ IdleUnlessRunning(u)
           /\ u.state = "Running" /\ u.all = self.all /\ u.aborted = self.aborted
           /\ u.doing = self.doing \ {c}
           /\ startNext(u, child', posted)
           /\ IF outcome = "Succeeded"
              THEN /\ u.queue = self.queue /\ u.skipped = self.skipped
                   /\ u.succeeded = self.succeeded + 1 /\ u.failed = self.failed
                   /\ u.fail_reasons = self.fail_reasons
              ELSE /\ u.queue = IF IsSequential THEN <<>> ELSE self.queue
                   /\ u.skipped = IF IsSequential THEN self.skipped + Len(self.queue)
                                                  ELSE self.skipped
                   /\ u.succeeded = self.succeeded /\ u.failed = self.failed + 1
                   /\ u.fail_reasons = self.fail_reasons
                                         + IF outcome = "FailedSilently" THEN 0 ELSE 1
    BY <1>5, SubTaskMakes DEF TInv
  <2>2. self.failed \in Nat /\ self.fail_reasons \in Nat /\ self.skipped \in Nat
    BY RecordFields DEF TInv, IInv, Good
  <2>3. Gone(self) \subseteq Gone(u) /\ c \in Gone(u) /\ c \notin Gone(self)
    <3>1. Entries(u.queue) \subseteq Entries(self.queue)
      BY <2>1 DEF Entries
    <3>2. c \in Entries(self.all) /\ c \notin Entries(self.queue)
      BY <1>5 DEF TInv, IInv, Good, Accounted, NoneTwice
    <3> QED
      BY <1>5, <2>1, <3>1, <3>2 DEF Gone
  <2>4. Silenced(self, child) \subseteq Silenced(u, child')
    BY <1>2, <2>3 DEF Silenced, TInv, IInv
  <2>5. Reasoned(u, child')
    <3>1. CASE outcome = "FailedSilently"
      <4>1. c \in Silenced(u, child') /\ c \notin Silenced(self, child)
        BY <1>1, <2>3, <3>1 DEF Silenced
      <4>2. u.failed = self.failed + 1 /\ u.fail_reasons = self.fail_reasons
        BY <2>1, <2>2, <3>1
      <4> QED
        BY <2>1, <2>4, <4>1, <4>2, ReasonedSilently DEF TInv, IInv, Tallied
    <3>2. CASE outcome # "FailedSilently"
      <4>1. \E n \in Nat : /\ u.failed = self.failed + n
                           /\ u.fail_reasons = self.fail_reasons + n
        BY <2>1, <2>2, <3>2
      <4> QED
        BY <2>1, <2>4, <4>1, ReasonedGrows DEF TInv, IInv, Tallied
    <3> QED
      BY <3>1, <3>2
  <2>6. NoneDropped(u) \/ u.aborted
    BY <2>1, <2>2 DEF TInv, Tallied, NoneDropped
  <2>7. Tallied(self', child')
    BY <1>1, <2>1, <2>5, <2>6, StartNextTallied DEF Tallied
  <2>8. SilentOnes'
    BY <1>3, <2>1, StartNextPosts DEF SilentOnes
  <2> QED
    BY <2>7, <2>8, ChildEndsIInv DEF TInv
<1> QED
  BY <1>4, <1>5

\* A child that starts was not counted as silent, or belongs to another owner too.
LEMMA ChildStartsTInv ==
  ASSUME TInv, IInv', NEW c \in Child, ChildStarts(c), self' = self,
         posted' \in {posted, posted \ {c}},
         c \in Shared \/ (child[c] = "Inactive" /\ c \notin posted')
  PROVE  TInv'
<1>1. child' = [child EXCEPT ![c] = "Running"] /\ child \in [Child -> ChildState]
  BY DEF ChildStarts, TInv, IInv
<1>2. Silenced(self, child) \subseteq Silenced(self', child')
  <2>1. Gone(self) \subseteq Child
    BY RecordFields DEF Gone, TInv, IInv, Good, Entries
  <2> QED
    BY <1>1, <2>1 DEF Silenced, TInv, SilentOnes
<1>3. self.failed = self.failed + 0 /\ self.fail_reasons = self.fail_reasons + 0
  BY RecordFields DEF TInv, IInv, Good
<1>4. Reasoned(self', child')
  BY <1>2, <1>3, ReasonedGrows DEF TInv, IInv, Tallied
<1>5. Tallied(self', child')
  BY <1>4 DEF TInv, Tallied
<1>6. SilentOnes'
  BY <1>1 DEF TInv, SilentOnes
<1> QED
  BY <1>5, <1>6 DEF TInv

LEMMA NextTInv == TInv /\ [Next]_vars => TInv'
<1> SUFFICES ASSUME TInv, [Next]_vars PROVE TInv'
  OBVIOUS
<1>i. IInv'
  BY NextIInv DEF TInv
<1>1. CASE start
  BY <1>1, StartTInv
<1>2. CASE startNextEvent
  BY <1>2, StartNextEventTInv
<1>3. CASE abort
  BY <1>3, AbortTInv
<1>4. ASSUME NEW c \in Child, addTask(c) PROVE TInv'
  BY <1>4, AddTaskTInv
<1>5. ASSUME NEW c \in Child, startEvent(c) PROVE TInv'
  BY <1>i, <1>5, ChildStartsTInv DEF startEvent, TInv, SilentOnes
<1>6. ASSUME NEW c \in Child, StartedByAnother(c) PROVE TInv'
  BY <1>i, <1>6, ChildStartsTInv DEF StartedByAnother
<1>7. ASSUME NEW c \in Child, NEW outcome \in ChildEnded, ChildEnds(c, outcome) PROVE TInv'
  BY <1>7, ChildEndsTInv
<1>8. CASE UNCHANGED vars
  BY <1>8 DEF vars, TInv, IInv, SilentOnes
<1> QED
  BY <1>1, <1>2, <1>3, <1>4, <1>5, <1>6, <1>7, <1>8 DEF Next

\* A success leaves out no child but those that failed without giving a reason.  A
\* sequence drops what follows such a failure, and may succeed nevertheless; and only a
\* child of another owner can be started again after it failed.
FailedInSilence ==
  {c \in Entries(self.all) : child[c] = "FailedSilently" \/ c \in Silent \cap Shared}
OnlySilentLeftOut ==
  self.state = "Succeeded" /\ (IsSequential => Silent = {}) =>
    totalSize(self) <= self.succeeded + Cardinality(FailedInSilence)

LEMMA TInvLeavesOut == TInv => OnlySilentLeftOut
<1> SUFFICES ASSUME TInv, self.state = "Succeeded", IsSequential => Silent = {}
             PROVE  totalSize(self) <= self.succeeded + Cardinality(FailedInSilence)
  BY DEF OnlySilentLeftOut
<1>1. self.queue = <<>> /\ self.doing = {}
  BY DEF TInv, IInv, IdleUnlessRunning, isFinished, Ended
<1>2. Silenced(self, child) = FailedInSilence
  BY <1>1 DEF Silenced, Gone, FailedInSilence, Entries
<1>3. PICK n \in Nat : n = Cardinality(FailedInSilence)
  BY <1>2, SilencedFinite DEF TInv, IInv
<1>4. self.succeeded \in Nat /\ self.failed \in Nat /\ self.skipped \in Nat
  BY RecordFields DEF TInv, IInv, Good
<1>5. self.failed <= n
  BY <1>2, <1>3, <1>4 DEF TInv, Tallied, Reasoned
<1>6. self.skipped = 0
  <2>1. CASE IsSequential
    <3>1. FailedInSilence = {}
      BY <2>1, RecordFields
      DEF FailedInSilence, TInv, SilentOnes, IInv, Good, Entries
    <3>2. self.failed = 0
      BY <1>3, <1>4, <1>5, <3>1, FS_EmptySet
    <3> QED
      BY <3>2 DEF TInv, Tallied, NoneDropped
  <2>2. CASE ~IsSequential
    BY <2>2 DEF TInv, Tallied, NoneDropped
  <2> QED
    BY <2>1, <2>2
<1>7. totalSize(self) = finishedSize(self)
  <2>1. Open(self) = 0
    BY <1>1, OpenIs DEF TInv, IInv
  <2>2. totalSize(self) \in Nat /\ finishedSize(self) \in Nat
    BY <1>4, RecordFields DEF totalSize, finishedSize, TInv, IInv, Good
  <2> QED
    BY <2>1, <2>2 DEF Open
<1> QED
  BY <1>3, <1>4, <1>5, <1>6, <1>7 DEF finishedSize

\* A task that succeeds has run every child handed in, whoever else starts them, with the
\* exception of those that fail without a reason.
THEOREM OnlySilentLeftOutHolds == Spec => []OnlySilentLeftOut
BY TInvLeavesOut, InitTInv, NextTInv, PTL DEF Spec

\* Where every failure has a reason, a task that succeeds has run every child handed in,
\* and each of them has succeeded.
THEOREM SuccessMeansAllRanHolds ==
  ASSUME Silent = {}
  PROVE  Spec => []SuccessMeansAllRan
<1>1. TInv => SuccessMeansAllRan
  <2> SUFFICES ASSUME TInv, self.state = "Succeeded"
               PROVE  self.succeeded = totalSize(self)
    BY DEF SuccessMeansAllRan
  <2>1. FailedInSilence = {}
    BY RecordFields DEF FailedInSilence, TInv, SilentOnes, IInv, Good, Entries
  <2>2. totalSize(self) <= self.succeeded
    <3>1. totalSize(self) <= self.succeeded + Cardinality(FailedInSilence)
      BY TInvLeavesOut DEF OnlySilentLeftOut
    <3>2. Cardinality(FailedInSilence) = 0 /\ self.succeeded \in Nat
      BY <2>1, FS_EmptySet, RecordFields DEF TInv, IInv, Good
    <3> QED
      BY <3>1, <3>2
  <2>3. /\ totalSize(self) = finishedSize(self) + Cardinality(self.doing) + Len(self.queue)
        /\ Cardinality(self.doing) \in Nat /\ Len(self.queue) \in Nat
        /\ self.succeeded \in Nat /\ self.failed \in Nat /\ self.skipped \in Nat
    BY RecordFields, FS_CardinalityType DEF TInv, IInv, Good, Accounted, Conserved
  <2> QED
    BY <2>2, <2>3 DEF finishedSize
<1> QED
  BY <1>1, InitTInv, NextTInv, PTL DEF Spec

-----------------------------------------------------------------------------
(* The steps of a sequence that nobody else runs.                            *)

\* The queue is the rest of what was handed in, none of it has been started, the one
\* step that runs has the slot, and a failure has ended the run.
NextSteps(t) == \A i \in DOMAIN t.queue : t.queue[i] = t.all[totalSize(t) - Len(t.queue) + i]
InSlots(t, cs) == /\ \A c \in Child : cs[c] = "Running" => c \in t.doing
                  /\ \A c \in Child : c \notin Entries(t.all) => cs[c] = "Inactive"
                  /\ \A c \in Entries(t.queue) : cs[c] = "Inactive"
StopsAtFailure(t) == t.failed > 0 => isFinished(t)
PostedWait == \A c \in posted \cap Child : c \in self.doing /\ child[c] = "Inactive"

QInv == IInv /\ NextSteps(self) /\ InSlots(self, child) /\ StopsAtFailure(self) /\ PostedWait

\* A sequence takes one step off its queue, when it has none running, or nothing.
LEMMA SequenceTakes ==
  ASSUME IsSequential, NEW t, Good(t), NEW cs \in [Child -> ChildState], InSlots(t, cs),
         NEW k \in 0..Len(t.queue), TakesFirst(t, cs, k)
  PROVE  LET w == take(t, cs, k) IN
         /\ w.all = t.all /\ w.failed = t.failed /\ w.state = t.state
         /\ \/ k = 0 /\ w.queue = t.queue /\ w.doing = t.doing
            \/ /\ k = 1 /\ t.doing = {} /\ w.doing = {t.queue[1]} /\ 1 \in DOMAIN t.queue
               /\ Len(w.queue) = Len(t.queue) - 1
               /\ \A i \in DOMAIN w.queue : i + 1 \in DOMAIN t.queue /\ w.queue[i] = t.queue[i + 1]
<1> DEFINE w == take(t, cs, k)
<1>1. /\ t \in TaskRecord /\ t.queue \in Seq(Child) /\ k \in Nat /\ Len(t.queue) \in Nat
      /\ MaxConcurrent = 1 /\ Cardinality(t.doing) \in Nat /\ t.failed \in Nat
  BY RecordFields, FS_CardinalityType, SequentialAssumption DEF Good
<1>2. \A j \in 0..k : /\ ToRun(t, cs, j) = 1..j
                      /\ RanBadly(t, cs, j) = {}
  <2>1. \A i \in 1..Len(t.queue) : cs[t.queue[i]] = "Inactive"
    BY <1>1 DEF InSlots, Entries
  <2>2. \A j \in 0..k : \A i \in 1..j : i \in 1..Len(t.queue)
    BY <1>1
  <2> QED
    BY <2>1, <2>2 DEF ToRun, RanBadly, Among, ChildEnded, Ended
<1>3. \A j \in 0..k : Cardinality(ToRun(t, cs, j)) = j
  <2> SUFFICES ASSUME NEW j \in 0..k PROVE Cardinality(ToRun(t, cs, j)) = j
    OBVIOUS
  <2>1. Cardinality(1..j) = j
    BY <1>1, FS_Interval
  <2> QED
    BY <1>2, <2>1
<1>4. k = 0 \/ (k = 1 /\ Cardinality(t.doing) = 0)
  <2>1. k = 0 \/ Cardinality(t.doing) + (k - 1) < 1
    BY <1>1, <1>3 DEF TakesFirst, HasSlot
  <2> QED
    BY <1>1, <2>1
<1>k. ToRun(t, cs, k) = 1..k /\ RanBadly(t, cs, k) = {}
  <2>1. k \in 0..k
    BY <1>1
  <2> QED
    BY <1>2, <2>1
<1>5. /\ w.all = t.all /\ w.state = t.state
      /\ w.queue = SubSeq(t.queue, k + 1, Len(t.queue))
      /\ w.doing = t.doing \cup {t.queue[i] : i \in 1..k}
      /\ w.failed = t.failed + Cardinality(RanBadly(t, cs, k))
  BY <1>1, <1>k DEF take, TaskRecord
<1>6. Cardinality(RanBadly(t, cs, k)) = 0
  BY <1>k, FS_EmptySet
<1>7. w.failed = t.failed
  BY <1>1, <1>5, <1>6
<1>8. CASE k = 0
  <2>1. SubSeq(t.queue, 1, Len(t.queue)) = t.queue
    BY <1>1
  <2>2. w.doing = t.doing
    BY <1>5, <1>8
  <2> QED
    BY <1>5, <1>7, <1>8, <2>1, <2>2
<1>9. CASE k = 1 /\ Cardinality(t.doing) = 0
  <2>1. t.doing = {}
    BY <1>9, FS_EmptySet DEF Good
  <2>2. w.doing = {t.queue[1]}
    BY <1>5, <1>9, <2>1
  <2>3. 1 \in DOMAIN t.queue
    BY <1>1, <1>9
  <2>4. w.queue = SubSeq(t.queue, 2, Len(t.queue))
    BY <1>5, <1>9
  <2> HIDE DEF w
  <2>5. /\ Len(w.queue) = Len(t.queue) - 1
        /\ \A i \in DOMAIN w.queue : i + 1 \in DOMAIN t.queue /\ w.queue[i] = t.queue[i + 1]
    BY <1>1, <2>3, <2>4
  <2> QED
    BY <1>5, <1>7, <1>9, <2>1, <2>2, <2>3, <2>5 DEF w
<1> QED
  BY <1>4, <1>8, <1>9

\* What startNext() makes of a sequence whose queue is in order.
LEMMA StartNextInOrder ==
  ASSUME IsSequential, NEW t, Good(t), t.state = "Running",
         NEW cs \in [Child -> ChildState], NEW p, startNext(t, cs, p),
         NextSteps(t), InSlots(t, cs), t.failed = 0 \/ (t.queue = <<>> /\ t.doing = {})
  PROVE  /\ NextSteps(self') /\ InSlots(self', cs) /\ StopsAtFailure(self')
         /\ self'.all = t.all /\ t.doing \subseteq self'.doing
         /\ \A c \in self'.doing \ t.doing :
              /\ c = self'.all[totalSize(self') - Len(self'.queue)]
              /\ self'.doing = {c}
              /\ self'.failed = 0
         /\ \A c \in posted' \cap Child : c \in p \/ (c \in self'.doing /\ cs[c] = "Inactive")
<1> DEFINE u == IF t.aborted THEN dropQueued(t) ELSE t
<1>1. PICK k \in 0..Len(u.queue) :
        /\ TakesFirst(u, cs, k)
        /\ self' = finishIfIdle(take(u, cs, k))
        /\ posted' = p \cup {u.queue[i] : i \in Among(u, cs, k, {"Inactive"})}
  BY DEF startNext
<1>2. /\ Good(u) /\ u.state = "Running" /\ u.all = t.all /\ u.doing = t.doing
      /\ u.failed = t.failed /\ (u.queue = t.queue \/ u.queue = <<>>)
  BY DropGood DEF dropQueued, Good, TaskRecord
<1> HIDE DEF u
<1>3. NextSteps(u) /\ InSlots(u, cs)
  <2>1. CASE u.queue = t.queue
    <3>1. NextSteps(u)
      BY <1>2, <2>1, Zenon DEF NextSteps, totalSize
    <3>2. InSlots(u, cs)
      BY <1>2, <2>1 DEF InSlots, Entries
    <3> QED
      BY <3>1, <3>2
  <2>2. CASE u.queue = <<>>
    BY <1>2, <2>2 DEF NextSteps, InSlots, Entries
  <2> QED
    BY <1>2, <2>1, <2>2
<1> DEFINE w == take(u, cs, k)
<1>4. /\ w.all = u.all /\ w.failed = u.failed /\ w.state = u.state
      /\ \/ k = 0 /\ w.queue = u.queue /\ w.doing = u.doing
         \/ /\ k = 1 /\ u.doing = {} /\ w.doing = {u.queue[1]} /\ 1 \in DOMAIN u.queue
            /\ Len(w.queue) = Len(u.queue) - 1
            /\ \A i \in DOMAIN w.queue : i + 1 \in DOMAIN u.queue /\ w.queue[i] = u.queue[i + 1]
  BY <1>1, <1>2, <1>3, SequenceTakes
<1>5. Good(w)
  BY <1>1, <1>2, TakeGood
<1>6. self' = finishIfIdle(w)
  BY <1>1
<1> HIDE DEF w
<1>7. /\ self'.all = w.all /\ self'.queue = w.queue /\ self'.doing = w.doing
      /\ self'.failed = w.failed
      /\ w.queue = <<>> /\ w.doing = {} => isFinished(self')
  BY <1>5, <1>6 DEF finishIfIdle, finishTask, Good, TaskRecord, isFinished, Ended
<1>8. u.all \in Seq(Child) /\ u.queue \in Seq(Child) /\ w.queue \in Seq(Child)
  BY <1>2, <1>5, RecordFields DEF Good
<1>9. NextSteps(self')
  <2>1. CASE k = 0
    <3>1. self'.all = u.all /\ self'.queue = u.queue
      BY <1>4, <1>7, <2>1
    <3> QED
      BY <1>3, <3>1, Zenon DEF NextSteps, totalSize
  <2>2. CASE k = 1
    <3>1. SUFFICES ASSUME NEW i \in DOMAIN w.queue
                   PROVE  w.queue[i] = w.all[Len(w.all) - Len(w.queue) + i]
      BY <1>7 DEF NextSteps, totalSize
    <3>2. i + 1 \in DOMAIN u.queue /\ w.queue[i] = u.queue[i + 1]
      BY <1>4, <2>2
    <3>3. u.queue[i + 1] = u.all[Len(u.all) - Len(u.queue) + (i + 1)]
      BY <1>3, <3>2 DEF NextSteps, totalSize
    <3>4. Len(u.all) - Len(u.queue) + (i + 1) = Len(w.all) - Len(w.queue) + i
      <4>1. PICK n \in Nat, m \in Nat, j \in Nat : n = Len(u.all) /\ m = Len(u.queue) /\ j = i
        BY <1>8
      <4>2. Len(w.all) = n /\ Len(w.queue) = m - 1
        BY <1>4, <2>2, <4>1
      <4>3. n - m + (j + 1) = n - (m - 1) + j
        OBVIOUS
      <4> QED
        BY <4>1, <4>2, <4>3
    <3> QED
      BY <1>4, <3>2, <3>3, <3>4
  <2> QED
    BY <1>4, <2>1, <2>2
<1>10. InSlots(self', cs)
  <2>1. u.doing \subseteq w.doing /\ Entries(w.queue) \subseteq Entries(u.queue)
    BY <1>4 DEF Entries
  <2> QED
    BY <1>3, <1>4, <1>7, <2>1 DEF InSlots, Entries
<1>11. t.failed > 0 => w.queue = <<>> /\ w.doing = {}
  <2>1. t.failed \in Nat
    BY RecordFields DEF Good
  <2>2. ASSUME t.queue = <<>>, t.doing = {}
        PROVE  w.queue = <<>> /\ w.doing = {}
    <3>1. u.queue = <<>> /\ u.doing = {}
      BY <1>2, <2>2
    <3>2. k = 0
      BY <1>1, <3>1
    <3> QED
      BY <1>4, <3>1, <3>2
  <2> QED
    BY <2>1, <2>2
<1>12. StopsAtFailure(self')
  BY <1>2, <1>4, <1>7, <1>11 DEF StopsAtFailure
<1>13. ASSUME NEW c \in self'.doing \ t.doing
       PROVE  /\ c = self'.all[totalSize(self') - Len(self'.queue)]
              /\ self'.doing = {c}
              /\ self'.failed = 0
  <2>1. /\ w.doing = {u.queue[1]} /\ 1 \in DOMAIN u.queue /\ c = u.queue[1]
        /\ Len(w.queue) = Len(u.queue) - 1
    BY <1>2, <1>4, <1>7, <1>13
  <2>2. u.queue[1] = u.all[Len(u.all) - Len(u.queue) + 1]
    BY <1>3, <2>1 DEF NextSteps, totalSize
  <2>3. Len(u.all) - Len(u.queue) + 1 = Len(w.all) - Len(w.queue)
    BY <1>4, <1>8, <2>1
  <2>4. t.failed = 0
    BY <1>2, <1>8, <2>1
  <2> QED
    BY <1>2, <1>4, <1>7, <2>1, <2>2, <2>3, <2>4 DEF totalSize
<1>14. ASSUME NEW c \in posted' \cap Child, c \notin p
       PROVE  c \in self'.doing /\ cs[c] = "Inactive"
  <2>1. PICK i \in Among(u, cs, k, {"Inactive"}) : c = u.queue[i]
    BY <1>1, <1>14
  <2>2. i \in 1..k /\ cs[c] = "Inactive"
    BY <2>1 DEF Among
  <2>3. k = 1 /\ i = 1
    BY <1>4, <2>2
  <2> QED
    BY <1>4, <1>7, <2>1, <2>2, <2>3
<1> QED
  BY <1>2, <1>4, <1>7, <1>9, <1>10, <1>12, <1>13, <1>14

\* The step of the property: what enters the slot is the next step, alone, and before any
\* failure.
InOrder == \A c \in self'.doing \ self.doing :
             /\ c = self'.all[totalSize(self') - Len(self'.queue)]
             /\ \A d \in Entries(self'.all) \ {c} : child'[d] # "Running"
             /\ self'.failed = 0

\* A handler that ends in startNext() takes a step in order.
LEMMA HandlerInOrder ==
  ASSUME IsSequential, IInv', NEW t, Good(t), IdleUnlessRunning(t), t.state = "Running",
         child' \in [Child -> ChildState], NEW p,
         startNext(t, child', p),
         NextSteps(t), InSlots(t, child'), t.failed = 0 \/ (t.queue = <<>> /\ t.doing = {}),
         t.doing \subseteq self.doing,
         \A c \in p \cap Child : c \in t.doing /\ child'[c] = "Inactive"
  PROVE  QInv' /\ InOrder
<1>1. /\ NextSteps(self') /\ InSlots(self', child') /\ StopsAtFailure(self')
      /\ self'.all = t.all /\ t.doing \subseteq self'.doing
      /\ \A c \in self'.doing \ t.doing :
           /\ c = self'.all[totalSize(self') - Len(self'.queue)]
           /\ self'.doing = {c}
           /\ self'.failed = 0
      /\ \A c \in posted' \cap Child : c \in p \/ (c \in self'.doing /\ child'[c] = "Inactive")
  BY StartNextInOrder
<1>2. PostedWait'
  BY <1>1 DEF PostedWait
<1>3. InOrder
  <2>1. SUFFICES ASSUME NEW c \in self'.doing \ self.doing,
                        NEW d \in Entries(self'.all) \ {c}
                 PROVE  child'[d] # "Running"
    BY <1>1 DEF InOrder
  <2>2. d \in Child
    BY RecordFields DEF IInv, Good, Entries
  <2> QED
    BY <1>1, <2>1, <2>2 DEF InSlots
<1> QED
  BY <1>1, <1>2, <1>3 DEF QInv

LEMMA InitQInv == Init => QInv
<1> SUFFICES ASSUME Init PROVE QInv
  OBVIOUS
<1>1. IInv
  BY InitIInv
<1> QED
  BY <1>1 DEF Init, QInv, NextSteps, InSlots, StopsAtFailure, PostedWait, Entries

LEMMA AddTaskInOrder ==
  ASSUME QInv, NEW c \in Child, addTask(c)
  PROVE  QInv' /\ InOrder
<1>1. IInv' /\ child' = child
  BY AddTaskIInv DEF QInv, addTask
<1>2. /\ self'.state = self.state /\ self'.failed = self.failed /\ self'.doing = self.doing
      /\ self'.all = Append(self.all, c) /\ self'.queue = Append(self.queue, c)
  BY DEF addTask, QInv, IInv, Good, TaskRecord
<1>3. self.all \in Seq(Child) /\ self.queue \in Seq(Child)
  BY RecordFields DEF QInv, IInv, Good
<1>4. c \notin Entries(self.all) /\ ~isFinished(self)
  BY DEF addTask
<1>5. /\ Entries(self'.all) = Entries(self.all) \cup {c}
      /\ Entries(self'.queue) = Entries(self.queue) \cup {c}
  BY <1>2, <1>3, AppendEntries
<1>6. NextSteps(self')
  <2>1. SUFFICES ASSUME NEW i \in DOMAIN self'.queue
                 PROVE  self'.queue[i] = self'.all[Len(self'.all) - Len(self'.queue) + i]
    BY DEF NextSteps, totalSize
  <2>2. Len(self.queue) <= Len(self.all)
    <3>1. Len(self.all) = finishedSize(self) + Cardinality(self.doing) + Len(self.queue)
      BY DEF QInv, IInv, Good, Accounted, Conserved, totalSize
    <3>2. finishedSize(self) \in Nat /\ Cardinality(self.doing) \in Nat
      BY RecordFields, FS_CardinalityType DEF QInv, IInv, Good, finishedSize
    <3> QED
      BY <1>3, <3>1, <3>2
  <2>3. PICK n \in Nat, m \in Nat, j \in Nat :
           n = Len(self.all) /\ m = Len(self.queue) /\ j = i /\ m <= n
    BY <1>2, <1>3, <2>2
  <2>4. /\ Len(self'.all) = n + 1 /\ Len(self'.queue) = m + 1 /\ j \in 1..(m + 1)
        /\ (n + 1) - (m + 1) + j = n - m + j
    <3>1. Len(self'.all) = n + 1 /\ Len(self'.queue) = m + 1 /\ j \in 1..(m + 1)
      BY <1>2, <1>3, <2>3
    <3>2. (n + 1) - (m + 1) + j = n - m + j
      OBVIOUS
    <3> QED
      BY <3>1, <3>2
  <2>5. CASE j = m + 1
    <3>1. n - m + j = n + 1
      BY <2>5
    <3>2. self'.queue[m + 1] = c /\ self'.all[n + 1] = c
      BY <1>2, <1>3, <2>3
    <3> QED
      BY <2>3, <2>4, <2>5, <3>1, <3>2
  <2>6. CASE j \in 1..m
    <3>1. self.queue[j] = self.all[n - m + j]
      <4>1. j \in DOMAIN self.queue
        BY <1>3, <2>3, <2>6
      <4> QED
        BY <2>3, <4>1 DEF QInv, NextSteps, totalSize
    <3>2. n - m + j \in 1..n
      <4>1. m <= n
        BY <2>3
      <4> QED
        BY <2>6, <4>1
    <3>3. self'.queue[j] = self.queue[j] /\ self'.all[n - m + j] = self.all[n - m + j]
      BY <1>2, <1>3, <2>3, <2>6, <3>2
    <3> QED
      BY <2>3, <2>4, <3>1, <3>3
  <2> QED
    BY <2>4, <2>5, <2>6
<1>7. InSlots(self', child)
  BY <1>2, <1>4, <1>5 DEF QInv, InSlots
<1>8. StopsAtFailure(self')
  BY <1>2, <1>4 DEF QInv, StopsAtFailure, isFinished
<1>9. PostedWait'
  BY <1>2, NoStartNextChild DEF QInv, PostedWait, addTask
<1> QED
  BY <1>1, <1>2, <1>6, <1>7, <1>8, <1>9 DEF QInv, InOrder

LEMMA StartInOrder ==
  ASSUME IsSequential, QInv, start
  PROVE  QInv' /\ InOrder
<1> DEFINE t == [self EXCEPT !.state = "Running"]
<1>1. /\ t \in TaskRecord /\ t.state = "Running" /\ t.all = self.all /\ t.queue = self.queue
      /\ t.doing = self.doing /\ t.succeeded = self.succeeded /\ t.failed = self.failed
      /\ t.skipped = self.skipped
  BY DEF QInv, IInv, Good, TaskRecord, TaskState
<1>2. startNext(t, child, posted) /\ child' = child /\ self.state # "Running"
  BY DEF start
<1>i. IInv'
  BY StartIInv DEF QInv
<1> HIDE DEF t
<1>3. Good(t) /\ IdleUnlessRunning(t)
  BY <1>1
  DEF QInv, IInv, Good, Accounted, NoneTwice, Conserved, totalSize, finishedSize,
      IdleUnlessRunning, isFinished, Ended
<1>4. NextSteps(t) /\ InSlots(t, child)
  BY <1>1 DEF QInv, NextSteps, InSlots, totalSize
<1>5. t.failed = 0 \/ (t.queue = <<>> /\ t.doing = {})
  <2>1. t.failed \in Nat
    BY <1>1, RecordFields
  <2> QED
    BY <1>1, <1>2, <2>1 DEF QInv, IInv, StopsAtFailure, IdleUnlessRunning
<1>6. child \in [Child -> ChildState]
  BY DEF QInv, IInv
<1>7. \A c \in posted \cap Child : c \in t.doing /\ child[c] = "Inactive"
  BY <1>1 DEF QInv, PostedWait
<1> QED
  BY <1>i, <1>1, <1>2, <1>3, <1>4, <1>5, <1>6, <1>7, HandlerInOrder

LEMMA StartNextEventInOrder ==
  ASSUME IsSequential, QInv, startNextEvent
  PROVE  QInv' /\ InOrder
<1>1. startNext(self, child, posted \ {"startNext"}) /\ child' = child
  BY DEF startNextEvent
<1>i. IInv'
  BY StartNextEventIInv DEF QInv
<1>2. CASE self.state # "Running"
  <2>1. self' = self /\ posted' = posted \ {"startNext"}
    BY <1>1, <1>2 DEF startNext
  <2> QED
    BY <1>i, <1>1, <2>1 DEF QInv, PostedWait, InOrder
<1>3. CASE self.state = "Running"
  <2>1. /\ Good(self) /\ IdleUnlessRunning(self) /\ NextSteps(self) /\ InSlots(self, child)
        /\ child \in [Child -> ChildState]
    BY DEF QInv, IInv
  <2>2. self.failed = 0
    BY <1>3, RecordFields DEF QInv, IInv, Good, StopsAtFailure, isFinished, Ended
  <2>3. \A c \in (posted \ {"startNext"}) \cap Child : c \in self.doing /\ child[c] = "Inactive"
    BY DEF QInv, PostedWait
  <2> QED
    BY <1>i, <1>1, <1>3, <2>1, <2>2, <2>3, HandlerInOrder
<1> QED
  BY <1>2, <1>3

LEMMA AbortInOrder ==
  ASSUME IsSequential, QInv, abort
  PROVE  QInv' /\ InOrder
<1>1. PICK u, S :
           /\ S \in SUBSET {c \in self.doing : child[c] = "Running"}
           /\ Good(u) /\ IdleUnlessRunning(u)
           /\ u.state = self.state /\ u.all = self.all /\ u.aborted = TRUE
           /\ u.queue = <<>> /\ u.doing = self.doing \ S
           /\ u.succeeded = self.succeeded /\ u.skipped = self.skipped + Len(self.queue)
           /\ Cardinality(S) \in Nat
           /\ u.failed = self.failed + Cardinality(S)
           /\ u.fail_reasons = self.fail_reasons + Cardinality(S)
           /\ self' = IF u.state = "Running" THEN finishIfIdle(u) ELSE u
           /\ child' = [c \in Child |-> IF c \in S THEN "AbortedByUser" ELSE child[c]]
           /\ UNCHANGED posted
  BY AbortMakes DEF QInv
<1>i. IInv'
  BY AbortIInv DEF QInv
<1>2. /\ self'.all = self.all /\ self'.queue = <<>> /\ self'.doing = self.doing \ S
      /\ self'.failed = u.failed
      /\ self'.state = self.state \/ isFinished(self')
      /\ self.state = "Running" /\ u.doing = {} => isFinished(self')
  BY <1>1 DEF finishIfIdle, finishTask, Good, TaskRecord, isFinished, Ended
<1>3. NextSteps(self')
  BY <1>2 DEF NextSteps
<1>4. InSlots(self', child')
  <2>1. S \subseteq Entries(self.all)
    BY <1>1 DEF QInv, IInv, Good, Accounted, NoneTwice
  <2> QED
    BY <1>1, <1>2, <2>1 DEF QInv, InSlots, Entries
<1>5. StopsAtFailure(self')
  <2>1. CASE S = {}
    <3>1. Cardinality(S) = 0 /\ self.failed \in Nat
      BY <2>1, FS_EmptySet, RecordFields DEF QInv, IInv, Good
    <3>2. self'.failed = self.failed
      BY <1>1, <1>2, <3>1
    <3> QED
      BY <1>2, <3>2 DEF QInv, StopsAtFailure, isFinished
  <2>2. CASE S # {}
    <3>1. PICK c \in S : c \in self.doing
      BY <1>1, <2>2
    <3>2. Cardinality({c}) = 1 /\ IsFiniteSet(self.doing) /\ Cardinality(self.doing) <= 1
      BY FS_Singleton, SequentialAssumption DEF QInv, IInv, Good, Accounted
    <3>3. self.doing = {c}
      <4>1. {c} \in SUBSET self.doing
        BY <3>1
      <4>2. Cardinality({c}) <= Cardinality(self.doing) /\ Cardinality(self.doing) \in Nat
        BY <3>2, <4>1, FS_Subset, FS_CardinalityType
      <4> QED
        BY <3>2, <4>1, <4>2, FS_Subset
    <3>4. u.doing = {} /\ self.state = "Running"
      BY <1>1, <3>1, <3>3 DEF QInv, IInv, IdleUnlessRunning
    <3> QED
      BY <1>2, <3>4 DEF StopsAtFailure
  <2> QED
    BY <2>1, <2>2
<1>6. PostedWait'
  BY <1>1, <1>2 DEF QInv, PostedWait
<1> QED
  BY <1>i, <1>2, <1>3, <1>4, <1>5, <1>6 DEF QInv, InOrder

LEMMA ChildEndsInOrder ==
  ASSUME IsSequential, QInv, NEW c \in Child, NEW outcome \in ChildEnded, ChildEnds(c, outcome)
  PROVE  QInv' /\ InOrder
<1>1. /\ child \in [Child -> ChildState] /\ child[c] = "Running"
      /\ child' = [child EXCEPT ![c] = outcome]
      /\ child' \in [Child -> ChildState]
  BY DEF ChildEnds, QInv, IInv, ChildState
<1>2. c \in self.doing
  BY <1>1 DEF QInv, InSlots
<1>i. IInv'
  BY ChildEndsIInv DEF QInv
<1>3. PICK u :
           /\ Good(u) /\ IdleUnlessRunning(u)
           /\ u.state = "Running" /\ u.all = self.all /\ u.aborted = self.aborted
           /\ u.doing = self.doing \ {c}
           /\ startNext(u, child', posted)
           /\ IF outcome = "Succeeded"
              THEN /\ u.queue = self.queue /\ u.skipped = self.skipped
                   /\ u.succeeded = self.succeeded + 1 /\ u.failed = self.failed
                   /\ u.fail_reasons = self.fail_reasons
              ELSE /\ u.queue = IF IsSequential THEN <<>> ELSE self.queue
                   /\ u.skipped = IF IsSequential THEN self.skipped + Len(self.queue)
                                                  ELSE self.skipped
                   /\ u.succeeded = self.succeeded /\ u.failed = self.failed + 1
                   /\ u.fail_reasons = self.fail_reasons
                                         + IF outcome = "FailedSilently" THEN 0 ELSE 1
  BY <1>2, SubTaskMakes DEF QInv
<1>4. u.queue = self.queue \/ u.queue = <<>>
  BY <1>3
<1>5. NextSteps(u)
  BY <1>3, <1>4 DEF QInv, NextSteps, totalSize
<1>6. InSlots(u, child')
  <2>1. c \in Entries(self.all) /\ c \notin Entries(self.queue)
    BY <1>2 DEF QInv, IInv, Good, Accounted, NoneTwice
  <2>2. Entries(u.queue) \subseteq Entries(self.queue) /\ Entries(self.queue) \subseteq Child
    BY <1>4, RecordFields DEF Entries, QInv, IInv, Good
  <2>3. outcome # "Running"
    BY DEF ChildEnded, Ended
  <2> QED
    BY <1>1, <1>3, <2>1, <2>2, <2>3 DEF QInv, InSlots
<1>7. u.failed = 0 \/ (u.queue = <<>> /\ u.doing = {})
  <2>1. self.failed = 0
    BY <1>2, RecordFields
    DEF QInv, IInv, Good, IdleUnlessRunning, StopsAtFailure, isFinished, Ended
  <2>2. IsFiniteSet(self.doing) /\ Cardinality(self.doing) <= 1 /\ {c} \in SUBSET self.doing
    BY <1>2, SequentialAssumption DEF QInv, IInv, Good, Accounted
  <2>3. Cardinality({c}) = 1
    BY FS_Singleton
  <2>4. Cardinality({c}) <= Cardinality(self.doing) /\ Cardinality(self.doing) \in Nat
    BY <2>2, FS_Subset, FS_CardinalityType
  <2>5. self.doing = {c}
    BY <2>2, <2>3, <2>4, FS_Subset
  <2> QED
    BY <1>3, <2>1, <2>5
<1>8. \A d \in posted \cap Child : d \in u.doing /\ child'[d] = "Inactive"
  BY <1>1, <1>3 DEF QInv, PostedWait
<1>9. u.doing \subseteq self.doing
  BY <1>3
<1> QED
  BY <1>i, <1>1, <1>3, <1>5, <1>6, <1>7, <1>8, <1>9, HandlerInOrder

LEMMA StartEventInOrder ==
  ASSUME QInv, NEW c \in Child, startEvent(c)
  PROVE  QInv' /\ InOrder
<1>1. /\ c \in self.doing /\ self' = self /\ posted' = posted \ {c}
      /\ child' = [child EXCEPT ![c] = "Running"] /\ child \in [Child -> ChildState]
  BY DEF startEvent, ChildStarts, QInv, IInv, PostedWait
<1>2. IInv'
  BY <1>1 DEF QInv, IInv, ChildState
<1>3. c \in Entries(self.all) /\ c \notin Entries(self.queue)
  BY <1>1 DEF QInv, IInv, Good, Accounted, NoneTwice
<1>4. InSlots(self', child')
  BY <1>1, <1>3 DEF QInv, InSlots
<1>5. PostedWait'
  BY <1>1 DEF QInv, PostedWait
<1> QED
  BY <1>1, <1>2, <1>4, <1>5 DEF QInv, InOrder

LEMMA NextInOrder ==
  ASSUME IsSequential, Shared = {}, QInv, [Next]_vars
  PROVE  QInv' /\ (InOrder \/ UNCHANGED vars)
<1>1. CASE start
  BY <1>1, StartInOrder
<1>2. CASE startNextEvent
  BY <1>2, StartNextEventInOrder
<1>3. CASE abort
  BY <1>3, AbortInOrder
<1>4. ASSUME NEW c \in Child, addTask(c) PROVE QInv' /\ InOrder
  BY <1>4, AddTaskInOrder
<1>5. ASSUME NEW c \in Child, startEvent(c) PROVE QInv' /\ InOrder
  BY <1>5, StartEventInOrder
<1>6. ASSUME NEW c \in Child PROVE ~StartedByAnother(c)
  BY DEF StartedByAnother
<1>7. ASSUME NEW c \in Child, NEW outcome \in ChildEnded, ChildEnds(c, outcome)
      PROVE  QInv' /\ InOrder
  BY <1>7, ChildEndsInOrder
<1>8. CASE UNCHANGED vars
  BY <1>8 DEF vars, QInv, IInv, PostedWait
<1> QED
  BY <1>1, <1>2, <1>3, <1>4, <1>5, <1>6, <1>7, <1>8 DEF Next

\* A sequence runs its steps in the order they were handed in, one at a time, and none after
\* one has failed, when its steps are its own: of a step that others start it cannot know.
THEOREM StepsInOrderHolds ==
  ASSUME Shared = {}
  PROVE  Spec => StepsInOrder
<1>1. CASE IsSequential
  <2>1. QInv /\ [Next]_vars => QInv'
    BY <1>1, NextInOrder
  <2>2. QInv /\ [Next]_vars =>
          [IsSequential => \A c \in self'.doing \ self.doing :
             /\ c = self'.all[totalSize(self') - Len(self'.queue)]
             /\ \A d \in Entries(self'.all) \ {c} : child'[d] # "Running"
             /\ self'.failed = 0]_vars
    BY <1>1, NextInOrder DEF InOrder
  <2> QED
    BY <2>1, <2>2, InitQInv, PTL DEF Spec, StepsInOrder
<1>2. CASE ~IsSequential
  <2>1. [Next]_vars =>
          [IsSequential => \A c \in self'.doing \ self.doing :
             /\ c = self'.all[totalSize(self') - Len(self'.queue)]
             /\ \A d \in Entries(self'.all) \ {c} : child'[d] # "Running"
             /\ self'.failed = 0]_vars
    BY <1>2
  <2> QED
    BY <2>1, PTL DEF Spec, StepsInOrder
<1> QED
  BY <1>1, <1>2
=============================================================================
