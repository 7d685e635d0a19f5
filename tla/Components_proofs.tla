-------------------------- MODULE Components_proofs --------------------------
(***************************************************************************)
(* Proofs about Components, for any uids, any finite number of versions    *)
(* and any metadata: a component is in the list once, whatever was         *)
(* resolved is complete and can be launched offline, and what a round of   *)
(* the resolution adds comes before what required it.                      *)
(*                                                                         *)
(* They hold when nobody edits the list while it is being loaded: a slot   *)
(* remembers the place of a component, and after an edit it would mark     *)
(* another one as loaded (see the README).                                 *)
(***************************************************************************)
EXTENDS Components, FiniteSetTheorems, SequenceTheorems, WellFoundedInduction, TLAPS

-----------------------------------------------------------------------------
(* Components of which some fields are changed. *)

\* A component of which one field is changed.
LEMMA SetVersion ==
  ASSUME NEW c \in Component, NEW x \in Version
  PROVE  LET d == [c EXCEPT !.version = x] IN
         /\ d \in Component /\ d.version = x
         /\ d.uid = c.uid /\ d.cached = c.cached /\ d.requires = c.requires /\ d.volatile = c.volatile
         /\ d.dep = c.dep /\ d.custom = c.custom /\ d.loaded = c.loaded
BY DEF Component

LEMMA SetCached ==
  ASSUME NEW c \in Component, NEW x \in Version
  PROVE  LET d == [c EXCEPT !.cached = x] IN
         /\ d \in Component /\ d.cached = x
         /\ d.uid = c.uid /\ d.version = c.version /\ d.requires = c.requires /\ d.volatile = c.volatile
         /\ d.dep = c.dep /\ d.custom = c.custom /\ d.loaded = c.loaded
BY DEF Component

LEMMA SetRequires ==
  ASSUME NEW c \in Component, NEW x \in SUBSET Requirement
  PROVE  LET d == [c EXCEPT !.requires = x] IN
         /\ d \in Component /\ d.requires = x
         /\ d.uid = c.uid /\ d.version = c.version /\ d.cached = c.cached /\ d.volatile = c.volatile
         /\ d.dep = c.dep /\ d.custom = c.custom /\ d.loaded = c.loaded
BY DEF Component

LEMMA SetVolatile ==
  ASSUME NEW c \in Component, NEW x \in BOOLEAN
  PROVE  LET d == [c EXCEPT !.volatile = x] IN
         /\ d \in Component /\ d.volatile = x
         /\ d.uid = c.uid /\ d.version = c.version /\ d.cached = c.cached /\ d.requires = c.requires
         /\ d.dep = c.dep /\ d.custom = c.custom /\ d.loaded = c.loaded
BY DEF Component

LEMMA SetCustom ==
  ASSUME NEW c \in Component, NEW x \in BOOLEAN
  PROVE  LET d == [c EXCEPT !.custom = x] IN
         /\ d \in Component /\ d.custom = x
         /\ d.uid = c.uid /\ d.version = c.version /\ d.cached = c.cached /\ d.requires = c.requires
         /\ d.volatile = c.volatile /\ d.dep = c.dep /\ d.loaded = c.loaded
BY DEF Component

LEMMA SetLoaded ==
  ASSUME NEW c \in Component, NEW x \in BOOLEAN
  PROVE  LET d == [c EXCEPT !.loaded = x] IN
         /\ d \in Component /\ d.loaded = x
         /\ d.uid = c.uid /\ d.version = c.version /\ d.cached = c.cached /\ d.requires = c.requires
         /\ d.volatile = c.volatile /\ d.dep = c.dep /\ d.custom = c.custom
BY DEF Component


\* Several fields are changed one after the other.
LEMMA Several ==
  ASSUME NEW c \in Component, NEW x, NEW y, NEW z
  PROVE  /\ [c EXCEPT !.cached = x, !.loaded = y] = [[c EXCEPT !.cached = x] EXCEPT !.loaded = y]
         /\ [c EXCEPT !.volatile = x, !.loaded = y]
              = [[c EXCEPT !.volatile = x] EXCEPT !.loaded = y]
         /\ [c EXCEPT !.custom = x, !.loaded = y] = [[c EXCEPT !.custom = x] EXCEPT !.loaded = y]
         /\ [c EXCEPT !.cached = x, !.requires = y, !.volatile = z]
              = [[[c EXCEPT !.cached = x] EXCEPT !.requires = y] EXCEPT !.volatile = z]
<1>1. [c EXCEPT !.cached = x, !.loaded = y] = [[c EXCEPT !.cached = x] EXCEPT !.loaded = y]
  OBVIOUS
<1>2. [c EXCEPT !.volatile = x, !.loaded = y] = [[c EXCEPT !.volatile = x] EXCEPT !.loaded = y]
  OBVIOUS
<1>3. [c EXCEPT !.custom = x, !.loaded = y] = [[c EXCEPT !.custom = x] EXCEPT !.loaded = y]
  OBVIOUS
<1>4. [c EXCEPT !.cached = x, !.requires = y, !.volatile = z]
        = [[[c EXCEPT !.cached = x] EXCEPT !.requires = y] EXCEPT !.volatile = z]
  OBVIOUS
<1> QED
  BY <1>1, <1>2, <1>3, <1>4, Zenon

\* What is on the disk comes from the server, and what is in memory from the disk.
Sound == /\ server \in Metadata
         /\ inMemory \subseteq onDisk /\ onDisk \subseteq {Index} \cup DOMAIN server

\* What a load, a refresh or a restart leaves of a component as it is.
Same(c, d) == d.uid = c.uid /\ d.version = c.version /\ d.dep = c.dep /\ d.custom = c.custom

\* What is cached of a component is what its file, which is there, says.
Accurate(c, disk) ==
  /\ File(c) \in DOMAIN server /\ (c.custom \/ File(c) \in disk)
  /\ c.requires = Real(c).requires /\ c.volatile = Real(c).volatile /\ c.cached = c.version

\* What is customised has been there, and what is loaded is in memory.
Known(c, memory) == /\ c.custom => File(c) \in DOMAIN server
                    /\ c.loaded => c.custom \/ File(c) \in memory

\* What the server gives is a file of requirements and marks.
LEMMA ServerTyped ==
  ASSUME ComponentsAssumption, Sound
  PROVE  /\ DOMAIN server \subseteq Uid \X Ver
         /\ \A e \in DOMAIN server : /\ server[e] \in VersionData
                                     /\ server[e].requires \in SUBSET Requirement
                                     /\ server[e].volatile \in BOOLEAN
BY DEF ComponentsAssumption, Sound, VersionData

\* What is on the disk for a component is a file that the server has.
LEMMA FileIsThere ==
  ASSUME ComponentsAssumption, Sound, NEW c, File(c) \in onDisk
  PROVE  File(c) \in DOMAIN server
<1>1. File(c) # Index
  BY DEF File, Index
<1> QED
  BY <1>1 DEF Sound

\* The file of a component depends on nothing that a load or a restart changes.
LEMMA SameFile ==
  ASSUME NEW c, NEW d, Same(c, d)
  PROVE  File(d) = File(c)
BY DEF Same, File

\* A component that caches what its file says.
LEMMA Updated ==
  ASSUME ComponentsAssumption, Sound, NEW c \in Component, File(c) \in DOMAIN server
  PROVE  LET d == updateCachedData(c) IN
         /\ d \in Component /\ Same(c, d) /\ d.loaded = c.loaded
         /\ d.requires = Real(d).requires /\ d.volatile = Real(d).volatile
         /\ d.cached = d.version
<1> DEFINE f == server[File(c)]
           d == updateCachedData(c)
<1>1. d = [c EXCEPT !.cached = c.version, !.requires = f.requires, !.volatile = f.volatile]
  BY DEF updateCachedData
<1>2. f.requires \in SUBSET Requirement /\ f.volatile \in BOOLEAN
  BY ServerTyped
<1> DEFINE p == [c EXCEPT !.cached = c.version]
           q == [p EXCEPT !.requires = f.requires]
<1> HIDE DEF f, d
<1>3. d = [q EXCEPT !.volatile = f.volatile]
  BY <1>1, Several
<1>4. c.version \in Version
  BY DEF Component
<1>5. p \in Component /\ Same(c, p) /\ p.cached = c.version /\ p.loaded = c.loaded
  BY <1>4, SetCached DEF Same
<1> HIDE DEF p
<1>6. /\ q \in Component /\ Same(p, q) /\ q.cached = p.cached /\ q.loaded = p.loaded
      /\ q.requires = f.requires
  BY <1>2, <1>5, SetRequires DEF Same
<1> HIDE DEF q
<1>7. /\ d \in Component /\ Same(q, d) /\ d.cached = q.cached /\ d.loaded = q.loaded
      /\ d.requires = q.requires /\ d.volatile = f.volatile
  BY <1>2, <1>3, <1>6, SetVolatile DEF Same
<1>8. /\ d \in Component /\ Same(c, d) /\ d.loaded = c.loaded
      /\ d.requires = f.requires /\ d.volatile = f.volatile /\ d.cached = c.version
  BY <1>5, <1>6, <1>7 DEF Same
<1>9. Real(d) = f /\ d.cached = d.version
  BY <1>8, SameFile DEF Real, Same, f
<1> QED
  BY <1>8, <1>9 DEF d

\* A component that caches nothing, its file being missing.
LEMMA Emptied ==
  ASSUME NEW c \in Component
  PROVE  LET d == withoutFile(c) IN d \in Component /\ Same(c, d) /\ d.loaded = c.loaded
<1>1. {} \in SUBSET Requirement
  OBVIOUS
<1> QED
  BY <1>1, SetRequires DEF withoutFile, Same

\* A component that is marked as loaded, or not, is otherwise as it was.
LEMMA Marked ==
  ASSUME NEW c \in Component, NEW b \in BOOLEAN
  PROVE  LET d == [c EXCEPT !.loaded = b] IN
         /\ d \in Component /\ Same(c, d) /\ d.loaded = b
         /\ d.requires = c.requires /\ d.volatile = c.volatile /\ d.cached = c.cached
BY SetLoaded DEF Same

\* What loadComponents() makes of one component.
LEMMA AfterLoad ==
  ASSUME ComponentsAssumption, Sound, NEW c \in Component, Known(c, inMemory)
  PROVE  LET d == afterLoad(c) IN
         /\ d \in Component /\ Same(c, d) /\ Known(d, inMemory)
         /\ IsLoaded(c) \/ (netmode = "Offline" /\ Loadable(c)) => Accurate(d, onDisk)
<1> DEFINE d == afterLoad(c)
           e == updateCachedData(c)
<1>1. CASE IsLoaded(c)
  <2>1. File(c) \in DOMAIN server /\ (c.custom \/ File(c) \in inMemory)
    BY <1>1, FileIsThere DEF IsLoaded, Known, Sound
  <2>2. /\ e \in Component /\ Same(c, e)
        /\ e.requires = Real(e).requires /\ e.volatile = Real(e).volatile /\ e.cached = e.version
    BY <2>1, Updated
  <2>3. d = [e EXCEPT !.loaded = TRUE]
    BY <1>1 DEF afterLoad
  <2> HIDE DEF d, e
  <2>4. /\ d \in Component /\ Same(e, d)
        /\ d.requires = e.requires /\ d.volatile = e.volatile /\ d.cached = e.cached
    BY <2>2, <2>3, Marked
  <2>5. Same(c, d) /\ File(d) = File(c) /\ File(e) = File(d)
    BY <2>2, <2>4, SameFile DEF Same
  <2>6. Known(d, inMemory) /\ Accurate(d, onDisk)
    BY <2>1, <2>2, <2>4, <2>5 DEF Known, Accurate, Same, Real, Sound
  <2> QED
    BY <2>4, <2>5, <2>6 DEF d
<1>2. CASE ~IsLoaded(c) /\ netmode = "Offline" /\ Loadable(c)
  <2>1. File(c) \in DOMAIN server /\ File(c) \in onDisk
    BY <1>2, FileIsThere DEF Loadable
  <2>2. /\ e \in Component /\ Same(c, e) /\ e.loaded = c.loaded
        /\ e.requires = Real(e).requires /\ e.volatile = Real(e).volatile /\ e.cached = e.version
    BY <2>1, Updated
  <2>3. d = e
    BY <1>2 DEF afterLoad
  <2> HIDE DEF d, e
  <2>4. File(d) = File(c)
    BY <2>2, <2>3, SameFile
  <2>5. Known(d, inMemory) /\ Accurate(d, onDisk)
    BY <2>1, <2>2, <2>3, <2>4 DEF Known, Accurate, Same
  <2> QED
    BY <2>2, <2>3, <2>5 DEF d
<1>3. CASE ~IsLoaded(c) /\ ~(netmode = "Offline" /\ Loadable(c))
  <2>1. d = c
    BY <1>3 DEF afterLoad
  <2> QED
    BY <1>3, <2>1 DEF Same
<1> QED
  BY <1>1, <1>2, <1>3

\* What the instance's file on the disk gives back of a component.
LEMMA Reread ==
  ASSUME NEW c \in Component, NEW memory, Known(c, inMemory)
  PROVE  LET d == [c EXCEPT !.volatile = FALSE, !.loaded = FALSE] IN
         d \in Component /\ Same(c, d) /\ Known(d, memory)
<1> DEFINE d == [c EXCEPT !.volatile = FALSE, !.loaded = FALSE]
           e == [c EXCEPT !.volatile = FALSE]
<1>1. d = [e EXCEPT !.loaded = FALSE]
  BY Several
<1> HIDE DEF d
<1>3. e \in Component /\ Same(c, e)
  BY SetVolatile DEF Same
<1> HIDE DEF e
<1>2. d \in Component /\ Same(c, d) /\ d.loaded = FALSE
  BY <1>1, <1>3, Marked DEF Same
<1>4. Known(d, memory)
  BY <1>2, SameFile DEF Known, Same
<1> QED
  BY <1>2, <1>4 DEF d

\* customize() gives a component a file of its own and changes nothing else.
LEMMA Customized ==
  ASSUME ComponentsAssumption, Sound, NEW c \in Component, Known(c, inMemory),
         File(c) \in inMemory
  PROVE  LET d == [c EXCEPT !.custom = TRUE] IN
         d \in Component /\ d.uid = c.uid /\ Known(d, inMemory)
<1> DEFINE d == [c EXCEPT !.custom = TRUE]
<1>2. d \in Component /\ d.uid = c.uid /\ d.version = c.version /\ d.custom = TRUE
  BY SetCustom
<1> HIDE DEF d
<1>3. File(c) \in DOMAIN server
  BY FileIsThere DEF Sound
<1>4. Known(d, inMemory)
  BY <1>2, <1>3 DEF Known, File
<1> QED
  BY <1>2, <1>4 DEF d

\* revert() gives a component the file of its version again.
LEMMA Reverted ==
  ASSUME NEW c \in Component, Known(c, inMemory)
  PROVE  LET d == revert(c) IN
         d \in Component /\ d.uid = c.uid /\ ~d.custom /\ Known(d, inMemory)
<1> DEFINE d == revert(c)
           l == c.loaded /\ File(c) \in inMemory
<1>1. CASE ~c.custom
  BY <1>1 DEF revert
<1>2. CASE c.custom
  <2> DEFINE e == [c EXCEPT !.custom = FALSE]
  <2>1. d = [c EXCEPT !.custom = FALSE, !.loaded = l]
    BY <1>2 DEF revert, Component
  <2>2. l \in BOOLEAN
    BY DEF Component
  <2> HIDE DEF d, l
  <2>3. d = [e EXCEPT !.loaded = l]
    BY <2>1, Several
  <2>6. e \in Component /\ e.uid = c.uid /\ e.version = c.version /\ e.custom = FALSE
    BY SetCustom
  <2> HIDE DEF e
  <2>4. /\ d \in Component /\ d.uid = c.uid /\ d.version = c.version /\ d.custom = FALSE
        /\ d.loaded = l
    BY <2>2, <2>3, <2>6, Marked DEF Same
  <2>5. Known(d, inMemory)
    BY <2>4 DEF Known, File, l
  <2> QED
    BY <2>4, <2>5 DEF d
<1> QED
  BY <1>1, <1>2

\* A component that is set to another version.
LEMMA SetTo ==
  ASSUME ComponentsAssumption, Sound, NEW c \in Component, Known(c, inMemory), ~c.custom,
         NEW v \in Version
  PROVE  LET d == setVersion(c, v) IN
         d \in Component /\ d.uid = c.uid /\ ~d.custom /\ Known(d, inMemory)
<1> DEFINE d == setVersion(c, v)
           e == [c EXCEPT !.version = v]
<1>2. d = IF v = c.version THEN c
          ELSE IF ~c.loaded \/ c.custom THEN e
          ELSE IF <<c.uid, v>> \in inMemory THEN updateCachedData(e)
          ELSE [withoutFile(e) EXCEPT !.cached = v, !.loaded = FALSE]
  BY DEF setVersion
<1>3. /\ e \in Component /\ e.uid = c.uid /\ e.version = v /\ e.loaded = c.loaded
      /\ e.custom = FALSE
  BY SetVersion DEF Component
<1> HIDE DEF d, e
<1>4. File(e) = <<c.uid, v>>
  BY <1>3 DEF File
<1>5. CASE v = c.version
  BY <1>2, <1>5 DEF d
<1>6. CASE v # c.version /\ (~c.loaded \/ c.custom)
  <2>1. Known(e, inMemory)
    BY <1>3, <1>6 DEF Known
  <2> QED
    BY <1>2, <1>3, <1>6, <2>1 DEF d
<1>7. CASE v # c.version /\ ~(~c.loaded \/ c.custom) /\ <<c.uid, v>> \in inMemory
  <2>1. File(e) \in DOMAIN server /\ File(e) \in inMemory
    BY <1>4, <1>7, FileIsThere DEF Sound
  <2>2. d \in Component /\ Same(e, d)
    BY <1>2, <1>3, <1>7, <2>1, Updated
  <2>3. Known(d, inMemory)
    BY <1>3, <2>1, <2>2, SameFile DEF Known, Same
  <2> QED
    BY <1>3, <2>2, <2>3 DEF Same, d
<1>8. CASE v # c.version /\ ~(~c.loaded \/ c.custom) /\ <<c.uid, v>> \notin inMemory
  <2> DEFINE w == withoutFile(e)
           p == [w EXCEPT !.cached = v]
  <2>1. w \in Component /\ Same(e, w)
    BY <1>3, Emptied
  <2>2. d = [w EXCEPT !.cached = v, !.loaded = FALSE]
    BY <1>2, <1>8
  <2> HIDE DEF w
  <2>3. d = [p EXCEPT !.loaded = FALSE]
    BY <2>1, <2>2, Several
  <2>6. p \in Component /\ Same(w, p)
    BY <2>1, SetCached DEF Same
  <2> HIDE DEF p
  <2>4. d \in Component /\ d.uid = w.uid /\ d.custom = w.custom /\ d.loaded = FALSE
    BY <2>3, <2>6, Marked DEF Same
  <2>5. d.uid = c.uid /\ ~d.custom
    BY <1>3, <2>1, <2>4 DEF Same
  <2> QED
    BY <2>4, <2>5 DEF Known, d
<1> QED
  BY <1>5, <1>6, <1>7, <1>8

-----------------------------------------------------------------------------
(* Numbers, sequences and recursive functions. *)

\* A set of numbers has a smallest element.
LEMMA LeastOf ==
  ASSUME NEW S \in SUBSET Nat, S # {}
  PROVE  \E x \in S : \A y \in S : x <= y
<1>1. IsWellFoundedOn(OpToRel(<, Nat), Nat)
  BY NatLessThanWellFounded
<1>2. PICK x \in S : \A y \in S : ~(<<y, x>> \in OpToRel(<, Nat))
  BY <1>1, WFMin
<1>3. ASSUME NEW y \in S, y < x
      PROVE  FALSE
  <2> DEFINE p == <<y, x>>
  <2>1. p \in Nat \X Nat /\ p[1] < p[2]
    BY <1>3
  <2>2. p \notin OpToRel(<, Nat)
    BY <1>2
  <2> HIDE DEF p
  <2> QED
    BY <2>1, <2>2, Zenon DEF OpToRel
<1> QED
  BY <1>3

\* What holds at 0 and goes from each number to the next one holds up to n.
LEMMA UpTo ==
  ASSUME NEW n \in Nat, NEW g, NEW G, g[0] \in G[0],
         \A i \in 1..n : g[i - 1] \in G[i - 1] => g[i] \in G[i]
  PROVE  \A i \in 0..n : g[i] \in G[i]
<1> DEFINE Bad == {i \in 0..n : g[i] \notin G[i]}
<1>1. SUFFICES ASSUME Bad # {}
               PROVE  FALSE
  OBVIOUS
<1>2. PICK m \in Bad : \A k \in Bad : m <= k
  <2>1. Bad \in SUBSET Nat
    OBVIOUS
  <2> HIDE DEF Bad
  <2> QED
    BY <1>1, <2>1, LeastOf
<1>3. m \in 1..n /\ m - 1 \in 0..n /\ m - 1 \notin Bad
  BY <1>2
<1> QED
  BY <1>2, <1>3

\* A step that stays in a set can be iterated.
Closed(n, S, next) == \A i \in 1..n : \A x \in S : next[<<i, x>>] \in S
Turns(f, n, S, base, next) == /\ f \in [0..n -> S] /\ f[0] = base
                              /\ \A i \in 1..n : f[i] = next[<<i, f[i - 1]>>]

\* A function defined by a step from each number to the next one.
LEMMA Iterates ==
  ASSUME NEW n, n \in Nat, NEW S, NEW base, base \in S, NEW next, Closed(n, S, next)
  PROVE  \E f : Turns(f, n, S, base, next)
<1> USE DEF Closed, Turns
<1> DEFINE Bad == {m \in 0..n : ~\E f : Turns(f, m, S, base, next)}
<1>0. SUFFICES ASSUME ~\E f : Turns(f, n, S, base, next)
               PROVE  FALSE
  OBVIOUS
<1>1. n \in Bad
  BY <1>0
<1>2. PICK m \in Bad : \A k \in Bad : m <= k
  <2>1. Bad \in SUBSET Nat
    OBVIOUS
  <2> HIDE DEF Bad
  <2> QED
    BY <1>1, <2>1, LeastOf
<1>3. m # 0
  <2> DEFINE f == [i \in 0..0 |-> base]
  <2>1. f \in [0..0 -> S] /\ f[0] = base
    OBVIOUS
  <2>2. Turns(f, 0, S, base, next)
    BY <2>1
  <2> QED
    BY <1>2, <2>2
<1>4. m \in 1..n /\ m - 1 \in 0..n /\ m - 1 \notin Bad
  BY <1>2, <1>3
<1>5. PICK g : Turns(g, m - 1, S, base, next)
  BY <1>4
<1> DEFINE e == next[<<m, g[m - 1]>>]
           f == [i \in 0..m |-> IF i = m THEN e ELSE g[i]]
<1>6. g[m - 1] \in S
  BY <1>4, <1>5
<1>7. e \in S
  BY <1>4, <1>6
<1>8. f \in [0..m -> S] /\ f[0] = base /\ f[m] = e
  <2> HIDE DEF e
  <2> QED
    BY <1>3, <1>4, <1>5, <1>7
<1>9. ASSUME NEW i \in 1..m
      PROVE  f[i] = next[<<i, f[i - 1]>>]
  <2>1. i - 1 \in 0..m /\ i - 1 # m /\ f[i - 1] = g[i - 1]
    BY <1>4
  <2>2. CASE i = m
    BY <1>8, <2>1, <2>2
  <2>3. CASE i # m
    <3>1. i \in 1..(m - 1) /\ f[i] = g[i]
      BY <1>4, <2>3
    <3> QED
      BY <1>5, <2>1, <3>1
  <2> QED
    BY <2>2, <2>3
<1> HIDE DEF f, e
<1>10. Turns(f, m, S, base, next)
  BY <1>8, <1>9
<1> QED
  BY <1>2, <1>10

\* A finite set of numbers has a largest one, and any set has a smallest one.
LEMMA Bounded ==
  ASSUME NEW S \in SUBSET Nat, IsFiniteSet(S)
  PROVE  \E n \in Nat : \A x \in S : x <= n
<1> DEFINE k == Cardinality(S)
<1>1. k \in Nat /\ ExistsBijection(1..k, S)
  BY FS_CardinalityType
<1> HIDE DEF k
<1>2. PICK f \in [1..k -> S] : \A x \in S : \E i \in 1..k : f[i] = x
  BY <1>1 DEF ExistsBijection, Bijection, Surjection
<1> DEFINE Fits(m) == \E n \in Nat : \A i \in 1..m : f[i] <= n
           Bad == {m \in 0..k : ~Fits(m)}
<1>3. SUFFICES ASSUME ~Fits(k)
               PROVE  FALSE
  BY <1>2
<1>4. k \in Bad
  BY <1>1, <1>3
<1>5. PICK m \in Bad : \A j \in Bad : m <= j
  <2>1. Bad \in SUBSET Nat
    BY <1>1
  <2> HIDE DEF Bad
  <2> QED
    BY <1>4, <2>1, LeastOf
<1>6. m # 0
  <2>1. \A i \in 1..0 : f[i] <= 0
    OBVIOUS
  <2>2. Fits(0)
    BY <2>1
  <2> QED
    BY <1>5, <2>2
<1>7. m \in 1..k /\ m - 1 \in 0..k /\ m - 1 \notin Bad
  <2> HIDE DEF Fits
  <2>1. m \in 0..k
    BY <1>5
  <2>2. m \in 1..k /\ m - 1 \in 0..k /\ ~(m <= m - 1)
    BY <1>1, <1>6, <2>1
  <2> QED
    BY <1>5, <2>2
<1>8. PICK n \in Nat : \A i \in 1..(m - 1) : f[i] <= n
  BY <1>7
<1>9. PICK b \in Nat : n <= b /\ f[m] <= b
  <2>1. f[m] \in Nat
    BY <1>1, <1>2, <1>7
  <2> DEFINE v == f[m]
  <2> HIDE DEF v
  <2>2. v \in Nat
    BY <2>1 DEF v
  <2>3. n + v \in Nat /\ n <= n + v /\ v <= n + v
    BY <2>2
  <2> QED
    BY <2>3 DEF v
<1>10. \A i \in 1..m : f[i] <= b
  <2> SUFFICES ASSUME NEW i \in 1..m
               PROVE  f[i] <= b
    OBVIOUS
  <2>4. i \in 1..k
    BY <1>1, <1>7
  <2>1. f[i] \in Nat
    BY <1>2, <2>4
  <2>2. CASE i = m
    BY <1>9, <2>2
  <2>3. CASE i # m
    <3>1. i \in 1..(m - 1)
      BY <1>1, <1>7, <2>3
    <3>2. f[i] <= n
      BY <1>8, <3>1
    <3> DEFINE v == f[i]
    <3>3. v \in Nat /\ v <= n
      BY <2>1, <3>2
    <3>4. n <= b
      BY <1>9
    <3> HIDE DEF v
    <3>5. v <= b
      BY <3>3, <3>4
    <3> QED
      BY <3>5 DEF v
  <2> QED
    BY <2>2, <2>3
<1> QED
  BY <1>5, <1>10

\* Max of a finite set of numbers is one of them and none is larger.
LEMMA MaxIsMember ==
  ASSUME NEW S \in SUBSET Nat, S # {}, IsFiniteSet(S)
  PROVE  Max(S) \in S /\ \A x \in S : x <= Max(S)
<1> DEFINE B == {b \in Nat : \A x \in S : x <= b}
<1>1. B \in SUBSET Nat /\ B # {}
  BY Bounded
<1>2. PICK b \in B : \A c \in B : b <= c
  BY <1>1, LeastOf
<1>3. b \in S
  <2>1. SUFFICES ASSUME b \notin S
                 PROVE  FALSE
    OBVIOUS
  <2>2. PICK x \in S : TRUE
    OBVIOUS
  <2>3. \A y \in S : y <= b - 1
    BY <1>2, <2>1
  <2>4. b - 1 \in B
    BY <1>2, <2>2, <2>3
  <2> QED
    BY <1>2, <2>4
<1>4. \E x \in S : \A y \in S : x >= y
  BY <1>2, <1>3
<1> QED
  BY <1>4 DEF Max

\* Min of a set of numbers is one of them and none is smaller.
LEMMA MinIsMember ==
  ASSUME NEW S \in SUBSET Nat, S # {}
  PROVE  Min(S) \in S /\ \A x \in S : Min(S) <= x
<1>1. \E x \in S : \A y \in S : x <= y
  BY LeastOf
<1> QED
  BY <1>1 DEF Min

\* Where the elements of a sequence are after one was inserted or removed.
From(k, p) == IF k < p THEN k ELSE k - 1
Grown(t, s, p, e) ==
  /\ Len(t) = Len(s) + 1 /\ t[p] = e
  /\ \A k \in (1..(Len(s) + 1)) \ {p} : t[k] = s[From(k, p)] /\ From(k, p) \in 1..Len(s)

\* InsertAt: everything from the place on has moved by one.
LEMMA Inserted ==
  ASSUME NEW S, NEW s \in Seq(S), NEW p \in 1..Len(s), NEW e \in S
  PROVE  InsertAt(s, p, e) \in Seq(S) /\ Grown(InsertAt(s, p, e), s, p, e)
<1> USE DEF From
<1> DEFINE front == SubSeq(s, 1, p - 1)
           back == SubSeq(s, p, Len(s))
           t == InsertAt(s, p, e)
<1>1. Len(s) \in Nat /\ p \in Nat /\ \A i \in 1..Len(s) : s[i] \in S
  OBVIOUS
<1>2. front \in Seq(S) /\ Len(front) = p - 1 /\ \A i \in 1..(p - 1) : front[i] = s[i]
  BY <1>1
<1>3. /\ back \in Seq(S) /\ Len(back) = Len(s) - p + 1
      /\ \A i \in 1..(Len(s) - p + 1) : back[i] = s[i + p - 1]
  BY <1>1
<1>4. t = front \o <<e>> \o back
  BY DEF InsertAt
<1> HIDE DEF front, back
<1> DEFINE begin == front \o <<e>>
<1>5. /\ begin \in Seq(S) /\ Len(begin) = p /\ begin[p] = e
      /\ \A i \in 1..(p - 1) : begin[i] = s[i]
  BY <1>1, <1>2
<1>6. t = begin \o back
  BY <1>4
<1> HIDE DEF begin, t
<1>7. t \in Seq(S) /\ Len(t) = Len(s) + 1
  <2>1. t \in Seq(S) /\ Len(t) = Len(begin) + Len(back)
    BY <1>3, <1>5, <1>6, ConcatProperties
  <2> QED
    BY <1>1, <1>3, <1>5, <2>1
<1>8. \A k \in 1..(Len(s) + 1) : t[k] = IF k <= p THEN begin[k] ELSE back[k - p]
  BY <1>1, <1>3, <1>5, <1>6
<1>9. t[p] = e
  BY <1>1, <1>5, <1>8
<1>10. ASSUME NEW k \in (1..(Len(s) + 1)) \ {p}
       PROVE  /\ t[k] = s[IF k < p THEN k ELSE k - 1]
              /\ (IF k < p THEN k ELSE k - 1) \in 1..Len(s)
  <2>1. CASE k < p
    BY <1>1, <1>5, <1>8, <2>1
  <2>2. CASE k > p
    <3>1. k - p \in 1..(Len(s) - p + 1) /\ k - p + p - 1 = k - 1
      BY <1>1, <2>2
    <3>2. t[k] = back[k - p]
      BY <1>1, <1>8, <2>2
    <3> QED
      BY <1>1, <1>3, <2>2, <3>1, <3>2
  <2> QED
    BY <1>1, <2>1, <2>2
<1>11. Grown(t, s, p, e)
  BY <1>7, <1>9, <1>10 DEF Grown
<1> QED
  BY <1>7, <1>11 DEF t

Shrunk(t, s, n) ==
  /\ Len(t) = Len(s) - 1
  /\ \A i \in 1..(Len(s) - 1) : t[i] = s[IF i < n THEN i ELSE i + 1]

\* RemoveAt: everything after the place has moved by one.
LEMMA Removed ==
  ASSUME NEW S, NEW s \in Seq(S), NEW n \in 1..Len(s)
  PROVE  RemoveAt(s, n) \in Seq(S) /\ Shrunk(RemoveAt(s, n), s, n)
<1>1. Len(s) \in Nat /\ n \in Nat /\ \A i \in 1..Len(s) : s[i] \in S
  OBVIOUS
<1> DEFINE front == SubSeq(s, 1, n - 1)
           back == SubSeq(s, n + 1, Len(s))
<1>2. /\ front \in Seq(S) /\ Len(front) = n - 1
      /\ \A i \in 1..(n - 1) : front[i] = s[i]
  BY <1>1
<1>3. /\ back \in Seq(S) /\ Len(back) = Len(s) - n
      /\ \A i \in 1..(Len(s) - n) : back[i] = s[i + n]
  BY <1>1
<1> DEFINE t == RemoveAt(s, n)
<1>4. t = front \o back
  BY DEF RemoveAt
<1> HIDE DEF front, back, t
<1>5. /\ t \in Seq(S) /\ Len(t) = Len(s) - 1
      /\ \A i \in 1..(Len(s) - 1) : t[i] = s[IF i < n THEN i ELSE i + 1]
  <2>1. /\ t \in Seq(S) /\ Len(t) = Len(front) + Len(back)
        /\ \A i \in 1..(Len(front) + Len(back)) :
             t[i] = IF i <= Len(front) THEN front[i] ELSE back[i - Len(front)]
    BY <1>2, <1>3, <1>4, ConcatProperties
  <2>2. Len(front) + Len(back) = Len(s) - 1
    BY <1>1, <1>2, <1>3
  <2>3. ASSUME NEW i \in 1..(Len(s) - 1)
        PROVE  t[i] = s[IF i < n THEN i ELSE i + 1]
    <3>1. CASE i < n
      BY <1>1, <1>2, <2>1, <2>2, <3>1
    <3>2. CASE ~(i < n)
      <4>1. i - (n - 1) \in 1..(Len(s) - n) /\ i - (n - 1) + n = i + 1
        BY <1>1, <3>2
      <4>2. t[i] = back[i - (n - 1)]
        BY <1>1, <1>2, <2>1, <2>2, <3>2
      <4> QED
        BY <1>3, <3>2, <4>1, <4>2
    <3> QED
      BY <3>1, <3>2
  <2> QED
    BY <2>1, <2>2, <2>3
<1>6. t \in Seq(S) /\ Shrunk(t, s, n)
  BY <1>5 DEF Shrunk
<1> QED
  BY <1>6 DEF t

-----------------------------------------------------------------------------
(* Lists of components, and what is composed of what they require. *)

Listed(cs) == /\ cs \in Seq(Component)
              /\ \A i, j \in DOMAIN cs : i # j => cs[i].uid # cs[j].uid

\* The place of a uid that is in the list is one at which it is.
LEMMA PlaceOf ==
  ASSUME NEW cs, NEW u, Has(cs, u)
  PROVE  Place(cs, u) \in DOMAIN cs /\ cs[Place(cs, u)].uid = u
BY DEF Has, Place

\* The place of a component is found by its uid.
LEMMA OnePlace ==
  ASSUME NEW cs, Listed(cs), NEW i \in DOMAIN cs
  PROVE  Has(cs, cs[i].uid) /\ Place(cs, cs[i].uid) = i
<1>1. Has(cs, cs[i].uid)
  BY DEF Has
<1> QED
  BY <1>1, PlaceOf DEF Listed

\* The largest of the versions that are asked for is one of them.
LEMMA Versions ==
  ASSUME ComponentsAssumption, NEW S \in SUBSET Version, S # {}
  PROVE  Max(S) \in S
<1>1. Ver \in SUBSET Nat /\ IsFiniteSet(Ver) /\ NoVersion \in Nat
  BY DEF ComponentsAssumption, NoVersion
<1>2. IsFiniteSet(Version) /\ Version \in SUBSET Nat
  <2>1. IsFiniteSet(Ver \cup {NoVersion})
    BY <1>1, FS_AddElement
  <2> QED
    BY <1>1, <2>1 DEF Version
<1>3. IsFiniteSet(S) /\ S \in SUBSET Nat
  BY <1>2, FS_Subset
<1> QED
  BY <1>3, MaxIsMember

\* What components require is a finite set of requirements.
LEMMA Requirements ==
  ASSUME NEW cs \in Seq(Component)
  PROVE  AllRequires(cs) \subseteq Requirement /\ Required(cs) \subseteq Uid
<1>1. ASSUME NEW i \in DOMAIN cs
      PROVE  cs[i].requires \subseteq Requirement
  <2>1. cs[i] \in Component
    OBVIOUS
  <2> QED
    BY <2>1 DEF Component
<1>2. AllRequires(cs) \subseteq Requirement
  BY <1>1 DEF AllRequires
<1> QED
  BY <1>2 DEF Required, Requirement

\* What is composed of all who require a uid: a version, and the place of the first.
LEMMA Composed ==
  ASSUME ComponentsAssumption, NEW cs \in Seq(Component), NEW u \in Required(cs)
  PROVE  LET r == composeRequirement(cs, u) IN
         /\ r.equals \in Version /\ r.suggests \in Version
         /\ r.indexOfFirstDependee \in DOMAIN cs
         /\ \A d \in Dependees(cs, u) : r.indexOfFirstDependee <= d
<1> DEFINE r == composeRequirement(cs, u)
           suggestions == {q.suggests : q \in {p \in AllRequires(cs) : p.uid = u}}
           exact == IF Exact(cs, u) = {} THEN NoVersion ELSE Max(Exact(cs, u))
<1>1. r = [equals |-> exact, suggests |-> Max(suggestions),
           indexOfFirstDependee |-> Min(Dependees(cs, u))]
  BY DEF composeRequirement
<1>2. exact \in Version
  <2>1. Exact(cs, u) \in SUBSET Version
    BY Requirements DEF Exact, Requirement
  <2> QED
    BY <2>1, Versions DEF Version
<1>3. PICK q \in AllRequires(cs) : q.uid = u
  BY DEF Required
<1>4. Max(suggestions) \in Version
  <2>1. suggestions \in SUBSET Version /\ suggestions # {}
    BY <1>3, Requirements DEF Requirement
  <2> HIDE DEF suggestions
  <2> QED
    BY <2>1, Versions
<1>5. /\ Min(Dependees(cs, u)) \in DOMAIN cs
      /\ \A d \in Dependees(cs, u) : Min(Dependees(cs, u)) <= d
  <2>1. Dependees(cs, u) \in SUBSET Nat /\ Dependees(cs, u) \subseteq DOMAIN cs
    BY DEF Dependees
  <2>2. Dependees(cs, u) # {}
    BY <1>3 DEF AllRequires, Dependees
  <2> QED
    BY <2>1, <2>2, MinIsMember
<1> HIDE DEF exact, suggestions
<1>6. /\ r.equals = exact /\ r.suggests = Max(suggestions)
      /\ r.indexOfFirstDependee = Min(Dependees(cs, u))
  BY <1>1
<1> QED
  BY <1>2, <1>4, <1>5, <1>6 DEF r

\* What is added is a component of which nothing has been loaded.
Fresh(c) == c \in Component /\ ~c.custom /\ ~c.loaded

\* A new component is one of which nothing has been loaded.
LEMMA NewIsFresh ==
  ASSUME NEW u \in Uid, NEW v \in Version, NEW d \in BOOLEAN
  PROVE  Fresh(NewComponent(u, v, d)) /\ NewComponent(u, v, d).uid = u
BY DEF Fresh, NewComponent, Component, Version

\* The version that is decided for an addition is a version, or none.
LEMMA Decided ==
  ASSUME ComponentsAssumption, NEW cs \in Seq(Component), NEW u, NEW r,
         r.equals \in Version, r.suggests \in Version
  PROVE  decideVersion(cs, u, r) \in Version
<1>1. ASSUME Has(cs, Minecraft)
      PROVE  cs[Place(cs, Minecraft)].cached \in Version
  <2>1. cs[Place(cs, Minecraft)] \in Component
    BY <1>1, PlaceOf
  <2> QED
    BY <2>1 DEF Component
<1>2. \A w \in DOMAIN Builtin : Builtin[w] \in Version
  BY DEF ComponentsAssumption, Version
<1> QED
  BY <1>1, <1>2 DEF decideVersion, Version

-----------------------------------------------------------------------------
(* What is left of a list after the removals, and what it is after the additions. *)

\* What is left when the first n have been looked at.
Left(cs, n, s) ==
  /\ s \in Seq(Component)
  /\ \A k \in DOMAIN s : \E j \in 1..n : s[k] = cs[j]
  /\ \A k, l \in DOMAIN s : k # l => s[k].uid # s[l].uid

\* The removals of a round, one after the other.
LEMMA RemovesInTurn ==
  ASSUME NEW cs \in Seq(Component), NEW obsolete
  PROVE  \E g : /\ removeAll(cs, obsolete) = g[Len(cs)] /\ g[0] = <<>>
                /\ \A i \in 1..Len(cs) :
                     g[i] = IF i \in obsolete THEN g[i - 1] ELSE Append(g[i - 1], cs[i])
<1> DEFINE n == Len(cs)
           S == Seq(Component)
           Turn(i, s) == IF i \in obsolete THEN s ELSE Append(s, cs[i])
           next == [p \in (1..n) \X S |-> Turn(p[1], p[2])]
           Loop(f) == [i \in 0..n |-> IF i = 0 THEN <<>>
                                       ELSE IF i \in obsolete THEN f[i - 1]
                                       ELSE Append(f[i - 1], cs[i])]
           kept == CHOOSE f : f = Loop(f)
<1>1. n \in Nat /\ <<>> \in S
  OBVIOUS
<1>2. removeAll(cs, obsolete) = kept[n]
  BY DEF removeAll
<1>3. next \in [(1..n) \X S -> S]
  <2>1. ASSUME NEW p \in (1..n) \X S
        PROVE  Turn(p[1], p[2]) \in S
    <3>1. cs[p[1]] \in Component /\ p[2] \in S
      OBVIOUS
    <3> QED
      BY <3>1, AppendProperties
  <2> QED
    BY <2>1
<1>0. Closed(n, S, next)
  <2> HIDE DEF next, S, n
  <2> QED
    BY <1>3 DEF Closed
<1>4. PICK f : Turns(f, n, S, <<>>, next)
  <2> HIDE DEF next, S, n
  <2> QED
    BY <1>0, <1>1, Iterates
<1>10. f \in [0..n -> S] /\ f[0] = <<>> /\ \A i \in 1..n : f[i] = next[<<i, f[i - 1]>>]
  <2> HIDE DEF next, S, n
  <2> QED
    BY <1>4 DEF Turns
<1>5. ASSUME NEW i \in 1..n
      PROVE  f[i] = Turn(i, f[i - 1])
  <2>3. i - 1 \in 0..n
    BY <1>1
  <2>1. <<i, f[i - 1]>> \in (1..n) \X S
    <3> HIDE DEF S, n
    <3> QED
      BY <1>10, <2>3
  <2>2. next[<<i, f[i - 1]>>] = Turn(i, f[i - 1])
    BY <2>1
  <2> QED
    BY <1>10, <2>2
<1>6. f = Loop(f)
  <2>1. f = [i \in 0..n |-> f[i]]
    BY <1>10
  <2>2. ASSUME NEW i \in 0..n
        PROVE  f[i] = IF i = 0 THEN <<>> ELSE IF i \in obsolete THEN f[i - 1]
                      ELSE Append(f[i - 1], cs[i])
    <3>1. CASE i = 0
      BY <1>10, <3>1
    <3>2. CASE i # 0
      <4>1. i \in 1..n
        BY <1>1, <3>2
      <4>2. f[i] = Turn(i, f[i - 1])
        BY <1>5, <4>1
      <4> QED
        BY <3>2, <4>2
    <3> QED
      BY <3>1, <3>2
  <2> QED
    BY <2>1, <2>2, Zenon
<1>7. kept = Loop(kept)
  BY <1>6, Zenon
<1> HIDE DEF kept
<1>8. ASSUME NEW i \in 0..n
      PROVE  kept[i] = IF i = 0 THEN <<>> ELSE Turn(i, kept[i - 1])
  <2>1. kept[i] = Loop(kept)[i]
    BY <1>7, Zenon
  <2> QED
    BY <2>1
<1>9. kept[0] = <<>> /\ \A i \in 1..n : kept[i] = Turn(i, kept[i - 1])
  BY <1>1, <1>8
<1> QED
  BY <1>2, <1>9

\* After a round's removals the list is the rest of it, in the same order.
LEMMA LeftOver ==
  ASSUME NEW cs, Listed(cs), NEW obsolete
  PROVE  Left(cs, Len(cs), removeAll(cs, obsolete))
<1>1. cs \in Seq(Component) /\ Len(cs) \in Nat
  BY DEF Listed
<1>2. PICK g : /\ removeAll(cs, obsolete) = g[Len(cs)] /\ g[0] = <<>>
               /\ \A i \in 1..Len(cs) :
                    g[i] = IF i \in obsolete THEN g[i - 1] ELSE Append(g[i - 1], cs[i])
  BY <1>1, RemovesInTurn
<1> DEFINE G == [i \in 0..Len(cs) |-> {s \in Seq(Component) : Left(cs, i, s)}]
<1>3. g[0] \in G[0]
  <2>1. Left(cs, 0, <<>>)
    BY DEF Left
  <2> QED
    BY <1>1, <1>2, <2>1
<1>10. ASSUME NEW i \in 1..Len(cs), g[i - 1] \in G[i - 1]
      PROVE  g[i] \in G[i]
  <2> DEFINE s == g[i - 1]
             t == Append(s, cs[i])
  <2>1. i \in 0..Len(cs) /\ i - 1 \in 0..Len(cs)
    BY <1>1
  <2>2. Left(cs, i - 1, s)
    BY <1>10, <2>1
  <2> HIDE DEF s
  <2>3. Left(cs, i, s)
    BY <1>1, <2>2 DEF Left
  <2>4. Left(cs, i, t)
    <3>1. s \in Seq(Component) /\ Len(s) \in Nat /\ cs[i] \in Component
      BY <1>1, <2>2 DEF Left
    <3>2. /\ t \in Seq(Component) /\ Len(t) = Len(s) + 1 /\ t[Len(s) + 1] = cs[i]
          /\ \A k \in 1..Len(s) : t[k] = s[k]
      BY <3>1
    <3> HIDE DEF t
    <3>3. ASSUME NEW k \in DOMAIN s
          PROVE  s[k].uid # cs[i].uid
      <4>1. PICK j \in 1..(i - 1) : s[k] = cs[j]
        BY <2>2 DEF Left
      <4>2. j \in DOMAIN cs /\ i \in DOMAIN cs /\ j # i
        BY <1>1
      <4> QED
        BY <4>1, <4>2 DEF Listed
    <3>4. ASSUME NEW k \in DOMAIN t
          PROVE  \E j \in 1..i : t[k] = cs[j]
      <4>1. CASE k = Len(s) + 1
        BY <1>1, <3>2, <4>1
      <4>2. CASE k # Len(s) + 1
        <5>1. k \in DOMAIN s /\ t[k] = s[k]
          BY <3>1, <3>2, <4>2
        <5> QED
          BY <2>3, <5>1 DEF Left
      <4> QED
        BY <4>1, <4>2
    <3>5. ASSUME NEW k \in DOMAIN t, NEW l \in DOMAIN t, k # l
          PROVE  t[k].uid # t[l].uid
      <4>1. \A m \in DOMAIN t : m = Len(s) + 1 \/ (m \in DOMAIN s /\ t[m] = s[m])
        BY <3>1, <3>2
      <4> QED
        BY <2>3, <3>2, <3>3, <3>5, <4>1 DEF Left
    <3> QED
      BY <3>2, <3>4, <3>5 DEF Left
  <2>5. g[i] = IF i \in obsolete THEN s ELSE t
    BY <1>2 DEF s
  <2>6. Left(cs, i, g[i])
    BY <2>3, <2>4, <2>5
  <2> QED
    BY <2>1, <2>6 DEF Left
<1>5. \A i \in 0..Len(cs) : g[i] \in G[i]
  <2> HIDE DEF G
  <2> QED
    BY <1>1, <1>3, <1>10, UpTo
<1> QED
  BY <1>1, <1>2, <1>5

\* What the list is when n of the uids have been looked at.
Extended(cs, n, s) ==
  /\ s \in Seq(Component) /\ Len(s) >= Len(cs)
  /\ \A k \in DOMAIN s :
       \/ \E j \in DOMAIN cs : j <= k /\ s[k] = cs[j]
       \/ Fresh(s[k]) /\ \E j \in 1..n : Order[j] \in Missing(cs) /\ s[k].uid = Order[j]
  /\ \A k, l \in DOMAIN s : k # l => s[k].uid # s[l].uid
  /\ \A k, l \in DOMAIN s :
       /\ ~Has(cs, s[k].uid)
       /\ \E d \in Dependees(cs, s[k].uid) : cs[d].uid = s[l].uid
       => k < l

\* What the order says of the uids.
LEMMA OrderOfUids ==
  ASSUME ComponentsAssumption
  PROVE  /\ Len(Order) \in Nat /\ DOMAIN Order = 1..Len(Order)
         /\ \A i \in 1..Len(Order) : Order[i] \in Uid
         /\ \A i, j \in 1..Len(Order) : Order[i] = Order[j] => i = j
BY DEF ComponentsAssumption

\* The one that is added.
Adds(cs, u) ==
  NewComponent(u, decideVersion(cs, u, composeRequirement(cs, u)), TRUE)

\* An addition goes in at the first of its dependees, whatever has gone in before it.
LEMMA OneMore ==
  ASSUME ComponentsAssumption, NEW cs \in Seq(Component), NEW u \in Missing(cs),
         NEW s \in Seq(Component), Len(s) >= Len(cs)
  PROVE  LET p == composeRequirement(cs, u).indexOfFirstDependee IN
         /\ addComponent(s, cs, u) = InsertAt(s, p, Adds(cs, u))
         /\ p \in 1..Len(s) /\ p \in DOMAIN cs /\ \A d \in Dependees(cs, u) : p <= d
         /\ Fresh(Adds(cs, u)) /\ Adds(cs, u).uid = u
<1> DEFINE r == composeRequirement(cs, u)
           p == r.indexOfFirstDependee
<1>1. u \in Required(cs) /\ u \in Uid
  BY Requirements DEF Missing
<1>2. /\ r.equals \in Version /\ r.suggests \in Version /\ p \in DOMAIN cs
      /\ \A d \in Dependees(cs, u) : p <= d
  BY <1>1, Composed
<1>3. decideVersion(cs, u, r) \in Version
  <2> HIDE DEF r
  <2> QED
    BY <1>2, Decided
<1>4. Fresh(Adds(cs, u)) /\ Adds(cs, u).uid = u
  BY <1>1, <1>3, NewIsFresh DEF Adds
<1>5. addComponent(s, cs, u) = InsertAt(s, p, Adds(cs, u))
  BY DEF addComponent, Adds
<1>6. p \in 1..Len(s)
  BY <1>2
<1> QED
  BY <1>2, <1>4, <1>5, <1>6

\* With one more addition the list is what it should be after one more uid.
LEMMA ExtendOne ==
  ASSUME ComponentsAssumption, NEW cs, Listed(cs), NEW n \in 1..Len(Order),
         Order[n] \in Missing(cs), NEW s, Extended(cs, n - 1, s)
  PROVE  Extended(cs, n, addComponent(s, cs, Order[n]))
<1> DEFINE u == Order[n]
           p == composeRequirement(cs, u).indexOfFirstDependee
           e == Adds(cs, u)
           t == addComponent(s, cs, u)
<1>1. /\ cs \in Seq(Component) /\ Len(cs) \in Nat /\ DOMAIN cs = 1..Len(cs)
      /\ s \in Seq(Component) /\ Len(s) \in Nat /\ DOMAIN s = 1..Len(s) /\ Len(s) >= Len(cs)
  BY DEF Listed, Extended
<1>2. /\ t = InsertAt(s, p, e) /\ p \in 1..Len(s) /\ p \in DOMAIN cs
      /\ \A d \in Dependees(cs, u) : p <= d
      /\ Fresh(e) /\ e.uid = u
  BY <1>1, OneMore
<1>3. u \in Missing(cs) /\ ~Has(cs, u)
  BY DEF Missing
<1>4. n \in Nat /\ \A i \in 1..(n - 1) : i \in 1..n /\ Order[i] # u
  BY OrderOfUids
<1>5. n \in 1..n
  BY <1>4
<1>6. Len(Order) \in Nat
  BY OrderOfUids
<1> HIDE DEF u, e, t, p
<1>7. e \in Component
  BY <1>2 DEF Fresh
<1>0. t \in Seq(Component) /\ Grown(t, s, p, e)
  BY <1>1, <1>2, <1>7, Inserted
<1>8. t \in Seq(Component) /\ Len(t) = Len(s) + 1 /\ t[p] = e
  BY <1>0 DEF Grown
<1>9. DOMAIN t = 1..(Len(s) + 1)
  BY <1>1, <1>8
<1>10. \A k \in DOMAIN t : k # p => t[k] = s[From(k, p)] /\ From(k, p) \in 1..Len(s)
  BY <1>0, <1>9 DEF Grown
<1>11. /\ \A k \in DOMAIN t : k # p => From(k, p) <= k
       /\ \A k, l \in DOMAIN t : k # p /\ l # p =>
            /\ From(k, p) < From(l, p) => k < l
            /\ From(k, p) = From(l, p) => k = l
  BY <1>1, <1>2, <1>9 DEF From
<1>12. ASSUME NEW k \in DOMAIN s
       PROVE  s[k].uid # u
  <2>1. CASE \E j \in DOMAIN cs : j <= k /\ s[k] = cs[j]
    BY <1>3, <2>1 DEF Has
  <2>2. CASE \E j \in 1..(n - 1) : s[k].uid = Order[j]
    BY <1>4, <2>2
  <2> QED
    BY <2>1, <2>2 DEF Extended
<1>13. ASSUME NEW k \in DOMAIN t
       PROVE  \/ \E j \in DOMAIN cs : j <= k /\ t[k] = cs[j]
              \/ Fresh(t[k]) /\ \E j \in 1..n : Order[j] \in Missing(cs) /\ t[k].uid = Order[j]
  <2>1. CASE k = p
    BY <1>2, <1>3, <1>5, <1>8, <2>1 DEF u
  <2>2. CASE k # p
    <3> DEFINE q == From(k, p)
    <3>1. t[k] = s[q] /\ q \in DOMAIN s /\ q <= k
      BY <1>1, <1>10, <1>11, <2>2
    <3> HIDE DEF q
    <3>2. \/ \E j \in DOMAIN cs : j <= q /\ s[q] = cs[j]
          \/ Fresh(s[q]) /\ \E j \in 1..(n - 1) : Order[j] \in Missing(cs) /\ s[q].uid = Order[j]
      BY <3>1 DEF Extended
    <3>3. CASE \E j \in DOMAIN cs : j <= q /\ s[q] = cs[j]
      <4>1. PICK j \in DOMAIN cs : j <= q /\ s[q] = cs[j]
        BY <3>3
      <4>2. j <= k
        BY <1>1, <1>9, <3>1, <4>1
      <4> QED
        BY <3>1, <4>1, <4>2
    <3>4. CASE Fresh(s[q]) /\ \E j \in 1..(n - 1) : Order[j] \in Missing(cs) /\ s[q].uid = Order[j]
      BY <1>4, <3>1, <3>4
    <3> QED
      BY <3>2, <3>3, <3>4
  <2> QED
    BY <2>1, <2>2
<1>14. ASSUME NEW k \in DOMAIN t, NEW l \in DOMAIN t, k # l
       PROVE  t[k].uid # t[l].uid
  <2>1. CASE k # p /\ l # p
    <3>1. From(k, p) # From(l, p) /\ From(k, p) \in DOMAIN s /\ From(l, p) \in DOMAIN s
      BY <1>1, <1>10, <1>11, <1>14, <2>1
    <3>2. s[From(k, p)].uid # s[From(l, p)].uid
      BY <3>1 DEF Extended
    <3> QED
      BY <1>10, <2>1, <3>2
  <2>2. CASE k = p
    BY <1>1, <1>2, <1>8, <1>10, <1>12, <1>14, <2>2
  <2>3. CASE l = p
    BY <1>1, <1>2, <1>8, <1>10, <1>12, <1>14, <2>3
  <2> QED
    BY <2>1, <2>2, <2>3
<1>15. ASSUME NEW k \in DOMAIN t, NEW l \in DOMAIN t, ~Has(cs, t[k].uid),
              NEW d \in Dependees(cs, t[k].uid), cs[d].uid = t[l].uid
       PROVE  k < l
  <2>1. d \in DOMAIN cs
    BY DEF Dependees
  <2>2. Has(cs, t[l].uid)
    BY <1>15, <2>1 DEF Has
  <2>3. l # p
    BY <1>2, <1>3, <1>8, <2>2
  <2> DEFINE q == From(l, p)
  <2>4. t[l] = s[q] /\ q \in DOMAIN s
    BY <1>1, <1>10, <2>3
  <2> HIDE DEF q
  <2>5. CASE k = p
    <3>1. p <= d
      BY <1>2, <1>8, <2>5
    <3>2. d <= q
      <4>1. \/ \E j \in DOMAIN cs : j <= q /\ s[q] = cs[j]
            \/ \E j \in 1..(n - 1) : Order[j] \in Missing(cs) /\ s[q].uid = Order[j]
        BY <2>4 DEF Extended
      <4>2. ~\E j \in 1..(n - 1) : Order[j] \in Missing(cs) /\ s[q].uid = Order[j]
        BY <2>2, <2>4 DEF Missing
      <4>3. PICK j \in DOMAIN cs : j <= q /\ s[q] = cs[j]
        BY <4>1, <4>2
      <4>4. j = d
        BY <1>15, <2>1, <2>4, <4>3 DEF Listed
      <4> QED
        BY <4>3, <4>4
    <3>3. p <= q
      BY <1>1, <1>2, <2>1, <2>4, <3>1, <3>2
    <3>4. l \in DOMAIN t /\ (l < p => q = l)
      BY DEF q, From
    <3> QED
      BY <1>1, <1>2, <1>9, <2>3, <2>5, <3>3, <3>4
  <2>6. CASE k # p
    <3>1. t[k] = s[From(k, p)] /\ From(k, p) \in DOMAIN s
      BY <1>1, <1>10, <2>6
    <3>2. From(k, p) < q
      BY <1>15, <2>4, <3>1 DEF Extended
    <3> QED
      BY <1>11, <2>3, <2>6, <3>2 DEF q
  <2> QED
    BY <2>5, <2>6
<1>16. Len(t) >= Len(cs)
  BY <1>1, <1>8
<1>17. Extended(cs, n, t)
  BY <1>8, <1>13, <1>14, <1>15, <1>16 DEF Extended
<1> QED
  BY <1>17 DEF t, u

\* The additions of a round, one after the other.
LEMMA AddsInTurn ==
  ASSUME ComponentsAssumption, NEW cs \in Seq(Component)
  PROVE  \E g : /\ addMissing(cs) = g[Len(Order)] /\ g[0] = cs
                /\ \A i \in 1..Len(Order) :
                     g[i] = IF Order[i] \in Missing(cs)
                            THEN addComponent(g[i - 1], cs, Order[i]) ELSE g[i - 1]
<1> DEFINE n == Len(Order)
           S == {s \in Seq(Component) : Len(s) >= Len(cs)}
           Turn(i, s) == IF Order[i] \in Missing(cs) THEN addComponent(s, cs, Order[i]) ELSE s
           next == [p \in (1..n) \X S |-> Turn(p[1], p[2])]
           Loop(f) == [i \in 0..n |-> IF i = 0 THEN cs
                                       ELSE IF Order[i] \in Missing(cs)
                                       THEN addComponent(f[i - 1], cs, Order[i])
                                       ELSE f[i - 1]]
           added == CHOOSE f : f = Loop(f)
<1>1. n \in Nat /\ cs \in S
  BY OrderOfUids
<1>2. addMissing(cs) = added[n]
  BY DEF addMissing
<1>3. ASSUME NEW i \in 1..n, NEW s \in S
      PROVE  Turn(i, s) \in S
  <2>1. s \in Seq(Component) /\ Len(s) >= Len(cs) /\ Len(s) \in Nat /\ Len(cs) \in Nat
    OBVIOUS
  <2>2. CASE Order[i] \in Missing(cs)
    <3> DEFINE u == Order[i]
               p == composeRequirement(cs, u).indexOfFirstDependee
               t == InsertAt(s, p, Adds(cs, u))
    <3>1. Turn(i, s) = t /\ p \in 1..Len(s) /\ Adds(cs, u) \in Component
      BY <2>1, <2>2, OneMore DEF Fresh
    <3> HIDE DEF p, u
    <3>2. t \in Seq(Component) /\ Grown(t, s, p, Adds(cs, u))
      BY <2>1, <3>1, Inserted
    <3> HIDE DEF t
    <3>3. Len(t) >= Len(cs)
      BY <2>1, <3>2 DEF Grown
    <3> QED
      BY <3>1, <3>2, <3>3
  <2>3. CASE Order[i] \notin Missing(cs)
    BY <2>3
  <2> QED
    BY <2>2, <2>3
<1>4. Closed(n, S, next)
  <2>1. ASSUME NEW i \in 1..n, NEW s \in S
        PROVE  next[<<i, s>>] \in S
    <3>1. Turn(i, s) \in S
      BY <1>3
    <3> HIDE DEF Turn, S
    <3>2. next[<<i, s>>] = Turn(i, s)
      OBVIOUS
    <3> QED
      BY <3>1, <3>2
  <2> HIDE DEF next, S, n
  <2> QED
    BY <2>1 DEF Closed
<1>5. PICK f : Turns(f, n, S, cs, next)
  <2> HIDE DEF next, S, n
  <2> QED
    BY <1>1, <1>4, Iterates
<1>6. f \in [0..n -> S] /\ f[0] = cs /\ \A i \in 1..n : f[i] = next[<<i, f[i - 1]>>]
  <2> HIDE DEF next, S, n
  <2> QED
    BY <1>5 DEF Turns
<1>7. ASSUME NEW i \in 1..n
      PROVE  f[i] = Turn(i, f[i - 1])
  <2>1. i - 1 \in 0..n
    BY <1>1
  <2>2. <<i, f[i - 1]>> \in (1..n) \X S
    <3> HIDE DEF S, n
    <3> QED
      BY <1>6, <2>1
  <2>3. next[<<i, f[i - 1]>>] = Turn(i, f[i - 1])
    <3> HIDE DEF S, n, Turn
    <3> QED
      BY <2>2
  <2> QED
    BY <1>6, <2>3
<1>8. f = Loop(f)
  <2>1. f = [i \in 0..n |-> f[i]]
    BY <1>6
  <2>2. ASSUME NEW i \in 0..n
        PROVE  f[i] = IF i = 0 THEN cs
                      ELSE IF Order[i] \in Missing(cs) THEN addComponent(f[i - 1], cs, Order[i])
                      ELSE f[i - 1]
    <3>1. CASE i = 0
      BY <1>6, <3>1
    <3>2. CASE i # 0
      <4>1. i \in 1..n
        BY <1>1, <3>2
      <4>2. f[i] = Turn(i, f[i - 1])
        BY <1>7, <4>1
      <4> QED
        BY <3>2, <4>2
    <3> QED
      BY <3>1, <3>2
  <2> QED
    BY <2>1, <2>2, Zenon
<1>9. added = Loop(added)
  BY <1>8, Zenon
<1> HIDE DEF added
<1>10. ASSUME NEW i \in 0..n
       PROVE  added[i] = IF i = 0 THEN cs ELSE Turn(i, added[i - 1])
  <2>1. added[i] = Loop(added)[i]
    BY <1>9, Zenon
  <2> QED
    BY <2>1
<1>11. added[0] = cs /\ \A i \in 1..n : added[i] = Turn(i, added[i - 1])
  BY <1>1, <1>10
<1> QED
  BY <1>2, <1>11

\* After a round's additions the list has what it had and what was missing.
LEMMA AddedTo ==
  ASSUME ComponentsAssumption, NEW cs, Listed(cs)
  PROVE  Extended(cs, Len(Order), addMissing(cs))
<1>1. cs \in Seq(Component) /\ Len(cs) \in Nat /\ Len(Order) \in Nat
  BY OrderOfUids DEF Listed
<1>2. PICK g : /\ addMissing(cs) = g[Len(Order)] /\ g[0] = cs
               /\ \A i \in 1..Len(Order) :
                    g[i] = IF Order[i] \in Missing(cs)
                           THEN addComponent(g[i - 1], cs, Order[i]) ELSE g[i - 1]
  BY <1>1, AddsInTurn
<1> DEFINE G == [i \in 0..Len(Order) |-> {s \in Seq(Component) : Extended(cs, i, s)}]
<1>3. g[0] \in G[0]
  <2>1. \A k \in DOMAIN cs : k <= k /\ Has(cs, cs[k].uid)
    BY <1>1 DEF Has
  <2>2. Extended(cs, 0, cs)
    BY <1>1, <2>1 DEF Extended, Listed
  <2> QED
    BY <1>1, <1>2, <2>2
<1>4. ASSUME NEW i \in 1..Len(Order), g[i - 1] \in G[i - 1]
      PROVE  g[i] \in G[i]
  <2> DEFINE s == g[i - 1]
  <2>1. i \in 0..Len(Order) /\ i - 1 \in 0..Len(Order) /\ \A j \in 1..(i - 1) : j \in 1..i
    BY <1>1
  <2>2. Extended(cs, i - 1, s)
    BY <1>4, <2>1
  <2> HIDE DEF s
  <2>3. Extended(cs, i, s)
    BY <2>1, <2>2 DEF Extended
  <2>4. Order[i] \in Missing(cs) => Extended(cs, i, addComponent(s, cs, Order[i]))
    BY <2>2, ExtendOne
  <2>5. g[i] = IF Order[i] \in Missing(cs) THEN addComponent(s, cs, Order[i]) ELSE s
    BY <1>2 DEF s
  <2>6. Extended(cs, i, g[i])
    BY <2>3, <2>4, <2>5
  <2> QED
    BY <2>1, <2>6 DEF Extended
<1>5. \A i \in 0..Len(Order) : g[i] \in G[i]
  <2> HIDE DEF G
  <2> QED
    BY <1>1, <1>3, <1>4, UpTo
<1> QED
  BY <1>1, <1>2, <1>5

\* The changes of versions keep every component where it is, and what is known of it.
LEMMA ChangedTo ==
  ASSUME ComponentsAssumption, Sound, NEW cs, Listed(cs),
         \A i \in DOMAIN cs : Known(cs[i], inMemory),
         \A u \in NotSame(cs) : ~IsLocked(cs[Place(cs, u)])
  PROVE  LET s == addMissing(cs)
             t == changeVersions(cs, s)
         IN /\ t \in Seq(Component) /\ DOMAIN t = DOMAIN s
            /\ \A k \in DOMAIN t : t[k].uid = s[k].uid /\ Known(t[k], inMemory)
<1> DEFINE s == addMissing(cs)
           t == changeVersions(cs, s)
           m == Len(Order)
<1>1. Extended(cs, m, s)
  BY AddedTo
<1> HIDE DEF s, m
<1>2. s \in Seq(Component) /\ cs \in Seq(Component)
  BY <1>1 DEF Extended, Listed
<1> DEFINE Entry(k) == IF s[k].uid \in NotSame(cs)
                       THEN setVersion(s[k], composeRequirement(cs, s[k].uid).equals)
                       ELSE s[k]
<1>3. t = [k \in DOMAIN s |-> Entry(k)]
  BY DEF changeVersions
<1>4. ASSUME NEW k \in DOMAIN s
      PROVE  /\ Entry(k) \in Component /\ Entry(k).uid = s[k].uid /\ Known(Entry(k), inMemory)
  <2>1. s[k] \in Component
    BY <1>2
  <2>2. Known(s[k], inMemory)
    <3>1. CASE \E j \in DOMAIN cs : s[k] = cs[j]
      BY <3>1
    <3>2. CASE Fresh(s[k])
      BY <3>2 DEF Fresh, Known
    <3> QED
      BY <1>1, <3>1, <3>2 DEF Extended
  <2>3. CASE s[k].uid \in NotSame(cs)
    <3> DEFINE u == s[k].uid
    <3>1. Has(cs, u) /\ u \in Required(cs) /\ ~IsLocked(cs[Place(cs, u)])
      BY <2>3 DEF NotSame
    <3>2. PICK j \in DOMAIN cs : s[k] = cs[j]
      BY <1>1, <3>1 DEF Extended, Missing
    <3>3. ~s[k].custom
      BY <3>1, <3>2, OnePlace DEF IsLocked
    <3>4. composeRequirement(cs, u).equals \in Version
      BY <1>2, <3>1, Composed
    <3> QED
      BY <2>1, <2>2, <2>3, <3>3, <3>4, SetTo
  <2>4. CASE s[k].uid \notin NotSame(cs)
    BY <2>1, <2>2, <2>4
  <2> QED
    BY <2>3, <2>4
<1> HIDE DEF Entry, t
<1>5. /\ DOMAIN t = DOMAIN s /\ \A k \in DOMAIN t : t[k] = Entry(k)
  BY <1>3
<1>6. t \in Seq(Component)
  <2>1. DOMAIN s = 1..Len(s) /\ Len(s) \in Nat
    BY <1>2
  <2>2. t \in [1..Len(s) -> Component]
    BY <1>3, <1>4, <2>1
  <2> QED
    BY <2>1, <2>2
<1> QED
  BY <1>4, <1>5, <1>6 DEF t, s

-----------------------------------------------------------------------------
(* The inductive invariant. *)

\* The first half of ResolvedIsLaunchable.
Complete(cs, disk) ==
  \A i \in DOMAIN cs :
    LET c == cs[i] IN
    /\ File(c) \in DOMAIN server /\ (c.custom \/ File(c) \in disk)
    /\ \A r \in Real(c).requires : Meets(cs, r)
    /\ c.dep /\ Real(c).volatile =>
         \E j \in DOMAIN cs : \E r \in Real(cs[j]).requires : r.uid = c.uid

\* A slot is for the index, or for the file of the component at its place.
Placed(cs, pending) ==
  \A s \in pending : IF s.at = 0 THEN s.entity = Index ELSE s.entity = File(cs[s.at])

\* As long as nothing has failed, what is not accurate is on its way ...
Awaited == phase = "wait" =>
  /\ netmode = "Online"
  /\ remoteOk => \A i \in DOMAIN components :
                   Accurate(components[i], onDisk) \/ \E s \in slots : s.at = i

\* ... and has arrived when the requirements are gathered.
Examined == phase = "resolve" => \A i \in DOMAIN components : Accurate(components[i], onDisk)

KnownAll == \A i \in DOMAIN components : Known(components[i], inMemory)

IInv == /\ TypeOK /\ KnownAll /\ Placed(components, slots) /\ Awaited /\ Examined
        /\ ResolvedIsLaunchable

\* What the type says of the list and of the files.
LEMMA OfTheInvariant ==
  ASSUME TypeOK
  PROVE  /\ Sound /\ Listed(components) /\ (phase # "wait" => slots = {})
         /\ Len(components) \in Nat /\ DOMAIN components = 1..Len(components)
         /\ \A i \in DOMAIN components : components[i] \in Component
BY DEF TypeOK, Sound, Listed

\* ResolvedIsLaunchable in terms of Complete, before a step ...
LEMMA LaunchableIs ==
  ResolvedIsLaunchable
    <=> (resolved => /\ Complete(components, onDisk)
                     /\ ~(netmode = "Offline" /\ outcome = "failed"))
BY DEF ResolvedIsLaunchable, Complete

\* ... and after it.
LEMMA LaunchableNext ==
  ResolvedIsLaunchable'
    <=> (resolved' => /\ Complete(components, onDisk)'
                      /\ ~(netmode' = "Offline" /\ outcome' = "failed"))
BY DEF ResolvedIsLaunchable, Complete

\* A list of which the components are changed where they are.
LEMMA InPlace ==
  ASSUME NEW cs, Listed(cs), NEW ds, ds = [i \in DOMAIN cs |-> ds[i]],
         \A i \in DOMAIN cs : ds[i] \in Component /\ ds[i].uid = cs[i].uid
  PROVE  Listed(ds) /\ DOMAIN ds = DOMAIN cs /\ Len(ds) = Len(cs)
<1>1. DOMAIN cs = 1..Len(cs) /\ Len(cs) \in Nat
  BY DEF Listed
<1>2. ds \in [1..Len(cs) -> Component]
  BY <1>1
<1>3. ds \in Seq(Component) /\ DOMAIN ds = DOMAIN cs /\ Len(ds) = Len(cs)
  BY <1>1, <1>2
<1> QED
  BY <1>3 DEF Listed

\* A complete list stays complete when only what is cached changes, and files are added.
LEMMA CompleteKept ==
  ASSUME NEW cs, NEW ds, DOMAIN ds = DOMAIN cs, \A i \in DOMAIN cs : Same(cs[i], ds[i]),
         NEW disk, NEW disk2, disk \subseteq disk2, Complete(cs, disk)
  PROVE  Complete(ds, disk2)
<1>1. \A i \in DOMAIN cs : File(ds[i]) = File(cs[i]) /\ Real(ds[i]) = Real(cs[i])
  BY SameFile DEF Real
<1>2. \A i \in DOMAIN cs : /\ ds[i].uid = cs[i].uid /\ ds[i].version = cs[i].version
                           /\ ds[i].dep = cs[i].dep /\ ds[i].custom = cs[i].custom
  BY DEF Same
<1>3. ASSUME NEW r, Meets(cs, r)
      PROVE  Meets(ds, r)
  BY <1>2, <1>3 DEF Meets
<1>4. ASSUME NEW i \in DOMAIN cs
      PROVE  /\ File(ds[i]) \in DOMAIN server /\ (ds[i].custom \/ File(ds[i]) \in disk2)
             /\ \A r \in Real(ds[i]).requires : Meets(ds, r)
             /\ ds[i].dep /\ Real(ds[i]).volatile =>
                  \E j \in DOMAIN ds : \E r \in Real(ds[j]).requires : r.uid = ds[i].uid
  <2>1. /\ File(cs[i]) \in DOMAIN server /\ (cs[i].custom \/ File(cs[i]) \in disk)
        /\ \A r \in Real(cs[i]).requires : Meets(cs, r)
        /\ cs[i].dep /\ Real(cs[i]).volatile =>
             \E j \in DOMAIN cs : \E r \in Real(cs[j]).requires : r.uid = cs[i].uid
    BY DEF Complete
  <2>2. File(ds[i]) \in DOMAIN server /\ (ds[i].custom \/ File(ds[i]) \in disk2)
    BY <1>1, <1>2, <2>1
  <2>3. \A r \in Real(ds[i]).requires : Meets(ds, r)
    BY <1>1, <1>3, <2>1
  <2>4. ASSUME ds[i].dep, Real(ds[i]).volatile
        PROVE  \E j \in DOMAIN ds : \E r \in Real(ds[j]).requires : r.uid = ds[i].uid
    <3>1. PICK j \in DOMAIN cs : \E r \in Real(cs[j]).requires : r.uid = cs[i].uid
      BY <1>1, <1>2, <2>1, <2>4
    <3> QED
      BY <1>1, <1>2, <3>1
  <2> QED
    BY <2>2, <2>3, <2>4
<1> QED
  BY <1>4 DEF Complete

\* When everything is accurate, a complete list is one that the resolution leaves alone.
LEMMA NothingToDo ==
  ASSUME NEW cs, Listed(cs), NEW disk, Complete(cs, disk), \A i \in DOMAIN cs : Accurate(cs[i], disk)
  PROVE  /\ ~Conflicting(cs) /\ getTrivialRemovals(cs) = {}
         /\ NotSame(cs) = {} /\ Missing(cs) = {}
<1>1. ASSUME NEW r \in AllRequires(cs)
      PROVE  \E j \in DOMAIN cs : /\ cs[j].uid = r.uid /\ cs[j].cached = cs[j].version
                                  /\ r.equals \in {NoVersion, cs[j].version}
  <2>1. PICK i \in DOMAIN cs : r \in cs[i].requires
    BY DEF AllRequires
  <2>2. r \in Real(cs[i]).requires
    BY <2>1 DEF Accurate
  <2>3. Meets(cs, r)
    BY <2>2 DEF Complete
  <2> QED
    BY <2>3 DEF Meets, Accurate
<1>2. Missing(cs) = {}
  BY <1>1 DEF Missing, Required, Has
<1>3. ASSUME NEW u \in Required(cs)
      PROVE  /\ Exact(cs, u) \subseteq {cs[Place(cs, u)].version}
             /\ cs[Place(cs, u)].cached = cs[Place(cs, u)].version
  <2>1. Has(cs, u)
    BY <1>2 DEF Missing
  <2>2. Place(cs, u) \in DOMAIN cs
    BY <2>1, PlaceOf
  <2>3. ASSUME NEW v \in Exact(cs, u)
        PROVE  v = cs[Place(cs, u)].version
    <3>1. PICK r \in AllRequires(cs) : r.uid = u /\ r.equals = v /\ v # NoVersion
      BY DEF Exact
    <3>2. PICK j \in DOMAIN cs : cs[j].uid = u /\ v = cs[j].version
      BY <1>1, <3>1
    <3>3. Place(cs, u) = j
      BY <3>2, OnePlace
    <3> QED
      BY <3>2, <3>3
  <2>4. cs[Place(cs, u)].cached = cs[Place(cs, u)].version
    BY <2>2 DEF Accurate
  <2> QED
    BY <2>3, <2>4
<1>4. NotSame(cs) = {}
  BY <1>3 DEF NotSame
<1>5. ~Conflicting(cs)
  <2>1. ASSUME NEW u \in Required(cs)
        PROVE  ~(Cardinality(Exact(cs, u)) > 1)
    <3> DEFINE x == cs[Place(cs, u)].version
               E == Exact(cs, u)
    <3>1. E \subseteq {x}
      BY <1>3
    <3> HIDE DEF x, E
    <3>2. IsFiniteSet({x}) /\ Cardinality({x}) = 1
      BY FS_Singleton
    <3>3. IsFiniteSet(E) /\ Cardinality(E) <= 1
      BY <3>1, <3>2, FS_Subset
    <3>4. Cardinality(E) \in Nat
      BY <3>3, FS_CardinalityType
    <3>5. ~(Cardinality(E) > 1)
      BY <3>3, <3>4
    <3> QED
      BY <3>5 DEF E
  <2> QED
    BY <2>1 DEF Conflicting
<1>6. getTrivialRemovals(cs) = {}
  <2>1. ASSUME NEW i \in DOMAIN cs, cs[i].dep, cs[i].volatile
        PROVE  cs[i].uid \in Required(cs)
    <3>1. PICK j \in DOMAIN cs : \E r \in Real(cs[j]).requires : r.uid = cs[i].uid
      BY <2>1 DEF Complete, Accurate
    <3>2. \E r \in cs[j].requires : r.uid = cs[i].uid
      BY <3>1 DEF Accurate
    <3> QED
      BY <3>2 DEF Required, AllRequires
  <2> QED
    BY <2>1 DEF getTrivialRemovals
<1> QED
  BY <1>2, <1>4, <1>5, <1>6

\* What the resolution leaves alone is complete.
LEMMA ThenComplete ==
  ASSUME NEW cs, NEW disk, \A i \in DOMAIN cs : Accurate(cs[i], disk),
         getTrivialRemovals(cs) = {}, NotSame(cs) = {}, Missing(cs) = {}
  PROVE  Complete(cs, disk)
<1>1. ASSUME NEW i \in DOMAIN cs, NEW r \in Real(cs[i]).requires
      PROVE  Meets(cs, r)
  <2>1. r \in AllRequires(cs)
    BY DEF Accurate, AllRequires
  <2>2. r.uid \in Required(cs)
    BY <2>1 DEF Required
  <2>3. Has(cs, r.uid)
    BY <2>2 DEF Missing
  <2> DEFINE p == Place(cs, r.uid)
  <2>4. p \in DOMAIN cs /\ cs[p].uid = r.uid
    BY <2>3, PlaceOf
  <2>5. ASSUME r.equals # NoVersion
        PROVE  r.equals = cs[p].version
    <3>1. r.equals \in Exact(cs, r.uid)
      BY <2>1, <2>5 DEF Exact
    <3>2. cs[p].cached = r.equals
      BY <2>2, <2>3, <3>1 DEF NotSame
    <3> QED
      BY <2>4, <3>2 DEF Accurate
  <2> QED
    BY <2>4, <2>5 DEF Meets
<1>2. ASSUME NEW i \in DOMAIN cs, cs[i].dep, Real(cs[i]).volatile
      PROVE  \E j \in DOMAIN cs : \E r \in Real(cs[j]).requires : r.uid = cs[i].uid
  <2>1. cs[i].uid \in Required(cs)
    BY <1>2 DEF Accurate, getTrivialRemovals
  <2>2. PICK j \in DOMAIN cs : \E r \in cs[j].requires : r.uid = cs[i].uid
    BY <2>1 DEF Required, AllRequires
  <2> QED
    BY <2>2 DEF Accurate
<1>3. \A i \in DOMAIN cs : File(cs[i]) \in DOMAIN server /\ (cs[i].custom \/ File(cs[i]) \in disk)
  BY DEF Accurate
<1> QED
  BY <1>1, <1>2, <1>3 DEF Complete

-----------------------------------------------------------------------------
(* Every step keeps the invariant. *)

\* What is accurate stays so when there are more files.
LEMMA AccurateMore ==
  ASSUME NEW c, NEW disk, NEW disk2, disk \subseteq disk2, Accurate(c, disk)
  PROVE  Accurate(c, disk2)
BY DEF Accurate

\* A new instance, with nothing but what the user has chosen.
LEMMA ComponentsInitInv ==
  ASSUME ComponentsAssumption, Init
  PROVE  IInv
<1>1. PICK e \in DOMAIN server :
        e[1] = Minecraft /\ components = <<NewComponent(Minecraft, e[2], FALSE)>>
  BY DEF Init
<1> DEFINE c == NewComponent(Minecraft, e[2], FALSE)
<1>2. e[2] \in Version /\ Minecraft \in Uid /\ server \in Metadata /\ MaxEdits \in Nat
  BY DEF ComponentsAssumption, Init, Version
<1>3. Fresh(c) /\ FALSE \in BOOLEAN
  BY <1>2, NewIsFresh
<1> HIDE DEF c
<1>4. c \in Component /\ ~c.custom /\ ~c.loaded
  BY <1>3 DEF Fresh
<1>5. components = <<c>>
  BY <1>1 DEF c
<1>6. components \in Seq(Component) /\ Len(components) = 1 /\ components[1] = c
      /\ DOMAIN components = {1}
  BY <1>4, <1>5
<1>7. \A i, j \in DOMAIN components : i # j => components[i].uid # components[j].uid
  BY <1>6
<1>8. TypeOK
  <2>1. /\ inMemory \subseteq onDisk /\ onDisk \subseteq {Index} \cup DOMAIN server
        /\ slots \subseteq [entity : Entity, at : 0..Len(components)]
        /\ phase \in {"idle", "load", "wait", "resolve"} /\ netmode \in {"Online", "Offline"}
        /\ outcome \in {"none", "succeeded", "failed"} /\ edits \in 0..MaxEdits
    BY <1>2 DEF Init
  <2>2. (phase = "wait" <=> slots # {}) /\ remoteOk \in BOOLEAN /\ resolved \in BOOLEAN
    BY DEF Init
  <2> QED
    BY <1>2, <1>6, <1>7, <2>1, <2>2 DEF TypeOK
<1>9. KnownAll
  BY <1>4, <1>6 DEF KnownAll, Known
<1>10. Placed(components, slots) /\ Awaited /\ Examined /\ ResolvedIsLaunchable
  BY DEF Init, Placed, Awaited, Examined, ResolvedIsLaunchable
<1> QED
  BY <1>8, <1>9, <1>10 DEF IInv

\* loadComponents(): all that is not accurate afterwards is waited for.
LEMMA LoadComponentsInv ==
  ASSUME ComponentsAssumption, IInv, loadComponents
  PROVE  IInv'
<1>1. /\ Sound /\ Listed(components) /\ slots = {} /\ TypeOK /\ KnownAll
      /\ Len(components) \in Nat /\ DOMAIN components = 1..Len(components)
      /\ \A i \in DOMAIN components : components[i] \in Component
  BY OfTheInvariant DEF IInv, loadComponents
<1> DEFINE cs == components
           more == ({Index} \cup {File(cs[i]) : i \in Wanted}) \cap onDisk
           remote == {[entity |-> File(cs[i]), at |-> i] : i \in Wanted}
                     \cup {[entity |-> e, at |-> 0] : e \in {Index} \ inMemory}
<1>2. /\ phase = "load" /\ inMemory' = inMemory \cup more /\ remoteOk' = TRUE
      /\ UNCHANGED <<server, onDisk, netmode, edits>>
  BY DEF loadComponents
<1>3. components' = [i \in DOMAIN cs |-> afterLoad(cs[i])]
  BY DEF loadComponents
<1>4. \A i \in DOMAIN cs : /\ components'[i] \in Component /\ Same(cs[i], components'[i])
                           /\ Known(components'[i], inMemory)
                           /\ IsLoaded(cs[i]) \/ (netmode = "Offline" /\ Loadable(cs[i]))
                                => Accurate(components'[i], onDisk)
  <2> SUFFICES ASSUME NEW i \in DOMAIN cs
               PROVE  /\ components'[i] \in Component /\ Same(cs[i], components'[i])
                      /\ Known(components'[i], inMemory)
                      /\ IsLoaded(cs[i]) \/ (netmode = "Offline" /\ Loadable(cs[i]))
                           => Accurate(components'[i], onDisk)
    OBVIOUS
  <2>1. cs[i] \in Component /\ Known(cs[i], inMemory)
    BY <1>1 DEF KnownAll
  <2>2. components'[i] = afterLoad(cs[i])
    BY <1>3
  <2> QED
    BY <1>1, <2>1, <2>2, AfterLoad
<1>5. /\ Listed(components') /\ DOMAIN components' = DOMAIN cs /\ Len(components') = Len(cs)
  <2>1. components' = [i \in DOMAIN cs |-> components'[i]]
    BY <1>3
  <2> QED
    BY <1>1, <1>4, <2>1, InPlace DEF Same
<1>6. inMemory' \subseteq onDisk' /\ onDisk' \subseteq {Index} \cup DOMAIN server'
  BY <1>1, <1>2 DEF Sound
<1>7. KnownAll'
  <2> SUFFICES ASSUME NEW i \in DOMAIN components'
               PROVE  Known(components[i], inMemory)'
    BY DEF KnownAll
  <2>1. Known(components'[i], inMemory)
    BY <1>4, <1>5
  <2> QED
    BY <1>2, <2>1 DEF Known, File
<1>8. \A i \in DOMAIN cs : File(components'[i]) = File(cs[i])
  BY <1>4, SameFile
<1>9. ASSUME resolved
      PROVE  /\ Complete(components', onDisk)
             /\ ~(netmode = "Offline" /\ outcome = "failed")
             /\ \A i \in Wanted : Loadable(cs[i])
  <2>1. Complete(cs, onDisk) /\ ~(netmode = "Offline" /\ outcome = "failed")
    BY <1>9, LaunchableIs DEF IInv
  <2>2. Complete(components', onDisk)
    BY <1>4, <1>5, <2>1, CompleteKept
  <2>3. \A i \in DOMAIN cs : Loadable(cs[i])
    BY <2>1 DEF Complete, Loadable, IsLoaded
  <2> QED
    BY <2>1, <2>2, <2>3 DEF Wanted
<1>10. Complete(components', onDisk) => Complete(components, onDisk)'
  BY <1>2 DEF Complete, Real, Meets, File
<1>11. \A i \in DOMAIN cs : Accurate(components'[i], onDisk) => Accurate(components[i], onDisk)'
  BY <1>2 DEF Accurate, Real, File
<1>12. /\ server' \in Metadata /\ components' \in Seq(Component) /\ remoteOk' \in BOOLEAN
       /\ netmode' \in {"Online", "Offline"} /\ edits' \in 0..MaxEdits
       /\ \A i, j \in DOMAIN components' : i # j => components'[i].uid # components'[j].uid
  BY <1>1, <1>2, <1>5 DEF TypeOK, Listed
<1>13. CASE netmode = "Offline" /\ \A i \in Wanted : Loadable(cs[i])
  <2>1. phase' = "resolve" /\ UNCHANGED <<slots, outcome, resolved>>
    BY <1>13 DEF loadComponents
  <2>2. TypeOK'
    BY <1>1, <1>6, <1>12, <2>1 DEF TypeOK
  <2>3. \A i \in DOMAIN components' : Accurate(components[i], onDisk)'
    BY <1>4, <1>5, <1>11, <1>13 DEF Wanted
  <2>4. Examined' /\ Awaited' /\ Placed(components, slots)'
    BY <1>1, <2>1, <2>3 DEF Examined, Awaited, Placed
  <2>5. ResolvedIsLaunchable'
    BY <1>2, <1>9, <1>10, <2>1, LaunchableNext
  <2> QED
    BY <1>7, <2>2, <2>4, <2>5 DEF IInv
<1>14. CASE netmode = "Offline" /\ ~\A i \in Wanted : Loadable(cs[i])
  <2>1. emitEnd("failed")
    BY <1>14 DEF loadComponents
  <2>2. phase' = "idle" /\ slots' = {} /\ outcome' = "failed" /\ resolved' = FALSE
    BY <1>1, <1>9, <1>14, <2>1 DEF emitEnd, TypeOK
  <2>3. TypeOK'
    BY <1>6, <1>12, <2>2 DEF TypeOK
  <2>4. Examined' /\ Awaited' /\ Placed(components, slots)' /\ ResolvedIsLaunchable'
    BY <2>2 DEF Examined, Awaited, Placed, ResolvedIsLaunchable
  <2> QED
    BY <1>7, <2>3, <2>4 DEF IInv
<1>15. CASE netmode # "Offline"
  <2>1. /\ slots' = remote /\ phase' = IF remote = {} THEN "resolve" ELSE "wait"
        /\ UNCHANGED <<outcome, resolved>>
    BY <1>15 DEF loadComponents
  <2>2. ASSUME NEW i \in Wanted
        PROVE  [entity |-> File(cs[i]), at |-> i] \in [entity : Entity, at : 0..Len(components')]
    <3>1. i \in DOMAIN cs /\ cs[i] \in Component
      BY <1>1 DEF Wanted
    <3>2. File(cs[i]) \in Entity
      BY <3>1 DEF File, Entity, Component
    <3> QED
      BY <1>1, <1>5, <3>1, <3>2
  <2>3. [entity |-> Index, at |-> 0] \in [entity : Entity, at : 0..Len(components')]
    BY <1>1, <1>5 DEF Entity
  <2>4. ASSUME NEW s \in remote
        PROVE  /\ s \in [entity : Entity, at : 0..Len(components')]
               /\ IF s.at = 0 THEN s.entity = Index ELSE s.entity = File(components'[s.at])
    <3>1. CASE \E i \in Wanted : s = [entity |-> File(cs[i]), at |-> i]
      <4>1. PICK i \in Wanted : s = [entity |-> File(cs[i]), at |-> i]
        BY <3>1
      <4>2. i \in DOMAIN cs /\ i # 0
        BY <1>1 DEF Wanted
      <4>3. s.at = i /\ s.entity = File(cs[i])
        BY <4>1
      <4> QED
        BY <1>8, <2>2, <4>1, <4>2, <4>3
    <3>2. CASE s = [entity |-> Index, at |-> 0]
      BY <2>3, <3>2
    <3> QED
      BY <3>1, <3>2
  <2>5. ASSUME NEW i \in DOMAIN cs
        PROVE  Accurate(components'[i], onDisk) \/ \E s \in remote : s.at = i
    <3>1. CASE IsLoaded(cs[i])
      BY <1>4, <3>1
    <3>2. CASE ~IsLoaded(cs[i])
      <4>1. i \in Wanted
        BY <3>2 DEF Wanted
      <4> DEFINE s == [entity |-> File(cs[i]), at |-> i]
      <4>2. s \in remote /\ s.at = i
        BY <4>1
      <4> QED
        BY <4>2
    <3> QED
      BY <3>1, <3>2
  <2> HIDE DEF remote
  <2>6. phase' = "wait" <=> slots' # {}
    BY <2>1
  <2>7. slots' \subseteq [entity : Entity, at : 0..Len(components')] /\ Placed(components', slots')
    BY <2>1, <2>4 DEF Placed
  <2>8. TypeOK'
    BY <1>1, <1>6, <1>12, <2>1, <2>6, <2>7 DEF TypeOK
  <2>9. netmode' = "Online"
    BY <1>1, <1>2, <1>15 DEF TypeOK
  <2>10. Awaited' /\ Examined'
    BY <1>5, <1>11, <2>1, <2>5, <2>9 DEF Awaited, Examined
  <2>11. Placed(components, slots)'
    BY <2>7 DEF Placed, File
  <2>12. ResolvedIsLaunchable'
    BY <1>2, <1>9, <1>10, <2>1, LaunchableNext
  <2> QED
    BY <1>7, <2>8, <2>10, <2>11, <2>12 DEF IInv
<1> QED
  BY <1>13, <1>14, <1>15

\* One that was waited for has been answered, or has failed.
LEMMA FinishedInv ==
  ASSUME ComponentsAssumption, IInv, NEW s \in slots, slots' = slots \ {s}, NEW ok \in BOOLEAN,
         checkIfAllFinished(ok), UNCHANGED <<server, netmode, edits>>,
         remoteOk' = (remoteOk /\ ok),
         ok => remoteOk,
         Listed(components'), DOMAIN components' = DOMAIN components,
         Len(components') = Len(components),
         \A i \in DOMAIN components : Same(components[i], components'[i]),
         \A i \in DOMAIN components : Accurate(components[i], onDisk) => Accurate(components'[i], onDisk'),
         ok /\ s.at # 0 => Accurate(components'[s.at], onDisk'),
         onDisk \subseteq onDisk', inMemory' \subseteq onDisk',
         onDisk' \subseteq {Index} \cup DOMAIN server, KnownAll'
  PROVE  IInv'
<1>1. /\ Sound /\ Listed(components) /\ TypeOK /\ phase = "wait" /\ netmode = "Online"
      /\ Len(components) \in Nat /\ DOMAIN components = 1..Len(components)
      /\ slots \subseteq [entity : Entity, at : 0..Len(components)]
  BY OfTheInvariant DEF IInv, Awaited, TypeOK
<1>2. \A i \in DOMAIN components : File(components'[i]) = File(components[i])
  BY SameFile
<1>3. Placed(components', slots')
  <2> SUFFICES ASSUME NEW t \in slots'
               PROVE  IF t.at = 0 THEN t.entity = Index ELSE t.entity = File(components'[t.at])
    BY DEF Placed
  <2>1. t \in slots /\ t.at \in 0..Len(components)
    BY <1>1
  <2>2. t.at = 0 => t.entity = Index
    BY <2>1 DEF IInv, Placed
  <2>3. ASSUME t.at # 0
        PROVE  t.entity = File(components'[t.at])
    <3>1. t.at \in DOMAIN components
      BY <1>1, <2>1, <2>3
    <3>2. t.entity = File(components[t.at])
      BY <2>1, <2>3 DEF IInv, Placed
    <3> QED
      BY <1>2, <3>1, <3>2
  <2> QED
    BY <2>2, <2>3
<1>4. Placed(components, slots)'
  BY <1>3 DEF Placed, File
<1>5. \A i \in DOMAIN components : Accurate(components'[i], onDisk') => Accurate(components[i], onDisk)'
  BY DEF Accurate, Real, File
<1>6. ASSUME ok, NEW i \in DOMAIN components
      PROVE  Accurate(components[i], onDisk)' \/ \E t \in slots' : t.at = i
  <2>1. i # 0
    BY <1>1
  <2>2. CASE Accurate(components[i], onDisk)
    BY <1>5, <2>2
  <2>3. CASE \E t \in slots : t.at = i
    <3>1. PICK t \in slots : t.at = i
      BY <2>3
    <3>2. CASE t = s
      BY <1>5, <1>6, <2>1, <3>1, <3>2
    <3>3. CASE t # s
      BY <3>1, <3>3
    <3> QED
      BY <3>2, <3>3
  <2> QED
    BY <1>1, <1>6, <2>2, <2>3 DEF IInv, Awaited
<1>7. resolved => Complete(components', onDisk')
  <2>1. resolved => Complete(components, onDisk)
    BY LaunchableIs DEF IInv
  <2> QED
    BY <2>1, CompleteKept
<1>8. Complete(components', onDisk') => Complete(components, onDisk)'
  BY DEF Complete, Real, Meets, File
<1>9. (phase' = "wait" <=> slots' # {}) /\ phase' \in {"idle", "load", "wait", "resolve"}
  BY <1>1 DEF checkIfAllFinished, emitEnd
<1>10. resolved' = resolved /\ outcome' \in {"none", "succeeded", "failed"}
  BY <1>1 DEF checkIfAllFinished, emitEnd, TypeOK
<1>11. TypeOK'
  <2>1. /\ server' \in Metadata /\ netmode' \in {"Online", "Offline"} /\ edits' \in 0..MaxEdits
        /\ remoteOk' \in BOOLEAN /\ resolved' \in BOOLEAN
    BY <1>1, <1>10 DEF TypeOK
  <2>2. /\ components' \in Seq(Component)
        /\ \A i, j \in DOMAIN components' : i # j => components'[i].uid # components'[j].uid
    BY DEF Listed
  <2>3. slots' \subseteq [entity : Entity, at : 0..Len(components')]
    BY <1>1
  <2> QED
    BY <1>9, <1>10, <2>1, <2>2, <2>3 DEF TypeOK
<1>12. Awaited'
  <2>1. netmode' = "Online" /\ (remoteOk' => ok)
    BY <1>1
  <2> QED
    BY <1>6, <2>1 DEF Awaited
<1>13. Examined'
  <2>1. phase' = "resolve" => slots' = {} /\ ok
    BY <1>1 DEF checkIfAllFinished, emitEnd
  <2> QED
    BY <1>6, <2>1 DEF Examined
<1>14. ResolvedIsLaunchable'
  <2>1. netmode' # "Offline"
    BY <1>1
  <2> QED
    BY <1>7, <1>8, <1>10, <2>1, LaunchableNext
<1> QED
  BY <1>4, <1>11, <1>12, <1>13, <1>14 DEF IInv

\* A download that has failed.
LEMMA RemoteFailedInv ==
  ASSUME ComponentsAssumption, IInv, NEW s \in slots, remoteLoadFailed(s)
  PROVE  IInv'
<1>1. /\ slots' = slots \ {s} /\ remoteOk' = FALSE /\ checkIfAllFinished(FALSE)
      /\ UNCHANGED <<server, components, inMemory, onDisk, netmode, edits>>
  BY DEF remoteLoadFailed
<1>2. Sound /\ Listed(components)
  BY OfTheInvariant DEF IInv
<1>3. Listed(components') /\ KnownAll'
  BY <1>1, <1>2 DEF IInv, KnownAll, Known, File
<1>4. inMemory' \subseteq onDisk' /\ onDisk' \subseteq {Index} \cup DOMAIN server /\ onDisk \subseteq onDisk'
  BY <1>1, <1>2 DEF Sound
<1>5. \A i \in DOMAIN components : Same(components[i], components'[i])
  BY <1>1 DEF Same
<1>6. \A i \in DOMAIN components : Accurate(components[i], onDisk) => Accurate(components'[i], onDisk')
  BY <1>1
<1>7. DOMAIN components' = DOMAIN components /\ Len(components') = Len(components)
  BY <1>1
<1>8. remoteOk' = (remoteOk /\ FALSE) /\ FALSE \in BOOLEAN
  BY <1>1
<1> QED
  BY <1>1, <1>3, <1>4, <1>5, <1>6, <1>7, <1>8, FinishedInv

\* A download that has come back.
LEMMA RemoteSucceededInv ==
  ASSUME ComponentsAssumption, IInv, NEW s \in slots, remoteLoadSucceeded(s)
  PROVE  IInv'
<1> DEFINE cs == components
           c == [cs[s.at] EXCEPT !.loaded = TRUE]
           d == updateCachedData(c)
<1>1. /\ s.entity \in {Index} \cup DOMAIN server
      /\ inMemory' = inMemory \cup {s.entity} /\ onDisk' = onDisk \cup {s.entity}
      /\ slots' = slots \ {s} /\ checkIfAllFinished(remoteOk)
      /\ UNCHANGED <<server, netmode, remoteOk, edits>>
  BY DEF remoteLoadSucceeded
<1>2. /\ Sound /\ Listed(cs) /\ TypeOK /\ KnownAll
      /\ Len(cs) \in Nat /\ DOMAIN cs = 1..Len(cs) /\ cs \in Seq(Component)
      /\ s.at \in 0..Len(cs) /\ (s.at = 0 => s.entity = Index)
      /\ (s.at # 0 => s.entity = File(cs[s.at]))
  BY OfTheInvariant DEF IInv, Placed, TypeOK
<1>3. /\ inMemory' \subseteq onDisk' /\ onDisk' \subseteq {Index} \cup DOMAIN server
      /\ onDisk \subseteq onDisk' /\ inMemory \subseteq inMemory'
  BY <1>1, <1>2 DEF Sound
<1>4. ASSUME s.at # 0
      PROVE  /\ components' = [cs EXCEPT ![s.at] = d] /\ s.at \in DOMAIN cs
             /\ d \in Component /\ Same(cs[s.at], d) /\ Known(d, inMemory') /\ Accurate(d, onDisk')
  <2>1. s.at \in DOMAIN cs /\ cs[s.at] \in Component
    BY <1>2, <1>4
  <2>2. c \in Component /\ Same(cs[s.at], c) /\ c.loaded = TRUE
    BY <2>1, Marked
  <2>3. File(c) = s.entity /\ File(c) \in inMemory' /\ File(c) \in onDisk'
    BY <1>1, <1>2, <1>4, <2>2, SameFile
  <2>4. File(c) # Index
    BY DEF File, Index
  <2>5. File(c) \in DOMAIN server
    BY <1>1, <2>3, <2>4
  <2>6. components' = [cs EXCEPT ![s.at] = d]
    BY <1>4, <2>3 DEF remoteLoadSucceeded
  <2> HIDE DEF c
  <2>7. /\ d \in Component /\ Same(c, d) /\ d.requires = Real(d).requires
        /\ d.volatile = Real(d).volatile /\ d.cached = d.version
    BY <1>2, <2>2, <2>5, Updated
  <2> HIDE DEF d
  <2>8. File(d) = File(c) /\ Same(cs[s.at], d)
    BY <2>2, <2>7, SameFile DEF Same
  <2>9. Known(d, inMemory') /\ Accurate(d, onDisk')
    BY <2>3, <2>5, <2>7, <2>8 DEF Known, Accurate
  <2> QED
    BY <2>1, <2>6, <2>7, <2>8, <2>9
<1>5. s.at = 0 => components' = cs
  BY DEF remoteLoadSucceeded
<1> HIDE DEF d
<1>6. ASSUME NEW i \in DOMAIN cs
      PROVE  /\ components'[i] \in Component /\ Same(cs[i], components'[i])
             /\ Known(components'[i], inMemory')
             /\ Accurate(cs[i], onDisk) => Accurate(components'[i], onDisk')
             /\ i = s.at => Accurate(components'[i], onDisk')
  <2>1. cs[i] \in Component /\ Known(cs[i], inMemory)
    BY <1>2 DEF KnownAll
  <2>2. Known(cs[i], inMemory')
    BY <1>3, <2>1 DEF Known
  <2>3. Accurate(cs[i], onDisk) => Accurate(cs[i], onDisk')
    BY <1>3, AccurateMore
  <2>4. CASE s.at # 0 /\ i = s.at
    BY <1>4, <2>4
  <2>5. CASE ~(s.at # 0 /\ i = s.at)
    <3>1. components'[i] = cs[i] /\ i # s.at
      BY <1>2, <1>4, <1>5, <2>5
    <3> QED
      BY <2>1, <2>2, <2>3, <3>1 DEF Same
  <2> QED
    BY <2>4, <2>5
<1>7. Listed(components') /\ DOMAIN components' = DOMAIN cs /\ Len(components') = Len(cs)
  <2>1. components' = [i \in DOMAIN cs |-> components'[i]]
    <3>1. CASE s.at = 0
      BY <1>2, <1>5, <3>1
    <3>2. CASE s.at # 0
      BY <1>4, <3>2
    <3> QED
      BY <3>1, <3>2
  <2> QED
    BY <1>2, <1>6, <2>1, InPlace DEF Same
<1>8. KnownAll'
  BY <1>1, <1>6, <1>7 DEF KnownAll, Known, File
<1>9. s.at # 0 => Accurate(components'[s.at], onDisk')
  BY <1>4, <1>6
<1>10. remoteOk' = (remoteOk /\ remoteOk) /\ remoteOk \in BOOLEAN
  BY <1>1, <1>2 DEF TypeOK
<1> QED
  BY <1>1, <1>3, <1>6, <1>7, <1>8, <1>9, <1>10, FinishedInv

\* When nothing is waited for, a step may change the list and where the task is.
LEMMA NoWaitInv ==
  ASSUME IInv, phase # "wait", phase' \in {"idle", "load", "resolve"},
         UNCHANGED <<server, onDisk, slots, remoteOk>>,
         inMemory' \subseteq onDisk, netmode' \in {"Online", "Offline"}, edits' \in 0..MaxEdits,
         outcome' \in {"none", "succeeded", "failed"}, resolved' \in BOOLEAN,
         Listed(components'), \A i \in DOMAIN components' : Known(components'[i], inMemory'),
         phase' = "resolve" =>
           \A i \in DOMAIN components' : Accurate(components'[i], onDisk),
         resolved' => /\ Complete(components', onDisk)
                      /\ ~(netmode' = "Offline" /\ outcome' = "failed")
  PROVE  IInv'
<1>1. TypeOK /\ slots = {} /\ slots' = {}
  BY OfTheInvariant DEF IInv
<1>2. TypeOK'
  <2>1. /\ server' \in Metadata /\ netmode' \in {"Online", "Offline"} /\ edits' \in 0..MaxEdits
        /\ inMemory' \subseteq onDisk' /\ onDisk' \subseteq {Index} \cup DOMAIN server'
        /\ remoteOk' \in BOOLEAN /\ phase' \in {"idle", "load", "wait", "resolve"}
        /\ slots' \subseteq [entity : Entity, at : 0..Len(components')]
    BY <1>1 DEF TypeOK
  <2>2. /\ components' \in Seq(Component)
        /\ \A i, j \in DOMAIN components' : i # j => components'[i].uid # components'[j].uid
    BY DEF Listed
  <2>3. phase' = "wait" <=> slots' # {}
    BY <1>1
  <2> QED
    BY <2>1, <2>2, <2>3 DEF TypeOK
<1>3. KnownAll'
  BY DEF KnownAll, Known, File
<1>4. Placed(components, slots)' /\ Awaited'
  BY <1>1 DEF Placed, Awaited
<1>5. Examined'
  <2>1. \A i \in DOMAIN components' : Accurate(components'[i], onDisk) => Accurate(components[i], onDisk)'
    BY DEF Accurate, Real, File
  <2> QED
    BY <2>1 DEF Examined
<1>6. ResolvedIsLaunchable'
  <2>1. Complete(components', onDisk) => Complete(components, onDisk)'
    BY DEF Complete, Real, Meets, File
  <2> QED
    BY <2>1, LaunchableNext
<1> QED
  BY <1>2, <1>3, <1>4, <1>5, <1>6 DEF IInv

\* A round of resolveDependencies(), whichever way it ends.
LEMMA ResolveInv ==
  ASSUME ComponentsAssumption, IInv, resolveDependencies
  PROVE  IInv'
<1> DEFINE cs == components
           obsolete == getTrivialRemovals(cs)
           left == removeAll(cs, obsolete)
           s == addMissing(cs)
           t == changeVersions(cs, s)
           n == Len(Order)
<1>1. /\ phase = "resolve" /\ phase # "wait"
      /\ UNCHANGED <<server, inMemory, onDisk, netmode, remoteOk, edits>>
  BY DEF resolveDependencies
<1>0. /\ inMemory' \subseteq onDisk /\ netmode' \in {"Online", "Offline"}
      /\ edits' \in 0..MaxEdits
  BY <1>1 DEF IInv, TypeOK
<1>2. /\ Sound /\ Listed(cs) /\ TypeOK /\ slots = {} /\ KnownAll
      /\ \A i \in DOMAIN cs : Known(cs[i], inMemory) /\ Accurate(cs[i], onDisk)
  BY <1>1, OfTheInvariant DEF IInv, KnownAll, Examined
<1>3. resolved => Complete(cs, onDisk) /\ ~(netmode = "Offline" /\ outcome = "failed")
  BY LaunchableIs DEF IInv
<1>4. resolved => ~Conflicting(cs) /\ obsolete = {} /\ NotSame(cs) = {} /\ Missing(cs) = {}
  BY <1>2, <1>3, NothingToDo
<1>5. resolved \in BOOLEAN /\ outcome \in {"none", "succeeded", "failed"}
  BY <1>2 DEF TypeOK
<1>6. CASE emitEnd("failed") /\ UNCHANGED components /\ ~resolved
  <2>1. /\ phase' = "idle" /\ slots' = slots /\ outcome' = "failed" /\ resolved' = FALSE
        /\ components' = cs
    BY <1>2, <1>6 DEF emitEnd
  <2> QED
    BY <1>0, <1>1, <1>2, <2>1, NoWaitInv
<1>7. CASE obsolete # {} /\ components' = left /\ UNCHANGED <<phase, slots, outcome, resolved>>
  <2>1. Left(cs, Len(cs), left)
    BY <1>2, LeftOver
  <2> HIDE DEF left
  <2>2. Listed(left) /\ \A k \in DOMAIN left : \E j \in DOMAIN cs : left[k] = cs[j]
    BY <1>2, <2>1 DEF Left, Listed
  <2>3. Listed(components')
    BY <1>7, <2>2
  <2>4. \A k \in DOMAIN components' :
          Known(components'[k], inMemory) /\ Accurate(components'[k], onDisk)
    BY <1>2, <1>7, <2>2
  <2>5. resolved' = FALSE /\ phase' = "resolve" /\ slots' = slots /\ outcome' = outcome
    BY <1>1, <1>4, <1>5, <1>7
  <2> QED
    BY <1>0, <1>1, <1>5, <2>3, <2>4, <2>5, NoWaitInv
<1>8. CASE /\ emitEnd("succeeded") /\ UNCHANGED components
           /\ obsolete = {} /\ Missing(cs) = {} /\ NotSame(cs) = {}
  <2>1. /\ phase' = "idle" /\ slots' = slots /\ outcome' = "succeeded" /\ resolved' \in BOOLEAN
        /\ components' = cs
    BY <1>2, <1>8 DEF emitEnd
  <2>2. Complete(cs, onDisk)
    BY <1>2, <1>8, ThenComplete
  <2> QED
    BY <1>0, <1>1, <1>2, <2>1, <2>2, NoWaitInv
<1>9. CASE /\ \A u \in NotSame(cs) : ~IsLocked(cs[Place(cs, u)])
           /\ Missing(cs) \cup NotSame(cs) # {}
           /\ components' = t /\ phase' = "load" /\ UNCHANGED <<slots, outcome, resolved>>
  <2>1. Extended(cs, n, s)
    BY <1>2, AddedTo
  <2>2. t \in Seq(Component) /\ DOMAIN t = DOMAIN s
        /\ \A k \in DOMAIN t : t[k].uid = s[k].uid /\ Known(t[k], inMemory)
    BY <1>2, <1>9, ChangedTo
  <2> HIDE DEF s, t, n
  <2>3. Listed(t)
    BY <2>1, <2>2 DEF Listed, Extended
  <2>4. Listed(components') /\ \A k \in DOMAIN components' : Known(components'[k], inMemory)
    BY <1>9, <2>2, <2>3
  <2>5. resolved' = FALSE /\ phase' = "load" /\ slots' = slots /\ outcome' = outcome
    BY <1>4, <1>5, <1>9
  <2> QED
    BY <1>0, <1>1, <1>5, <2>4, <2>5, NoWaitInv
<1> HIDE DEF obsolete, left, t
<1>10. IF Conflicting(cs) THEN emitEnd("failed") /\ UNCHANGED components
       ELSE IF obsolete # {}
       THEN components' = left /\ UNCHANGED <<phase, slots, outcome, resolved>>
       ELSE IF \E u \in NotSame(cs) : IsLocked(cs[Place(cs, u)])
       THEN emitEnd("failed") /\ UNCHANGED components
       ELSE IF Missing(cs) \cup NotSame(cs) = {}
       THEN emitEnd("succeeded") /\ UNCHANGED components
       ELSE IF netmode = "Offline" THEN emitEnd("failed") /\ UNCHANGED components
       ELSE components' = t /\ phase' = "load" /\ UNCHANGED <<slots, outcome, resolved>>
  BY DEF resolveDependencies, obsolete, left, t
<1>11. CASE Conflicting(cs)
  BY <1>4, <1>6, <1>10, <1>11
<1>12. CASE ~Conflicting(cs) /\ obsolete # {}
  BY <1>7, <1>10, <1>12
<1>13. CASE ~Conflicting(cs) /\ obsolete = {} /\ \E u \in NotSame(cs) : IsLocked(cs[Place(cs, u)])
  BY <1>4, <1>6, <1>10, <1>13
<1>14. CASE /\ ~Conflicting(cs) /\ obsolete = {} /\ Missing(cs) \cup NotSame(cs) = {}
            /\ ~\E u \in NotSame(cs) : IsLocked(cs[Place(cs, u)])
  <2>1. Missing(cs) = {} /\ NotSame(cs) = {}
    BY <1>14
  <2> QED
    BY <1>8, <1>10, <1>14, <2>1
<1>15. CASE /\ ~Conflicting(cs) /\ obsolete = {} /\ Missing(cs) \cup NotSame(cs) # {}
            /\ ~\E u \in NotSame(cs) : IsLocked(cs[Place(cs, u)])
  <2>1. ~resolved
    BY <1>4, <1>15
  <2>2. CASE netmode = "Offline"
    BY <1>6, <1>10, <1>15, <2>1, <2>2
  <2>3. CASE netmode # "Offline"
    BY <1>9, <1>10, <1>15, <2>3
  <2> QED
    BY <2>2, <2>3
<1> QED
  BY <1>11, <1>12, <1>13, <1>14, <1>15

\* What a round puts in front of what.
LEMMA RoundInjects ==
  ASSUME ComponentsAssumption, IInv, resolveDependencies,
         NEW i \in DOMAIN components', NEW j \in DOMAIN components',
         ~Has(components, components'[i].uid),
         NEW d \in Dependees(components, components'[i].uid),
         components[d].uid = components'[j].uid
  PROVE  i < j
<1> DEFINE cs == components
           left == removeAll(cs, getTrivialRemovals(cs))
           s == addMissing(cs)
           t == changeVersions(cs, s)
           n == Len(Order)
<1>1. /\ Sound /\ Listed(cs) /\ \A k \in DOMAIN cs : Known(cs[k], inMemory)
  BY OfTheInvariant DEF IInv, KnownAll
<1>2. components' # cs
  BY DEF Has
<1>3. components' # left
  <2>1. Left(cs, Len(cs), left)
    BY <1>1, LeftOver
  <2> HIDE DEF left
  <2>2. \A k \in DOMAIN left : \E l \in DOMAIN cs : left[k] = cs[l]
    BY <1>1, <2>1 DEF Left, Listed
  <2> QED
    BY <2>2 DEF Has
<1>4. components' = t /\ \A u \in NotSame(cs) : ~IsLocked(cs[Place(cs, u)])
  BY <1>2, <1>3 DEF resolveDependencies
<1>5. Extended(cs, n, s)
  BY <1>1, AddedTo
<1>6. t \in Seq(Component) /\ DOMAIN t = DOMAIN s /\ \A k \in DOMAIN t : t[k].uid = s[k].uid
  BY <1>1, <1>4, ChangedTo
<1> HIDE DEF s, t, n
<1>7. i \in DOMAIN s /\ j \in DOMAIN s /\ components'[i].uid = s[i].uid /\ components'[j].uid = s[j].uid
  BY <1>4, <1>6
<1>8. ~Has(cs, s[i].uid) /\ d \in Dependees(cs, s[i].uid) /\ cs[d].uid = s[j].uid
  BY <1>7
<1> QED
  BY <1>5, <1>7, <1>8 DEF Extended

-----------------------------------------------------------------------------
(* What the user, a launch and a restart do. *)

\* Only what is read again, and the files in memory, are left as they are.
LEMMA RereadList ==
  ASSUME NEW cs, Listed(cs), NEW memory, \A i \in DOMAIN cs : Known(cs[i], inMemory)
  PROVE  /\ Listed(reread(cs)) /\ DOMAIN reread(cs) = DOMAIN cs
         /\ \A i \in DOMAIN cs : Same(cs[i], reread(cs)[i]) /\ Known(reread(cs)[i], memory)
<1> DEFINE ds == reread(cs)
<1>1. ds = [i \in DOMAIN cs |-> [cs[i] EXCEPT !.volatile = FALSE, !.loaded = FALSE]]
  BY DEF reread
<1> HIDE DEF ds
<1>2. ASSUME NEW i \in DOMAIN cs
      PROVE  ds[i] \in Component /\ Same(cs[i], ds[i]) /\ Known(ds[i], memory)
  <2>1. cs[i] \in Component
    BY DEF Listed
  <2>2. ds[i] = [cs[i] EXCEPT !.volatile = FALSE, !.loaded = FALSE]
    BY <1>1
  <2> QED
    BY <2>1, <2>2, Reread
<1>3. ds = [i \in DOMAIN cs |-> ds[i]]
  BY <1>1
<1>4. Listed(ds) /\ DOMAIN ds = DOMAIN cs
  BY <1>2, <1>3, InPlace DEF Same
<1> QED
  BY <1>2, <1>4 DEF ds

\* What holds at rest, and of an edit.
LEMMA AtRestIs ==
  ASSUME IInv, AtRest
  PROVE  /\ Sound /\ Listed(components) /\ phase = "idle" /\ phase # "wait" /\ inMemory \subseteq onDisk
         /\ netmode \in {"Online", "Offline"} /\ edits \in 0..MaxEdits /\ components \in Seq(Component)
         /\ Len(components) \in Nat /\ DOMAIN components = 1..Len(components)
         /\ \A i \in DOMAIN components :
              components[i] \in Component /\ Known(components[i], inMemory)
BY OfTheInvariant DEF AtRest, IInv, KnownAll, TypeOK

\* What an edit does besides changing the list.
LEMMA Counted ==
  ASSUME ComponentsAssumption, edits \in 0..MaxEdits, counted
  PROVE  edits' \in 0..MaxEdits
BY DEF counted, ComponentsAssumption

\* An edit that leaves a list in which everything is known.
LEMMA EditedInv ==
  ASSUME ComponentsAssumption, IInv, AtRest, counted, phase' \in {"idle", "load"},
         UNCHANGED <<server, inMemory, onDisk, slots, remoteOk>>,
         netmode' \in {"Online", "Offline"}, outcome' = "none", resolved' = FALSE,
         Listed(components'), \A i \in DOMAIN components' : Known(components'[i], inMemory)
  PROVE  IInv'
<1>1. edits' \in 0..MaxEdits /\ inMemory' \subseteq onDisk /\ phase # "wait" /\ phase' # "resolve"
  BY AtRestIs, Counted
<1>2. \A i \in DOMAIN components' : Known(components'[i], inMemory')
  OBVIOUS
<1> QED
  BY <1>1, <1>2, NoWaitInv

\* A list in which one component has been replaced.
LEMMA ReplacedList ==
  ASSUME NEW cs, Listed(cs), NEW p \in DOMAIN cs, NEW d \in Component, d.uid = cs[p].uid
  PROVE  LET ds == [cs EXCEPT ![p] = d] IN
         /\ Listed(ds) /\ DOMAIN ds = DOMAIN cs
         /\ ds[p] = d /\ \A i \in DOMAIN cs : i # p => ds[i] = cs[i]
<1> DEFINE ds == [cs EXCEPT ![p] = d]
<1>1. /\ DOMAIN ds = DOMAIN cs /\ ds[p] = d /\ \A i \in DOMAIN cs : i # p => ds[i] = cs[i]
      /\ ds = [i \in DOMAIN cs |-> ds[i]]
  OBVIOUS
<1> HIDE DEF ds
<1>2. \A i \in DOMAIN cs : ds[i] \in Component /\ ds[i].uid = cs[i].uid
  BY <1>1 DEF Listed
<1>3. Listed(ds)
  BY <1>1, <1>2, InPlace
<1> QED
  BY <1>1, <1>3 DEF ds

\* setComponentVersion(), of one in the list or of a new one.
LEMMA SetComponentVersionInv ==
  ASSUME ComponentsAssumption, IInv, NEW u \in Uid, NEW v \in Ver, setComponentVersion(u, v)
  PROVE  IInv'
<1> DEFINE cs == components
<1>1. /\ AtRest /\ counted /\ phase' = "load" /\ netmode' = "Online" /\ outcome' = "none"
      /\ resolved' = FALSE /\ UNCHANGED <<server, inMemory, onDisk, slots, remoteOk>>
  BY DEF setComponentVersion, resolve
<1>2. /\ Sound /\ Listed(cs) /\ cs \in Seq(Component) /\ Len(cs) \in Nat /\ DOMAIN cs = 1..Len(cs)
      /\ \A i \in DOMAIN cs : cs[i] \in Component /\ Known(cs[i], inMemory)
  BY <1>1, AtRestIs
<1>3. v \in Version
  BY DEF Version
<1>4. Listed(components') /\ \A i \in DOMAIN components' : Known(components'[i], inMemory)
  <2>1. CASE Has(cs, u)
    <3> DEFINE p == Place(cs, u)
               b == revert(cs[p])
               d == setVersion(b, v)
    <3>1. p \in DOMAIN cs
      BY <2>1, PlaceOf
    <3>2. components' = [cs EXCEPT ![p] = d]
      BY <2>1, <3>1 DEF setComponentVersion
    <3> HIDE DEF p
    <3>3. b \in Component /\ b.uid = cs[p].uid /\ ~b.custom /\ Known(b, inMemory)
      BY <1>2, <3>1, Reverted
    <3> HIDE DEF b
    <3>4. d \in Component /\ d.uid = b.uid /\ Known(d, inMemory)
      BY <1>2, <1>3, <3>3, SetTo
    <3> HIDE DEF d
    <3>5. /\ Listed(components') /\ DOMAIN components' = DOMAIN cs /\ components'[p] = d
          /\ \A i \in DOMAIN cs : i # p => components'[i] = cs[i]
      BY <1>2, <3>1, <3>2, <3>3, <3>4, ReplacedList
    <3> QED
      BY <1>2, <3>4, <3>5
  <2>2. CASE ~Has(cs, u)
    <3> DEFINE e == NewComponent(u, v, FALSE)
    <3>1. components' = Append(cs, e)
      BY <2>2 DEF setComponentVersion
    <3>2. Fresh(e) /\ e.uid = u
      BY <1>3, NewIsFresh
    <3> HIDE DEF e
    <3>3. e \in Component /\ Known(e, inMemory)
      BY <3>2 DEF Fresh, Known
    <3>4. /\ components' \in Seq(Component) /\ Len(components') = Len(cs) + 1
          /\ components'[Len(cs) + 1] = e /\ \A i \in DOMAIN cs : components'[i] = cs[i]
      BY <1>2, <3>1, <3>3
    <3>5. \A i \in DOMAIN components' :
            \/ i = Len(cs) + 1 /\ components'[i] = e
            \/ i \in DOMAIN cs /\ components'[i] = cs[i]
      BY <1>2, <3>4
    <3>6. \A i \in DOMAIN cs : cs[i].uid # e.uid
      BY <2>2, <3>2 DEF Has
    <3>7. ASSUME NEW i \in DOMAIN components', NEW j \in DOMAIN components', i # j
          PROVE  components'[i].uid # components'[j].uid
      <4>1. CASE i \in DOMAIN cs /\ j \in DOMAIN cs
        BY <1>2, <3>4, <3>7, <4>1 DEF Listed
      <4>2. CASE i \notin DOMAIN cs
        BY <3>5, <3>6, <3>7, <4>2
      <4>3. CASE j \notin DOMAIN cs
        BY <3>5, <3>6, <3>7, <4>3
      <4> QED
        BY <4>1, <4>2, <4>3
    <3> QED
      BY <1>2, <3>3, <3>4, <3>5, <3>7 DEF Listed
  <2> QED
    BY <2>1, <2>2
<1> QED
  BY <1>1, <1>4, EditedInv

\* remove().
LEMMA RemoveInv ==
  ASSUME ComponentsAssumption, IInv, NEW n \in DOMAIN components, remove(n)
  PROVE  IInv'
<1> DEFINE cs == components
           ds == RemoveAt(cs, n)
<1>1. /\ AtRest /\ counted /\ phase' = "load" /\ netmode' = "Online" /\ outcome' = "none"
      /\ resolved' = FALSE /\ UNCHANGED <<server, inMemory, onDisk, slots, remoteOk>>
      /\ components' \in {reread(ds), ds}
  BY DEF remove, resolve
<1>2. /\ Listed(cs) /\ cs \in Seq(Component) /\ Len(cs) \in Nat /\ DOMAIN cs = 1..Len(cs)
      /\ \A i \in DOMAIN cs : cs[i] \in Component /\ Known(cs[i], inMemory)
  BY <1>1, AtRestIs
<1>8. ds \in Seq(Component) /\ Shrunk(ds, cs, n)
  BY <1>2, Removed
<1> HIDE DEF ds
<1>3. /\ ds \in Seq(Component) /\ Len(ds) = Len(cs) - 1
      /\ \A i \in 1..(Len(cs) - 1) : ds[i] = cs[IF i < n THEN i ELSE i + 1]
  BY <1>8 DEF Shrunk
<1> DEFINE Was(i) == IF i < n THEN i ELSE i + 1
<1>4. /\ \A i \in DOMAIN ds : Was(i) \in DOMAIN cs /\ ds[i] = cs[Was(i)]
      /\ \A i, j \in DOMAIN ds : i # j => Was(i) # Was(j)
  BY <1>2, <1>3
<1> HIDE DEF Was
<1>5. Listed(ds)
  <2>1. ASSUME NEW i \in DOMAIN ds, NEW j \in DOMAIN ds, i # j
        PROVE  ds[i].uid # ds[j].uid
    BY <1>2, <1>4, <2>1 DEF Listed
  <2> QED
    BY <1>3, <2>1 DEF Listed
<1>6. \A i \in DOMAIN ds : Known(ds[i], inMemory)
  BY <1>2, <1>4
<1>7. Listed(components') /\ \A i \in DOMAIN components' : Known(components'[i], inMemory)
  <2>1. CASE components' = ds
    BY <1>5, <1>6, <2>1
  <2>2. CASE components' = reread(ds)
    BY <1>5, <1>6, <2>2, RereadList
  <2> QED
    BY <1>1, <2>1, <2>2
<1> QED
  BY <1>1, <1>7, EditedInv

\* An edit that starts no resolution happens at rest, and tells that nothing is resolved.
LEMMA EditIs ==
  ASSUME ~EditsWhileLoading, edit
  PROVE  /\ AtRest /\ counted /\ outcome' = "none" /\ resolved' = FALSE /\ netmode' = netmode
         /\ phase' = phase
         /\ UNCHANGED <<server, inMemory, onDisk, slots, remoteOk>>
BY DEF edit

\* move(): two components change places.
LEMMA MoveInv ==
  ASSUME ComponentsAssumption, ~EditsWhileLoading, IInv, NEW n \in DOMAIN components, move(n)
  PROVE  IInv'
<1> DEFINE cs == components
<1>1. edit
  BY DEF move
<1>2. /\ AtRest /\ Listed(cs) /\ cs \in Seq(Component) /\ Len(cs) \in Nat /\ DOMAIN cs = 1..Len(cs)
      /\ phase = "idle" /\ netmode \in {"Online", "Offline"}
      /\ \A i \in DOMAIN cs : cs[i] \in Component /\ Known(cs[i], inMemory)
  BY <1>1, EditIs, AtRestIs
<1>3. PICK m \in DOMAIN cs : components' = [cs EXCEPT ![n] = cs[m], ![m] = cs[n]]
  <2>1. PICK k \in {-1, 1} :
          LET their == IF n + k \in DOMAIN components THEN n + k ELSE Len(components)
          IN components' = [components EXCEPT ![n] = components[their], ![their] = components[n]]
    BY DEF move
  <2> DEFINE their == IF n + k \in DOMAIN cs THEN n + k ELSE Len(cs)
  <2>2. their \in DOMAIN cs
    BY <1>2
  <2> QED
    BY <2>1, <2>2
<1> DEFINE Theirs(i) == IF i = m THEN n ELSE IF i = n THEN m ELSE i
<1>4. /\ components' = [i \in DOMAIN cs |-> cs[Theirs(i)]]
      /\ \A i \in DOMAIN cs : Theirs(i) \in DOMAIN cs
      /\ \A i, j \in DOMAIN cs : i # j => Theirs(i) # Theirs(j)
  BY <1>3
<1> HIDE DEF Theirs
<1>5. \A i \in DOMAIN cs : cs[Theirs(i)] \in Component
  BY <1>2, <1>4
<1>6. components' \in Seq(Component) /\ DOMAIN components' = DOMAIN cs
  <2>1. components' \in [1..Len(cs) -> Component]
    BY <1>2, <1>4, <1>5
  <2> QED
    BY <1>2, <2>1
<1>7. \A i \in DOMAIN cs : components'[i] = cs[Theirs(i)]
  BY <1>4
<1>8. Listed(components') /\ \A i \in DOMAIN components' : Known(components'[i], inMemory)
  BY <1>2, <1>4, <1>6, <1>7 DEF Listed
<1> QED
  BY <1>1, <1>2, <1>8, EditIs, EditedInv

\* customize() and revertToBase().
LEMMA CustomizeInv ==
  ASSUME ComponentsAssumption, ~EditsWhileLoading, IInv, NEW n \in DOMAIN components,
         customize(n) \/ revertToBase(n)
  PROVE  IInv'
<1> DEFINE cs == components
<1>1. edit
  BY DEF customize, revertToBase
<1>2. /\ AtRest /\ Sound /\ Listed(cs) /\ phase = "idle" /\ netmode \in {"Online", "Offline"}
      /\ \A i \in DOMAIN cs : cs[i] \in Component /\ Known(cs[i], inMemory)
  BY <1>1, EditIs, AtRestIs
<1>3. ASSUME NEW d \in Component, d.uid = cs[n].uid, Known(d, inMemory),
             components' = [cs EXCEPT ![n] = d]
      PROVE  IInv'
  <2>1. /\ Listed(components') /\ DOMAIN components' = DOMAIN cs /\ components'[n] = d
        /\ \A i \in DOMAIN cs : i # n => components'[i] = cs[i]
    BY <1>2, <1>3, ReplacedList
  <2>2. \A i \in DOMAIN components' : Known(components'[i], inMemory)
    BY <1>2, <1>3, <2>1
  <2> QED
    BY <1>1, <1>2, <2>1, <2>2, EditIs, EditedInv
<1>4. CASE customize(n)
  <2> DEFINE d == [cs[n] EXCEPT !.custom = TRUE]
  <2>1. components' = [cs EXCEPT ![n] = d] /\ File(cs[n]) \in inMemory
    BY <1>4 DEF customize
  <2>2. d \in Component /\ d.uid = cs[n].uid /\ Known(d, inMemory)
    BY <1>2, <2>1, Customized
  <2> QED
    BY <1>3, <2>1, <2>2
<1>5. CASE revertToBase(n)
  <2> DEFINE d == revert(cs[n])
  <2>1. components' = [cs EXCEPT ![n] = d]
    BY <1>5 DEF revertToBase
  <2>2. d \in Component /\ d.uid = cs[n].uid /\ Known(d, inMemory)
    BY <1>2, Reverted
  <2> QED
    BY <1>3, <2>1, <2>2
<1> QED
  BY <1>4, <1>5

\* What is read again can be launched as before.
LEMMA ReloadInv ==
  ASSUME ComponentsAssumption, IInv,
         restart \/ \E mode \in {"Online", "Offline"} : reload(mode)
  PROVE  IInv'
<1> DEFINE cs == components
<1>1. /\ AtRest /\ components' = reread(cs) /\ phase' = "load" /\ outcome' = "none"
      /\ netmode' \in {"Online", "Offline"} /\ UNCHANGED <<server, onDisk, slots, remoteOk, resolved>>
      /\ inMemory' \subseteq inMemory /\ (edits' = edits \/ counted)
  BY DEF reload, restart, resolve
<1>2. /\ Listed(cs) /\ phase # "wait" /\ inMemory \subseteq onDisk /\ edits \in 0..MaxEdits
      /\ \A i \in DOMAIN cs : cs[i] \in Component /\ Known(cs[i], inMemory)
  BY <1>1, AtRestIs
<1>3. /\ Listed(components') /\ DOMAIN components' = DOMAIN cs
      /\ \A i \in DOMAIN cs : Same(cs[i], components'[i]) /\ Known(components'[i], inMemory')
  BY <1>1, <1>2, RereadList
<1>4. resolved' => Complete(components', onDisk)
  <2>1. resolved' => Complete(cs, onDisk)
    BY <1>1, LaunchableIs DEF IInv
  <2> QED
    BY <1>3, <2>1, CompleteKept
<1>5. edits' \in 0..MaxEdits /\ inMemory' \subseteq onDisk /\ resolved' \in BOOLEAN
  BY <1>1, <1>2, Counted DEF IInv, TypeOK
<1> QED
  BY <1>1, <1>2, <1>3, <1>4, <1>5, NoWaitInv

-----------------------------------------------------------------------------
(* The theorems. *)

\* No step at all.
LEMMA StutterKeeps ==
  ASSUME IInv, UNCHANGED vars
  PROVE  IInv'
<1>1. TypeOK' /\ KnownAll' /\ Placed(components, slots)' /\ Awaited' /\ Examined'
  BY DEF IInv, vars, TypeOK, KnownAll, Known, File, Placed, Awaited, Examined, Accurate, Real
<1>2. ResolvedIsLaunchable'
  BY DEF IInv, vars, ResolvedIsLaunchable, Real, Meets, File
<1> QED
  BY <1>1, <1>2 DEF IInv

\* Every step keeps the invariant.
LEMMA EveryStep ==
  ASSUME ComponentsAssumption, ~EditsWhileLoading, IInv, [Next]_vars
  PROVE  IInv'
<1>1. CASE loadComponents
  BY <1>1, LoadComponentsInv
<1>2. CASE resolveDependencies
  BY <1>2, ResolveInv
<1>3. CASE \E s \in slots : Reply(s)
  BY <1>3, RemoteSucceededInv, RemoteFailedInv DEF Reply
<1>4. CASE \E u \in Uid, v \in Ver : setComponentVersion(u, v)
  BY <1>4, SetComponentVersionInv
<1>5. ASSUME NEW i \in DOMAIN components, remove(i) \/ move(i) \/ customize(i) \/ revertToBase(i)
      PROVE  IInv'
  BY <1>5, RemoveInv, MoveInv, CustomizeInv
<1>6. CASE restart \/ \E mode \in {"Online", "Offline"} : reload(mode)
  BY <1>6, ReloadInv
<1>7. CASE UNCHANGED vars
  BY <1>7, StutterKeeps
<1> QED
  BY <1>1, <1>2, <1>3, <1>4, <1>5, <1>6, <1>7 DEF Next

\* The inductive invariant holds in every state of every behaviour.
THEOREM Invariance ==
  ASSUME ~EditsWhileLoading
  PROVE  Spec => []IInv
<1>1. Init => IInv
  BY ComponentsAssumption, ComponentsInitInv
<1>2. IInv /\ [Next]_vars => IInv'
  BY ComponentsAssumption, EveryStep
<1> QED
  BY <1>1, <1>2, PTL DEF Spec

\* Every variable keeps its type, for any metadata and any order of replies, edits and
\* restarts: in particular no uid is twice in the list, whatever a round adds to it, and no
\* file is on the disk that the server does not have.
THEOREM TypeCorrect ==
  ASSUME ~EditsWhileLoading
  PROVE  Spec => []TypeOK
<1>1. IInv => TypeOK
  BY DEF IInv
<1> QED
  BY <1>1, Invariance, PTL

\* What has been resolved is complete: the files of all its components are there, each
\* requirement is met by a component of the list, and nothing is left that only a dependency
\* needed; so that the instance can be launched offline.  The user must not edit the list
\* while it is loaded.
THEOREM Launchable ==
  ASSUME ~EditsWhileLoading
  PROVE  Spec => []ResolvedIsLaunchable
<1>1. IInv => ResolvedIsLaunchable
  BY DEF IInv
<1> QED
  BY <1>1, Invariance, PTL

\* Once all has been loaded, the next step is a round of resolveDependencies().
LEMMA OnlyRoundsResolve ==
  ASSUME ~EditsWhileLoading, IInv, Next, phase = "resolve"
  PROVE  resolveDependencies
<1>1. ~loadComponents /\ slots = {}
  BY OfTheInvariant DEF IInv, loadComponents
<1>2. ~AtRest /\ ~edit
  BY DEF AtRest, edit
<1> QED
  BY <1>1, <1>2 DEF Next, setComponentVersion, remove, move, customize, revertToBase, reload, restart

\* What a round of the resolution adds comes before everything that required it when the
\* round began, however many are added at once at places found before the first went in.
THEOREM Injected ==
  ASSUME ~EditsWhileLoading
  PROVE  Spec => InjectedBefore
<1> DEFINE A == phase = "resolve" =>
       \A i, j \in DOMAIN components' :
         /\ ~Has(components, components'[i].uid)
         /\ \E d \in Dependees(components, components'[i].uid) :
              components[d].uid = components'[j].uid
         => i < j
<1>1. IInv /\ [Next]_vars => [A]_vars
  <2>1. ASSUME IInv, Next, phase = "resolve"
        PROVE  A
    <3>1. resolveDependencies
      BY <2>1, OnlyRoundsResolve
    <3> QED
      BY <2>1, <3>1, ComponentsAssumption, RoundInjects
  <2> QED
    BY <2>1
<1> QED
  BY <1>1, Invariance, PTL DEF Spec, InjectedBefore
=============================================================================
