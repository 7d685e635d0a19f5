------------------------ MODULE CachedDownload_proofs ------------------------
(***************************************************************************)
(* Proofs about CachedDownload, with any number of callers, versions and   *)
(* chunks, through retries, redirects, aborts and crashes: no part of a    *)
(* body is ever stored as the whole of it and no error as the file, the    *)
(* cache never trusts an entry that is not about the file, what is aborted stays so, and what has been *)
(* discarded is fetched again.                                             *)
(*                                                                         *)
(* And about NetJob, the job whose parts such downloads are, for every set *)
(* of parts and all limits: no part is lost or doubled, a running job      *)
(* always has something that carries it on, and it gives up on no part     *)
(* early.  These come last and use nothing of the others.                  *)
(***************************************************************************)
EXTENDS CachedDownload, NetJob, FiniteSetTheorems, SequenceTheorems, TLAPS

\* The count of an attempt is that of the file it writes: nothing of the attempts
\* before is left in it, there is a file to write to, and what it has written came with
\* a reply that carries something.  Only a download that was started has a reply, and it
\* has one no longer when it has ended for good, or within abort() is about to.
Good(x) == /\ x \in Download
           /\ x.output_file # NoValue => x.output_file = x.bytesWritten
           /\ x.status = "InProgress" => x.output_file # NoValue
           /\ x.status = "InProgress" /\ x.wroteAnyData => Carries(x.reply)
           /\ x.status \notin {"InProgress", "Failed", "Aborted"} => x.reply = NoValue
           /\ x.entry = NoValue => x.status = "NotStarted"
TInv == TypeOK /\ \A c \in Caller : Good(dl[c])

-----------------------------------------------------------------------------
(* What becomes of one object.                                             *)

\* What the type of a download says of its fields.
LEMMA DownloadFields ==
  ASSUME NEW x \in Download
  PROVE  /\ x.status \in Status /\ x.entry \in OrNone(Obj) /\ x.reply \in OrNone(Reply)
         /\ x.output_file \in OrNone(0..Size) /\ x.bytesWritten \in Nat
         /\ x.wroteAnyData \in BOOLEAN
BY DEF Download

\* A download that has ended, or has not begun.
LEMMA AtRestGood ==
  ASSUME NEW status \in Status \ {"InProgress"}, NEW o \in OrNone(Obj),
         o = NoValue => status = "NotStarted"
  PROVE  /\ Good(AtRest(status, o))
         /\ AtRest(status, o).status = status /\ AtRest(status, o).entry = o
         /\ AtRest(status, o).reply = NoValue
<1>1. NoValue \in OrNone(Reply) /\ NoValue \in OrNone(0..Size)
  BY DEF OrNone
<1> QED
  BY <1>1 DEF AtRest, Good, Download, Status

\* A caller without a download.
LEMMA NoDownloadGood ==
  Good(NoDownload) /\ NoDownload.status = "NotStarted" /\ NoDownload.entry = NoValue
    /\ NoDownload.reply = NoValue
<1>1. NoValue \in OrNone(Obj) /\ "NotStarted" \in Status \ {"InProgress"}
  BY DEF OrNone, Status
<1> QED
  BY <1>1, AtRestGood DEF NoDownload

\* What may become of x while it talks to the server only: it keeps its entry, does not
\* come back once it is aborted, succeeds only where its entry is not stale, and the only
\* replies it gets are those the server may send.
Goes(x, y) == /\ Good(y)
              /\ y.entry = x.entry
              /\ y.status \in {"InProgress", "Failed"} =>
                   x.status \in {"NotStarted", "InProgress", "Failed"}
              /\ x.status = "Aborted" => y.status = "Aborted"
              /\ y.status = "Finished" => x.status \in {"NotStarted", "InProgress", "Failed"}
                                           /\ ~entry[x.entry].stale
              /\ y.reply \in {x.reply, NoValue} \cup Replies(x)
              /\ y.status # "NotStarted"

Waiting(x) == x.entry # NoValue /\ x.status \in {"NotStarted", "InProgress", "Failed"}

\* startImpl() sets the count back with the file.
LEMMA StartImplGoes ==
  ASSUME NEW x, Good(x), Waiting(x) \/ x.status = "Aborted", NEW y \in startImpl(x)
  PROVE  Goes(x, y)
<1>0. /\ x \in Download /\ x.entry \in OrNone(Obj) /\ x.entry # NoValue
      /\ x.status \in {"NotStarted", "InProgress", "Failed", "Aborted"}
  BY DownloadFields DEF Good, Waiting
<1>1. CASE x.status = "Aborted"
  BY <1>1, <1>0 DEF startImpl, Goes
<1>2. CASE x.status # "Aborted" /\ y = AtRest("Finished", x.entry) /\ ~entry[x.entry].stale
  <2>1. Good(y) /\ y.status = "Finished" /\ y.entry = x.entry /\ y.reply = NoValue
    BY <1>0, <1>2, AtRestGood DEF Status
  <2> QED
    BY <1>0, <1>2, <2>1 DEF Goes
<1>3. CASE x.status # "Aborted" /\ y = [x EXCEPT !.status = "Failed", !.reply = NoValue]
  <2>1. NoValue \in OrNone(Reply) /\ "Failed" \in Status
    BY DEF OrNone, Status
  <2>2. y \in Download
    BY <1>0, <1>3, <2>1 DEF Download
  <2>3. /\ y.status = "Failed" /\ y.reply = NoValue /\ y.entry = x.entry
        /\ y.output_file = x.output_file /\ y.bytesWritten = x.bytesWritten
    BY <1>0, <1>3 DEF Download
  <2>4. Good(y)
    BY <1>0, <2>2, <2>3 DEF Good
  <2> QED
    BY <1>0, <1>3, <2>3, <2>4 DEF Goes
<1>4. ASSUME x.status # "Aborted", NEW r \in Replies(x),
             y = [x EXCEPT !.status = "InProgress", !.reply = r, !.output_file = 0,
                           !.bytesWritten = 0, !.wroteAnyData = FALSE]
      PROVE  Goes(x, y)
  <2>1. r \in OrNone(Reply) /\ "InProgress" \in Status
    BY DEF Replies, OrNone, Status
  <2>2. 0 \in 0..Size /\ 0 \in OrNone(0..Size) /\ 0 \in Nat /\ 0 # NoValue
    BY SizeAssumption, NoValueAssumption DEF OrNone
  <2>3. y \in Download
    BY <1>0, <1>4, <2>1, <2>2 DEF Download
  <2>4. /\ y.output_file = 0 /\ y.bytesWritten = 0 /\ y.status = "InProgress" /\ y.reply = r
        /\ y.entry = x.entry /\ ~y.wroteAnyData
    BY <1>0, <1>4 DEF Download
  <2>5. Good(y)
    BY <1>0, <2>2, <2>3, <2>4 DEF Good
  <2> QED
    BY <1>0, <1>4, <2>4, <2>5 DEF Goes
<1> QED
  BY <1>1, <1>2, <1>3, <1>4 DEF startImpl

\* One more chunk in the file is one more in the count.
LEMMA WriteGood ==
  ASSUME NEW x, Good(x), x.status = "InProgress", Carries(x.reply), x.output_file < Size
  PROVE  LET y == write(x, 1) IN
         /\ Good(y) /\ y.status = "InProgress" /\ y.entry = x.entry /\ y.reply = x.reply
         /\ y.wroteAnyData
<1> DEFINE y == write(x, 1)
<1>1. x.output_file \in 0..Size /\ x.output_file = x.bytesWritten /\ x \in Download
  BY DownloadFields DEF Good, OrNone
<1>2. /\ x.output_file + 1 \in 0..Size /\ x.bytesWritten + 1 \in Nat
      /\ x.output_file + 1 \in OrNone(0..Size) /\ x.output_file + 1 # NoValue
  BY <1>1, SizeAssumption, NoValueAssumption DEF OrNone
<1>3. y \in Download
  BY <1>1, <1>2 DEF write, Download
<1>4. /\ y.output_file = x.output_file + 1 /\ y.bytesWritten = x.bytesWritten + 1
      /\ y.status = x.status /\ y.entry = x.entry /\ y.reply = x.reply /\ y.wroteAnyData
  BY <1>1 DEF write, Download
<1> HIDE DEF y
<1>5. Good(y)
  BY <1>1, <1>2, <1>3, <1>4 DEF Good, Carries
<1> QED
  BY <1>4, <1>5 DEF y

\* A write that fails, and a download that does.
LEMMA FailGood ==
  ASSUME NEW x, Good(x), x.entry # NoValue
  PROVE  /\ Good(writeFails(x)) /\ Good(failed(x))
         /\ \A y \in {writeFails(x), failed(x)} : y.status = "Failed" /\ y.entry = x.entry
         /\ writeFails(x).reply = x.reply /\ failed(x).reply = NoValue
<1>1. NoValue \in OrNone(Reply) /\ NoValue \in OrNone(0..Size) /\ "Failed" \in Status
  BY DEF OrNone, Status
<1>2. x \in Download
  BY DEF Good
<1>3. /\ writeFails(x) \in Download /\ failed(x) \in Download
      /\ \A y \in {writeFails(x), failed(x)} : /\ y.status = "Failed" /\ y.entry = x.entry
                                               /\ y.output_file = NoValue
      /\ writeFails(x).reply = x.reply /\ failed(x).reply = NoValue
  BY <1>1, <1>2 DEF Download, writeFails, failed
<1> QED
  BY <1>3 DEF Good

-----------------------------------------------------------------------------
(* The steps, sorted by what they do to the cache.                         *)

\* Downloads that talk to the server.
Talks(c) == /\ \E y : Goes(dl[c], y) /\ dl' = [dl EXCEPT ![c] = y]
            /\ UNCHANGED <<entry, index, saved, file, server, discarded>>

\* A download that ends with a body, or with a 304; y is what it is then.
Ends(c) ==
  /\ \E y : /\ Good(y) /\ y.status = "InProgress" /\ y.entry = dl[c].entry
            /\ y.reply = dl[c].reply /\ y.reply \in Reply /\ y.reply # NoValue /\ y.entry \in Obj
            /\ gotFile(y) /\ ~y.wroteAnyData /\ y.output_file # NoValue => MayBeEmpty
            /\ commitBody(c, y) \/ keepLocal(c, y)
  /\ dl[c].status = "InProgress"
  /\ UNCHANGED server

LEMMA StartTalks ==
  ASSUME TInv, NEW c \in Caller, start(c)
  PROVE  Talks(c)
<1>1. Good(dl[c]) /\ (Waiting(dl[c]) \/ dl[c].status = "Aborted")
  BY DEF TInv, start, Waiting
<1>2. PICK x \in startImpl(dl[c]) : dl' = [dl EXCEPT ![c] = x]
  BY DEF start
<1>3. Goes(dl[c], x)
  BY <1>1, <1>2, StartImplGoes
<1> QED
  BY <1>2, <1>3 DEF start, Talks

LEMMA ReadyReadTalks ==
  ASSUME TInv, NEW c \in Caller, downloadReadyRead(c)
  PROVE  Talks(c)
<1> DEFINE x == dl[c]
<1>1. /\ Good(x) /\ x.status = "InProgress" /\ Carries(x.reply) /\ x.output_file < Size
      /\ x.entry # NoValue
  BY DEF TInv, downloadReadyRead, Good
<1>2. PICK y \in {write(x, 1), writeFails(x)} : dl' = [dl EXCEPT ![c] = y]
  BY DEF downloadReadyRead
<1>3. /\ Good(y) /\ y.entry = x.entry /\ y.reply = x.reply
      /\ y.status \in {"InProgress", "Failed"}
  BY <1>1, <1>2, WriteGood, FailGood
<1>4. Goes(x, y)
  BY <1>1, <1>3 DEF Goes
<1> QED
  BY <1>2, <1>4 DEF downloadReadyRead, Talks

LEMMA ErrorTalks ==
  ASSUME TInv, NEW c \in Caller, ~Cancelling(c), downloadError(c)
  PROVE  Talks(c)
<1> DEFINE x == dl[c]
<1>1. /\ Good(x) /\ x.reply # NoValue /\ x.status \in {"InProgress", "Failed"}
      /\ x.entry # NoValue /\ x.entry \in OrNone(Obj)
  BY DownloadFields DEF TInv, downloadError, Good, Cancelling
<1>2. PICK y \in {AtRest("Failed_Proceed", x.entry), failed(x)} : dl' = [dl EXCEPT ![c] = y]
  BY DEF downloadError
<1>3. /\ Good(y) /\ y.entry = x.entry /\ y.reply = NoValue
      /\ y.status \in {"Failed_Proceed", "Failed"}
  BY <1>1, <1>2, AtRestGood, FailGood DEF Status
<1>4. Goes(x, y)
  BY <1>1, <1>3 DEF Goes
<1> QED
  BY <1>2, <1>4 DEF downloadError, Talks

LEMMA AbortTalks ==
  ASSUME TInv, NEW c \in Caller, abort(c)
  PROVE  Talks(c)
<1> DEFINE x == dl[c]
           y == [x EXCEPT !.status = "Aborted"]
<1>1. Good(x) /\ x \in Download /\ x.entry # NoValue /\ "Aborted" \in Status
  BY DEF TInv, abort, Good, Status
<1>2. dl' = [dl EXCEPT ![c] = y] /\ UNCHANGED <<entry, index, saved, file, server, discarded>>
  BY DEF abort
<1>3. /\ y \in Download /\ y.status = "Aborted" /\ y.entry = x.entry /\ y.reply = x.reply
      /\ y.output_file = x.output_file /\ y.bytesWritten = x.bytesWritten
  BY <1>1 DEF Download
<1> HIDE DEF y
<1>4. Goes(x, y)
  BY <1>1, <1>3 DEF Goes, Good
<1> QED
  BY <1>2, <1>4 DEF Talks

LEMMA FinishedTalksOrEnds ==
  ASSUME TInv, NEW c \in Caller, downloadFinished(c)
  PROVE  Talks(c) \/ Ends(c)
<1> DEFINE x == dl[c]
           Rest == IF x.status = "InProgress" /\ Carries(x.reply) /\ x.output_file < Size
                   THEN {x, write(x, 1), writeFails(x)} ELSE {x}
<1>0. /\ Good(x) /\ x.reply # NoValue /\ x.reply \in Reply /\ server' = server
      /\ x.status \in {"InProgress", "Failed", "Aborted"} /\ x.entry # NoValue
      /\ x.entry \in Obj
  BY DownloadFields DEF TInv, downloadFinished, Good, OrNone
<1>a. ASSUME NEW y, Goes(x, y), y.status = "Aborted"
      PROVE  Goes(x, AtRest("Aborted", y.entry))
  <2>1. y.entry \in OrNone(Obj) /\ y.entry # NoValue /\ "Aborted" \in Status \ {"InProgress"}
    BY <1>0, <1>a DEF Goes, OrNone, Status
  <2> QED
    BY <1>a, <2>1, AtRestGood DEF Goes
<1>1. ASSUME NEW y \in startImpl(x),
             dl' = [dl EXCEPT ![c] = IF y.status = "Aborted" THEN AtRest("Aborted", y.entry)
                                     ELSE y],
             UNCHANGED <<entry, index, saved, file, discarded>>
      PROVE  Talks(c)
  <2>1. Goes(x, y)
    BY <1>0, <1>1, StartImplGoes DEF Waiting
  <2> QED
    BY <1>0, <1>1, <1>a, <2>1 DEF Talks
<1>4. CASE /\ x.status = "Aborted"
           /\ dl' = [dl EXCEPT ![c] = AtRest("Aborted", x.entry)]
           /\ UNCHANGED <<entry, index, saved, file, discarded>>
  <2>1. Goes(x, x)
    BY <1>0, <1>4 DEF Goes
  <2> QED
    BY <1>0, <1>4, <1>a, <2>1 DEF Talks
<1>2. CASE /\ x.status = "Failed"
           /\ dl' = [dl EXCEPT ![c] = failed(x)]
           /\ UNCHANGED <<entry, index, saved, file, discarded>>
  <2>1. Goes(x, failed(x))
    BY <1>0, <1>2, FailGood DEF Goes
  <2> QED
    BY <1>0, <1>2, <2>1 DEF Talks
<1>3. ASSUME x.status = "InProgress", NEW y \in Rest,
             gotFile(y) /\ ~y.wroteAnyData /\ y.output_file # NoValue => MayBeEmpty,
             commitBody(c, y) \/ keepLocal(c, y) \/ refuse(c, y)
      PROVE  Talks(c) \/ Ends(c)
  <2>1. /\ Good(y) /\ y.entry = x.entry /\ y.reply = x.reply
        /\ y.status = "InProgress" \/ y = writeFails(x)
    BY <1>0, <1>3, WriteGood, FailGood
  <2>2. CASE refuse(c, y)
    <3>1. Goes(x, failed(y))
      BY <1>0, <1>3, <2>1, FailGood DEF Goes
    <3> QED
      BY <1>0, <2>2, <3>1 DEF Talks, refuse
  <2>3. CASE commitBody(c, y) \/ keepLocal(c, y)
    <3>1. y.status = "InProgress"
      <4>1. ASSUME y = writeFails(x)
            PROVE  FALSE
        <5>1. y.output_file = NoValue /\ y.wroteAnyData = FALSE
          BY <1>0, <4>1 DEF writeFails, Good, Download
        <5>2. x.reply.code # "notModified"
          BY <1>0, <1>3, <4>1, FailGood DEF Carries
        <5> QED
          BY <2>1, <2>3, <5>1, <5>2 DEF commitBody, MayCommit, keepLocal
      <4> QED
        BY <2>1, <4>1
    <3> QED
      BY <1>0, <1>3, <2>1, <2>3, <3>1 DEF Ends
  <2> QED
    BY <1>3, <2>2, <2>3
<1> QED
  BY <1>0, <1>1, <1>2, <1>3, <1>4 DEF downloadFinished

\* Every step is one of these.
LEMMA Steps ==
  ASSUME TInv, Next
  PROVE  \/ SaveNow \/ Crash \/ ServerChanges
         \/ \E c \in Caller : resolveEntry(c) \/ Talks(c) \/ Ends(c) \/ extractFailed(c)
BY StartTalks, ReadyReadTalks, ErrorTalks, AbortTalks, FinishedTalksOrEnds DEF Next

-----------------------------------------------------------------------------
(* Types, and what an abort leaves.                                        *)

\* The parts of an entry that a commit writes.
LEMMA FinalizeTyped ==
  ASSUME TInv, NEW c \in Caller, NEW x, Good(x), x.reply \in Reply, x.entry \in Obj,
         NEW f, x.wroteAnyData => f \in Content,
         NEW entries \in [Obj -> MetaEntry], finalizeCache(c, x, f, entries)
  PROVE  /\ dl' = [dl EXCEPT ![c] = AtRest("Finished", x.entry)]
         /\ index' = x.entry /\ entry' \in [Obj -> MetaEntry]
         /\ entry'[x.entry] = [md5 |-> IF x.wroteAnyData THEN hash(f) ELSE entries[x.entry].md5,
                               etag |-> x.reply.ver, current |-> f # NoValue, stale |-> FALSE]
         /\ \A o \in Obj \ {x.entry} : entry'[o] \in {entries[o], staleEntry}
<1> DEFINE n == [md5 |-> IF x.wroteAnyData THEN hash(f) ELSE entries[x.entry].md5,
                 etag |-> x.reply.ver, current |-> f # NoValue, stale |-> FALSE]
           e == [entries EXCEPT ![x.entry] = n]
<1>1. /\ dl' = [dl EXCEPT ![c] = AtRest("Finished", x.entry)]
      /\ index' = x.entry /\ entry' = Kept(e, index', dl')
  BY DEF finalizeCache
<1>2. x.reply.ver \in OrNone(Version) /\ n.md5 \in OrNone(Checksum)
  BY DEF Reply, OrNone, Checksum, hash, Content, MetaEntry
<1>3. n \in MetaEntry /\ staleEntry \in MetaEntry
  BY <1>2 DEF MetaEntry, staleEntry, OrNone
<1> HIDE DEF n
<1>4. e \in [Obj -> MetaEntry] /\ e[x.entry] = n /\ \A o \in Obj \ {x.entry} : e[o] = entries[o]
  BY <1>3
<1> HIDE DEF e
<1>5. /\ entry' \in [Obj -> MetaEntry] /\ entry'[x.entry] = n
      /\ \A o \in Obj \ {x.entry} : entry'[o] \in {e[o], staleEntry}
  BY <1>1, <1>3, <1>4 DEF Kept, Live
<1> QED
  BY <1>1, <1>4, <1>5 DEF n

\* Whatever is kept of the entries, and the rest is as new.
LEMMA KeptTyped ==
  ASSUME NEW e \in [Obj -> MetaEntry], NEW i, NEW d
  PROVE  /\ Kept(e, i, d) \in [Obj -> MetaEntry]
         /\ \A o \in Obj : Live(o, i, d) => Kept(e, i, d)[o] = e[o]
<1>1. staleEntry \in MetaEntry
  BY DEF staleEntry, MetaEntry, OrNone
<1> QED
  BY <1>1 DEF Kept

\* Entries whose file has changed.
LEMMA OutdatedTyped ==
  ASSUME TypeOK
  PROVE  /\ Outdated \in [Obj -> MetaEntry] /\ SavedOutdated \in OrNone(MetaEntry)
         /\ \A o \in Obj : /\ ~Outdated[o].current /\ Outdated[o].stale = entry[o].stale
                           /\ Outdated[o].md5 = entry[o].md5 /\ Outdated[o].etag = entry[o].etag
         /\ SavedOutdated # NoValue => ~SavedOutdated.current
<1>1. \A e \in MetaEntry : /\ [e EXCEPT !.current = FALSE] \in MetaEntry
                           /\ ~[e EXCEPT !.current = FALSE].current
                           /\ [e EXCEPT !.current = FALSE].stale = e.stale
                           /\ [e EXCEPT !.current = FALSE].md5 = e.md5
                           /\ [e EXCEPT !.current = FALSE].etag = e.etag
  BY DEF MetaEntry
<1> QED
  BY <1>1 DEF TypeOK, Outdated, SavedOutdated, OrNone

\* What is stored has the type of a file.
LEMMA StoredTyped ==
  ASSUME NEW x, Good(x), x.reply \in Reply, MayCommit(x)
  PROVE  stored(x) \in Content /\ stored(x).size = x.output_file
<1>1. x.output_file \in 0..Size
  BY DownloadFields DEF Good, MayCommit, OrNone
<1> QED
  BY <1>1 DEF stored, Content, Reply, Code

\* resolveEntry() and extractFailed() of an entry that is there.
LEMMA ResolveTyped ==
  ASSUME TInv, NEW c \in Caller, resolveEntry(c)
  PROVE  /\ entry' \in [Obj -> MetaEntry] /\ index' \in {index, NoValue}
         /\ \E o \in Obj :
              /\ dl' = [dl EXCEPT ![c] = AtRest("NotStarted", o)]
              /\ \/ /\ Trusted /\ o = index /\ index' = index
                    /\ entry'[o].md5 = entry[o].md5 /\ entry'[o].etag = entry[o].etag
                    /\ \A p \in Obj \ {o} : Live(p, index, dl') => entry'[p] = entry[p]
                    /\ \E forced \in BOOLEAN : entry'[o].stale = (entry[o].stale \/ forced)
                 \/ /\ ~Trusted /\ index' = NoValue /\ entry'[o] = staleEntry
                    /\ Overlap \/ Alone(c)
                    /\ ~Live(o, index, [dl EXCEPT ![c] = NoDownload])
                    /\ \A p \in Obj \ {o} : Live(p, NoValue, dl') => entry'[p] = entry[p]
<1>0. entry \in [Obj -> MetaEntry] /\ index \in OrNone(Obj) /\ dl \in [Caller -> Download]
  BY DEF TInv, TypeOK
<1>1. ASSUME NEW forced \in BOOLEAN, Trusted,
             dl' = [dl EXCEPT ![c] = AtRest("NotStarted", index)], index' = index,
             entry' = Kept([entry EXCEPT ![index].current = TRUE, ![index].stale = @ \/ forced],
                           index, dl')
      PROVE  /\ entry' \in [Obj -> MetaEntry] /\ index \in Obj
             /\ entry'[index].md5 = entry[index].md5 /\ entry'[index].etag = entry[index].etag
             /\ entry'[index].stale = (entry[index].stale \/ forced)
             /\ \A p \in Obj \ {index} : Live(p, index, dl') => entry'[p] = entry[p]
  <2> DEFINE n == [entry[index] EXCEPT !.current = TRUE, !.stale = @ \/ forced]
             e == [entry EXCEPT ![index].current = TRUE, ![index].stale = @ \/ forced]
  <2>1. index \in Obj
    BY <1>0, <1>1 DEF Trusted, OrNone
  <2>2. n \in MetaEntry /\ n.md5 = entry[index].md5 /\ n.etag = entry[index].etag
        /\ n.stale = (entry[index].stale \/ forced)
    BY <1>0, <2>1 DEF MetaEntry
  <2>3. e = [entry EXCEPT ![index] = n]
    BY <1>0, <2>1
  <2> HIDE DEF n
  <2>4. e \in [Obj -> MetaEntry] /\ e[index] = n /\ \A p \in Obj \ {index} : e[p] = entry[p]
    BY <1>0, <2>1, <2>2, <2>3
  <2>5. entry' = Kept(e, index, dl')
    BY <1>1
  <2> HIDE DEF e
  <2>6. Live(index, index, dl')
    BY DEF Live
  <2> QED
    BY <2>1, <2>2, <2>4, <2>5, <2>6, KeptTyped
<1>2. ASSUME ~Trusted, NEW o \in Obj, dl' = [dl EXCEPT ![c] = AtRest("NotStarted", o)],
             entry' = Kept([entry EXCEPT ![o] = staleEntry], NoValue, dl')
      PROVE  /\ entry' \in [Obj -> MetaEntry] /\ entry'[o] = staleEntry
             /\ \A p \in Obj \ {o} : Live(p, NoValue, dl') => entry'[p] = entry[p]
  <2> DEFINE e == [entry EXCEPT ![o] = staleEntry]
  <2>1. staleEntry \in MetaEntry
    BY DEF staleEntry, MetaEntry, OrNone
  <2>2. e \in [Obj -> MetaEntry] /\ e[o] = staleEntry /\ \A p \in Obj \ {o} : e[p] = entry[p]
    BY <1>0, <2>1
  <2>3. dl'[c].entry = o
    BY <1>0, <1>2 DEF AtRest
  <2>4. Live(o, NoValue, dl')
    BY <2>3 DEF Live
  <2>5. entry' = Kept(e, NoValue, dl')
    BY <1>2
  <2> HIDE DEF e
  <2> QED
    BY <2>2, <2>4, <2>5, KeptTyped
<1> QED
  BY <1>1, <1>2 DEF resolveEntry

LEMMA ExtractTyped ==
  ASSUME TInv, NEW c \in Caller, extractFailed(c)
  PROVE  /\ entry' \in [Obj -> MetaEntry] /\ saved' \in OrNone(MetaEntry)
         /\ dl' = [dl EXCEPT ![c] = NoDownload] /\ index' = index /\ server' = server
         /\ dl[c].status = "Finished" /\ Alone(c)
         /\ \/ file' = NoValue /\ discarded' /\ saved' = SavedOutdated
            \/ file' = file /\ discarded' = discarded /\ saved' = saved
         /\ \A o \in Obj : Live(o, index, dl') =>
              /\ entry'[o].md5 = entry[o].md5 /\ entry'[o].etag = entry[o].etag
              /\ entry'[o].current => entry[o].current /\ file' = file
<1>0. entry \in [Obj -> MetaEntry] /\ saved \in OrNone(MetaEntry) /\ discarded \in BOOLEAN
  BY DEF TInv, TypeOK
<1>1. PICK removed \in BOOLEAN :
           /\ file' = IF removed THEN NoValue ELSE file
           /\ saved' = IF removed THEN SavedOutdated ELSE saved
           /\ discarded' = (removed \/ discarded)
           /\ entry' = Kept([(IF removed THEN Outdated ELSE entry)
                              EXCEPT ![dl[c].entry].stale = TRUE], index, dl')
  BY DEF extractFailed
<1> DEFINE b == IF removed THEN Outdated ELSE entry
           e == [b EXCEPT ![dl[c].entry].stale = TRUE]
<1>2. /\ b \in [Obj -> MetaEntry] /\ SavedOutdated \in OrNone(MetaEntry)
      /\ \A o \in Obj : /\ b[o].md5 = entry[o].md5 /\ b[o].etag = entry[o].etag
                        /\ b[o].current => entry[o].current /\ ~removed
  BY <1>0, OutdatedTyped DEF TInv
<1>3. entry' = Kept(e, index, dl')
  BY <1>1
<1> HIDE DEF b
<1>4. /\ e \in [Obj -> MetaEntry]
      /\ \A o \in Obj : e[o].md5 = b[o].md5 /\ e[o].etag = b[o].etag /\ e[o].current = b[o].current
  BY <1>2 DEF MetaEntry
<1> HIDE DEF e
<1>5. entry' \in [Obj -> MetaEntry] /\ \A o \in Obj : Live(o, index, dl') => entry'[o] = e[o]
  BY <1>3, <1>4, KeptTyped
<1>6. \A o \in Obj : Live(o, index, dl') =>
        /\ entry'[o].md5 = entry[o].md5 /\ entry'[o].etag = entry[o].etag
        /\ entry'[o].current => entry[o].current /\ file' = file
  BY <1>1, <1>2, <1>4, <1>5
<1>7. \/ file' = NoValue /\ discarded' /\ saved' = SavedOutdated
      \/ file' = file /\ discarded' = discarded /\ saved' = saved
  BY <1>0, <1>1
<1> QED
  BY <1>0, <1>2, <1>5, <1>6, <1>7 DEF extractFailed

\* The program as it starts for the first time.
LEMMA InitTInv == Init => TInv
<1> SUFFICES ASSUME Init PROVE TInv
  OBVIOUS
<1>1. NoDownload \in Download /\ Good(NoDownload)
  BY NoDownloadGood DEF Good
<1>2. staleEntry \in MetaEntry
  BY DEF staleEntry, MetaEntry, OrNone
<1> QED
  BY <1>1, <1>2 DEF Init, TInv, TypeOK, OrNone

\* One caller's download is replaced.
LEMMA ReplaceGood ==
  ASSUME TInv, NEW c \in Caller, NEW y, Good(y), dl' = [dl EXCEPT ![c] = y]
  PROVE  (dl \in [Caller -> Download])' /\ \A b \in Caller : Good(dl'[b])
BY DEF TInv, TypeOK, Good

LEMMA NextTInv == TInv /\ [Next]_vars => TInv'
<1> SUFFICES ASSUME TInv, [Next]_vars PROVE TInv'
  OBVIOUS
<1>0. TypeOK /\ \A c \in Caller : Good(dl[c])
  BY DEF TInv
<1>1. CASE UNCHANGED vars
  BY <1>0, <1>1 DEF vars, TInv, TypeOK
<1>2. CASE SaveNow
  <2>1. saved' \in OrNone(MetaEntry)
    BY <1>0, <1>2 DEF SaveNow, TypeOK, OrNone
  <2> QED
    BY <1>0, <1>2, <2>1 DEF SaveNow, TInv, TypeOK
<1>3. CASE ServerChanges
  BY <1>0, <1>3 DEF ServerChanges, TInv, TypeOK
<1>4. CASE Crash
  <2>1. (dl \in [Caller -> Download])' /\ \A c \in Caller : Good(dl'[c])
    BY <1>4, NoDownloadGood DEF Crash, Good
  <2>2. staleEntry \in MetaEntry
    BY DEF staleEntry, MetaEntry, OrNone
  <2>3. entry' \in [Obj -> MetaEntry] /\ index' \in OrNone(Obj)
    BY <1>0, <1>4, <2>2 DEF Crash, TypeOK, OrNone
  <2> QED
    BY <1>0, <1>4, <2>1, <2>3 DEF Crash, TInv, TypeOK
<1>5. ASSUME NEW c \in Caller, resolveEntry(c) PROVE TInv'
  <2>1. PICK o \in Obj : dl' = [dl EXCEPT ![c] = AtRest("NotStarted", o)]
    BY <1>5, ResolveTyped
  <2>2. Good(AtRest("NotStarted", o))
    BY AtRestGood DEF Status, OrNone
  <2>3. (dl \in [Caller -> Download])' /\ \A b \in Caller : Good(dl'[b])
    BY <2>1, <2>2, ReplaceGood
  <2>4. entry' \in [Obj -> MetaEntry] /\ index' \in OrNone(Obj)
    BY <1>0, <1>5, ResolveTyped DEF TypeOK, OrNone
  <2> QED
    BY <1>0, <1>5, <2>3, <2>4 DEF resolveEntry, TInv, TypeOK
<1>6. ASSUME NEW c \in Caller, Talks(c) PROVE TInv'
  <2>1. (dl \in [Caller -> Download])' /\ \A b \in Caller : Good(dl'[b])
    BY <1>6, ReplaceGood DEF Talks, Goes
  <2> QED
    BY <1>0, <1>6, <2>1 DEF Talks, TInv, TypeOK
<1>7. ASSUME NEW c \in Caller, Ends(c) PROVE TInv'
  <2>1. PICK y : /\ Good(y) /\ y.reply \in Reply /\ y.entry \in Obj
                 /\ commitBody(c, y) \/ keepLocal(c, y)
    BY <1>7 DEF Ends
  <2>2. y.entry # NoValue /\ server' = server
    BY <1>7, <2>1, NoValueAssumption DEF Ends
  <2>3. Good(AtRest("Finished", y.entry))
    BY <2>1, <2>2, AtRestGood DEF Status, OrNone
  <2>4. CASE commitBody(c, y)
    <3>1. /\ file' = stored(y) /\ file' \in Content /\ saved' = SavedOutdated
          /\ discarded' = FALSE /\ finalizeCache(c, y, file', Outdated)
      BY <2>1, <2>4, StoredTyped DEF commitBody
    <3>2. Outdated \in [Obj -> MetaEntry] /\ SavedOutdated \in OrNone(MetaEntry)
      BY <1>0, OutdatedTyped
    <3>3. /\ dl' = [dl EXCEPT ![c] = AtRest("Finished", y.entry)]
          /\ index' = y.entry /\ entry' \in [Obj -> MetaEntry]
      BY <2>1, <3>1, <3>2, FinalizeTyped
    <3>4. (dl \in [Caller -> Download])' /\ \A b \in Caller : Good(dl'[b])
      BY <2>3, <3>3, ReplaceGood
    <3> QED
      BY <1>0, <2>1, <2>2, <3>1, <3>2, <3>3, <3>4 DEF TInv, TypeOK, OrNone
  <2>5. CASE keepLocal(c, y)
    <3>1. /\ ~y.wroteAnyData /\ UNCHANGED <<saved, file, discarded>>
          /\ finalizeCache(c, y, file, entry) /\ entry \in [Obj -> MetaEntry]
      BY <1>0, <2>5 DEF keepLocal, TypeOK
    <3>2. /\ dl' = [dl EXCEPT ![c] = AtRest("Finished", y.entry)]
          /\ index' = y.entry /\ entry' \in [Obj -> MetaEntry]
      BY <2>1, <3>1, FinalizeTyped
    <3>3. (dl \in [Caller -> Download])' /\ \A b \in Caller : Good(dl'[b])
      BY <2>3, <3>2, ReplaceGood
    <3> QED
      BY <1>0, <2>1, <2>2, <3>1, <3>2, <3>3 DEF TInv, TypeOK, OrNone
  <2> QED
    BY <2>1, <2>4, <2>5
<1>8. ASSUME NEW c \in Caller, extractFailed(c) PROVE TInv'
  <2>1. (dl \in [Caller -> Download])' /\ \A b \in Caller : Good(dl'[b])
    BY <1>8, ExtractTyped, NoDownloadGood, ReplaceGood
  <2>2. entry' \in [Obj -> MetaEntry] /\ saved' \in OrNone(MetaEntry)
        /\ index' = index /\ server' = server /\ file' \in {NoValue, file}
        /\ discarded' \in BOOLEAN
    BY <1>0, <1>8, ExtractTyped DEF extractFailed
  <2> QED
    BY <1>0, <2>1, <2>2 DEF TInv, TypeOK, OrNone
<1> QED
  BY <1>1, <1>2, <1>3, <1>4, <1>5, <1>6, <1>7, <1>8, Steps

\* Downloads, the entries of the cache on the heap and on disk, and the file have the
\* values the code can give them.
THEOREM TypeCorrect == Spec => []TypeOK
<1>1. TInv => TypeOK
  BY DEF TInv
<1> QED
  BY <1>1, InitTInv, NextTInv, PTL DEF Spec

\* An aborted download stays aborted, through a redirect and a retry, and stores nothing:
\* it is over only when its caller resolves anew or the program dies.
THEOREM AbortSticksHolds == Spec => AbortSticks
<1>1. ASSUME TInv, [Next]_vars
      PROVE  [\A c \in Caller : dl[c].status = "Aborted" =>
                /\ dl'[c].status \in {"Aborted", "NotStarted"}
                /\ dl'[c].status = "NotStarted" => UNCHANGED file]_vars
  <2> SUFFICES ASSUME Next, NEW c \in Caller, dl[c].status = "Aborted"
               PROVE  /\ dl'[c].status \in {"Aborted", "NotStarted"}
                      /\ dl'[c].status = "NotStarted" => UNCHANGED file
    BY <1>1
  <2>0. dl \in [Caller -> Download]
    BY <1>1 DEF TInv, TypeOK
  <2>1. CASE SaveNow \/ ServerChanges
    BY <2>1 DEF SaveNow, ServerChanges
  <2>2. CASE Crash
    BY <2>2, NoDownloadGood DEF Crash
  <2>3. ASSUME NEW b \in Caller, resolveEntry(b)
        PROVE  /\ dl'[c].status \in {"Aborted", "NotStarted"}
               /\ dl'[c].status = "NotStarted" => UNCHANGED file
    <3>1. file' = file /\ \E o \in Obj : dl' = [dl EXCEPT ![b] = AtRest("NotStarted", o)]
      BY <1>1, <2>3, ResolveTyped DEF resolveEntry
    <3> QED
      BY <2>0, <3>1 DEF AtRest
  <2>4. ASSUME NEW b \in Caller, Talks(b)
        PROVE  dl'[c].status = "Aborted"
    BY <2>0, <2>4 DEF Talks, Goes
  <2>5. ASSUME NEW b \in Caller, Ends(b)
        PROVE  dl'[c].status = "Aborted"
    BY <2>0, <2>5 DEF Ends, commitBody, keepLocal, finalizeCache
  <2>6. ASSUME NEW b \in Caller, extractFailed(b)
        PROVE  dl'[c].status = "Aborted"
    BY <2>0, <2>6 DEF extractFailed
  <2> QED
    BY <1>1, <2>1, <2>2, <2>3, <2>4, <2>5, <2>6, Steps
<1> QED
  BY <1>1, InitTInv, NextTInv, PTL DEF Spec, AbortSticks

-----------------------------------------------------------------------------
(* No part is stored as the whole.                                         *)

\* A body that passes finalize() is a good one, and whole if its length was promised.
LEMMA StoredWhole ==
  ASSUME ~MayBeEmpty, NEW y, Good(y), y.status = "InProgress", MayCommit(y),
         gotFile(y) \/ y.wroteAnyData,
         gotFile(y) /\ ~y.wroteAnyData /\ y.output_file # NoValue => MayBeEmpty
  PROVE  /\ y.wroteAnyData /\ stored(y).code = "got"
         /\ stored(y).promised => stored(y).size = Size
<1>1. y.wroteAnyData /\ y.output_file # NoValue
  BY DEF MayCommit
<1> QED
  BY <1>1 DEF MayCommit, Complete, Carries, stored, Good

LEMMA NextWhole ==
  ASSUME ~MayBeEmpty, TInv, OnlyWholeBodies, [Next]_vars
  PROVE  OnlyWholeBodies'
<1>1. ASSUME file' \in {file, NoValue} PROVE OnlyWholeBodies'
  BY <1>1 DEF OnlyWholeBodies
<1>2. ASSUME NEW c \in Caller, Ends(c) PROVE OnlyWholeBodies'
  BY <1>1, <1>2, StoredWhole DEF Ends, commitBody, keepLocal, OnlyWholeBodies
<1> QED
  BY <1>1, <1>2, Steps
  DEF SaveNow, Crash, ServerChanges, resolveEntry, Talks, extractFailed, vars

\* What is stored is no error's text, and is whole whenever the server said how long it
\* is, provided that a transfer does not look finished before its first byte.
THEOREM OnlyWholeBodiesHolds == ASSUME ~MayBeEmpty PROVE Spec => []OnlyWholeBodies
<1>1. Init => OnlyWholeBodies
  BY DEF Init, OnlyWholeBodies
<1>2. TInv /\ OnlyWholeBodies /\ [Next]_vars => OnlyWholeBodies'
  BY NextWhole
<1> QED
  BY <1>1, <1>2, InitTInv, NextTInv, PTL DEF Spec

-----------------------------------------------------------------------------
(* What has been discarded is fetched again.                               *)

Holds304(x) == x.status # "Aborted" /\ x.reply # NoValue /\ x.reply.code = "notModified"

\* With the file thrown away, every download that may still end knows that its entry is
\* stale, and none was told that the local copy stands.
DInv == discarded => /\ file = NoValue
                     /\ \A c \in Caller : /\ Waiting(dl[c]) => entry[dl[c].entry].stale
                                          /\ ~Holds304(dl[c])

\* The values of the parts, as the steps below use them.
LEMMA Parts ==
  ASSUME TInv
  PROVE  /\ dl \in [Caller -> Download] /\ entry \in [Obj -> MetaEntry]
         /\ index \in OrNone(Obj) /\ saved \in OrNone(MetaEntry) /\ file \in OrNone(Content)
         /\ server \in Version /\ discarded \in BOOLEAN
         /\ \A c \in Caller : /\ Good(dl[c]) /\ dl[c].entry \in OrNone(Obj)
                              /\ Waiting(dl[c]) => dl[c].entry \in Obj
                              /\ dl[c].status \in Status
BY DownloadFields DEF TInv, TypeOK, Good, Waiting, OrNone

\* Where nobody but c is about to fetch the file, no other download may still end.
LEMMA AloneIdle ==
  ASSUME TInv, NEW c \in Caller, Alone(c), NEW b \in Caller \ {c}
  PROVE  ~Waiting(dl[b]) /\ ~Holds304(dl[b])
<1>1. Good(dl[b])
  BY DEF TInv
<1> QED
  BY <1>1 DEF Alone, Waiting, Good, Holds304

\* A download without a file has no 304 and succeeds by no other way than a body.
LEMMA NextDiscarded ==
  ASSUME TInv, DInv, [Next]_vars
  PROVE  /\ DInv'
         /\ discarded' => \A c \in Caller :
              dl'[c].status = "Finished" => dl[c].status = "Finished"
<1> DEFINE Idle(d) == \A c \in Caller : d[c].status = "Finished" => dl[c].status = "Finished"
<1>0. /\ dl \in [Caller -> Download] /\ entry \in [Obj -> MetaEntry]
      /\ \A c \in Caller : Good(dl[c]) /\ (Waiting(dl[c]) => dl[c].entry \in Obj)
  BY Parts
<1>d. ASSUME discarded
      PROVE  /\ file = NoValue
             /\ \A c \in Caller : /\ Waiting(dl[c]) => entry[dl[c].entry].stale
                                  /\ ~Holds304(dl[c])
  BY <1>d DEF DInv
<1>1. CASE UNCHANGED vars \/ SaveNow \/ ServerChanges
  BY <1>1 DEF vars, SaveNow, ServerChanges, DInv, Waiting, Holds304
<1>2. CASE Crash
  <2>1. \A c \in Caller : /\ dl'[c].entry = NoValue /\ dl'[c].reply = NoValue
                          /\ dl'[c].status = "NotStarted"
    BY <1>2, NoDownloadGood DEF Crash
  <2> QED
    BY <1>2, <1>d, <2>1 DEF Crash, DInv, Waiting, Holds304
<1>3. ASSUME NEW c \in Caller, resolveEntry(c)
      PROVE  DInv' /\ (discarded' => Idle(dl'))
  <2>0. SUFFICES ASSUME discarded' PROVE DInv' /\ Idle(dl')
    BY DEF DInv
  <2>1. discarded /\ file' = NoValue /\ ~Trusted
    BY <1>3, <1>d, <2>0 DEF resolveEntry, Trusted
  <2>2. PICK o \in Obj : /\ dl' = [dl EXCEPT ![c] = AtRest("NotStarted", o)]
                         /\ entry'[o] = staleEntry
                         /\ \A p \in Obj \ {o} : Live(p, NoValue, dl') => entry'[p] = entry[p]
    BY <1>3, <2>1, ResolveTyped
  <2>3. dl'[c].entry = o /\ dl'[c].reply = NoValue /\ dl'[c].status = "NotStarted"
    BY <1>0, <2>2 DEF AtRest
  <2>4. ASSUME NEW b \in Caller
        PROVE  /\ Waiting(dl'[b]) => entry'[dl'[b].entry].stale
               /\ ~Holds304(dl'[b])
    <3>1. staleEntry.stale
      BY DEF staleEntry
    <3>2. CASE b = c
      BY <2>2, <2>3, <3>1, <3>2 DEF Holds304
    <3>3. CASE b # c
      <4>1. dl'[b] = dl[b]
        BY <1>0, <2>2, <3>3
      <4>2. ASSUME Waiting(dl[b]) PROVE entry'[dl[b].entry].stale
        <5>1. dl[b].entry \in Obj /\ Live(dl[b].entry, NoValue, dl') /\ entry[dl[b].entry].stale
          BY <1>0, <1>d, <2>1, <4>1, <4>2 DEF Live
        <5> QED
          BY <2>2, <3>1, <5>1
      <4> QED
        BY <1>d, <2>1, <4>1, <4>2
    <3> QED
      BY <3>2, <3>3
  <2>5. Idle(dl')
    BY <1>0, <2>2, <2>3
  <2> QED
    BY <2>1, <2>4, <2>5 DEF DInv, Waiting, Holds304
<1>4. ASSUME NEW c \in Caller, Talks(c)
      PROVE  DInv' /\ (discarded' => Idle(dl'))
  <2>0. SUFFICES ASSUME discarded' PROVE DInv' /\ Idle(dl')
    BY DEF DInv
  <2>1. PICK y : Goes(dl[c], y) /\ dl' = [dl EXCEPT ![c] = y]
    BY <1>4 DEF Talks
  <2>2. discarded /\ file' = file /\ entry' = entry /\ file = NoValue
    BY <1>4, <1>d, <2>0 DEF Talks
  <2>3. dl'[c] = y /\ \A b \in Caller \ {c} : dl'[b] = dl[b]
    BY <1>0, <2>1
  <2>4. Waiting(y) => Waiting(dl[c])
    BY <2>1 DEF Goes, Waiting
  <2>5. ~Holds304(y)
    <3>1. CASE y.status \in {"InProgress", "Failed"}
      BY <1>d, <2>1, <2>2, <3>1 DEF Goes, Holds304, Replies, hasLocalData
    <3>2. CASE y.status \notin {"InProgress", "Failed"}
      BY <2>1, <3>2 DEF Goes, Good, Holds304
    <3> QED
      BY <3>1, <3>2
  <2>6. y.status # "Finished"
    <3>1. ASSUME y.status = "Finished" PROVE FALSE
      <4>1. Waiting(dl[c]) /\ ~entry[dl[c].entry].stale
        BY <2>1, <3>1 DEF Goes, Good, Waiting
      <4> QED
        BY <1>d, <2>2, <4>1
    <3> QED
      BY <3>1
  <2>7. \A b \in Caller : /\ Waiting(dl'[b]) => entry'[dl'[b].entry].stale
                          /\ ~Holds304(dl'[b])
    BY <1>d, <2>1, <2>2, <2>3, <2>4, <2>5 DEF Goes
  <2> QED
    BY <2>2, <2>3, <2>6, <2>7 DEF DInv, Waiting, Holds304
<1>5. ASSUME NEW c \in Caller, Ends(c)
      PROVE  DInv' /\ ~discarded'
  <2>1. ~discarded'
    <3>1. PICK y : /\ dl[c].status = "InProgress"
                   /\ y.reply = dl[c].reply /\ y.reply # NoValue
                   /\ commitBody(c, y) \/ keepLocal(c, y)
      BY <1>5 DEF Ends
    <3>2. CASE commitBody(c, y)
      BY <3>2 DEF commitBody
    <3>3. CASE keepLocal(c, y)
      BY <1>d, <3>1, <3>3 DEF keepLocal, Holds304
    <3> QED
      BY <3>1, <3>2, <3>3
  <2> QED
    BY <2>1 DEF DInv
<1>6. ASSUME NEW c \in Caller, extractFailed(c)
      PROVE  DInv' /\ (discarded' => Idle(dl'))
  <2>1. dl' = [dl EXCEPT ![c] = NoDownload] /\ Alone(c) /\ file # NoValue
    BY <1>6 DEF extractFailed
  <2>2. dl'[c] = NoDownload /\ \A b \in Caller \ {c} : dl'[b] = dl[b]
    BY <1>0, <2>1
  <2>3. \A b \in Caller : ~Waiting(dl'[b]) /\ ~Holds304(dl'[b])
    BY <2>1, <2>2, AloneIdle, NoDownloadGood DEF Waiting, Holds304
  <2>4. discarded' => file' = NoValue
    BY <1>6, <1>d, <2>1, ExtractTyped
  <2>5. Idle(dl')
    BY <2>2, NoDownloadGood
  <2> QED
    BY <2>3, <2>4, <2>5 DEF DInv, Waiting, Holds304
<1> QED
  BY <1>1, <1>2, <1>3, <1>4, <1>5, <1>6, Steps, NoDownloadGood
  DEF vars, SaveNow, ServerChanges, Crash

\* Once a damaged archive has been thrown away, no download of it succeeds before it has
\* got the body again, whatever else the callers, the server and crashes do.
THEOREM DiscardedIsFetchedAgainHolds == Spec => DiscardedIsFetchedAgain
<1>1. Init => DInv
  BY DEF Init, DInv
<1>2. TInv /\ DInv /\ [Next]_vars => DInv'
  BY NextDiscarded
<1>3. ASSUME TInv, DInv, [Next]_vars
      PROVE  [discarded' => \A c \in Caller :
                dl'[c].status = "Finished" => dl[c].status = "Finished"]_vars
  BY <1>3, NextDiscarded
<1> QED
  BY <1>1, <1>2, <1>3, InitTInv, NextTInv, PTL DEF Spec, DiscardedIsFetchedAgain

-----------------------------------------------------------------------------
(* The cache never trusts an entry that is not about the file.             *)

Known(e) == file # NoValue /\ e.md5 = hash(file)

\* Those who may still fetch the file share one entry, the one in the cache if there is
\* one; whenever it has an ETag to send, it is about the file that is there, so that a 304
\* says so as well.  The timestamps in the cache and on disk vouch for the file they know.
Shares(c) == /\ index \in {NoValue, dl[c].entry}
             /\ \A b \in Caller : Waiting(dl[b]) => dl[b].entry = dl[c].entry
             /\ entry[dl[c].entry].etag # NoValue => Known(entry[dl[c].entry])
             /\ Holds304(dl[c]) => entry[dl[c].entry].etag # NoValue
OneEntry == \A c \in Caller : Waiting(dl[c]) => Shares(c)
Vouches(e) == e.current => Known(e)
FInv == /\ OneEntry
        /\ index # NoValue => Vouches(entry[index])
        /\ saved # NoValue => Vouches(saved)

LEMMA NextFresh ==
  ASSUME ~MayBeEmpty, ~Overlap, TInv, FInv, [Next]_vars
  PROVE  FInv'
<1>0. /\ dl \in [Caller -> Download] /\ entry \in [Obj -> MetaEntry] /\ server \in Version
      /\ index \in OrNone(Obj) /\ saved \in OrNone(MetaEntry)
      /\ \A c \in Caller : Good(dl[c]) /\ (Waiting(dl[c]) => dl[c].entry \in Obj)
  BY Parts
<1>f. /\ \A c \in Caller : Waiting(dl[c]) => Shares(c)
      /\ index # NoValue => Vouches(entry[index])
      /\ saved # NoValue => Vouches(saved)
  BY DEF FInv, OneEntry
<1>n. staleEntry.etag = NoValue /\ ~staleEntry.current
  BY DEF staleEntry
<1>1. CASE UNCHANGED vars \/ ServerChanges
  BY <1>1, <1>f
  DEF vars, ServerChanges, FInv, OneEntry, Shares, Vouches, Known, Holds304, Waiting
<1>2. CASE SaveNow
  <2>1. saved' # NoValue => index # NoValue /\ saved' = entry[index]
    BY <1>2 DEF SaveNow
  <2>2. (saved # NoValue => Vouches(saved))'
    BY <1>2, <1>f, <2>1 DEF SaveNow, Vouches, Known
  <2> QED
    BY <1>2, <1>f, <2>2
    DEF SaveNow, FInv, OneEntry, Shares, Vouches, Known, Holds304, Waiting
<1>3. CASE Crash
  <2>1. \A c \in Caller : ~Waiting(dl'[c])
    BY <1>3, NoDownloadGood DEF Crash, Waiting
  <2>2. (index # NoValue => Vouches(entry[index]))'
    BY <1>3, <1>f DEF Crash, Vouches, Known
  <2> QED
    BY <1>3, <1>f, <2>1, <2>2 DEF Crash, FInv, OneEntry, Waiting, Vouches, Known
<1>4. ASSUME NEW c \in Caller, resolveEntry(c)
      PROVE  FInv'
  <2>1. file' = file /\ saved' = saved
    BY <1>4 DEF resolveEntry
  <2>2. CASE /\ Trusted /\ index \in Obj /\ index' = index
             /\ dl' = [dl EXCEPT ![c] = AtRest("NotStarted", index)]
             /\ entry'[index].md5 = entry[index].md5 /\ entry'[index].etag = entry[index].etag
    <3>1. index # NoValue /\ (Known(entry[index]))'
      BY <1>f, <2>1, <2>2 DEF Trusted, Vouches, Known
    <3>2. /\ dl'[c].entry = index /\ ~Holds304(dl'[c])
          /\ \A b \in Caller \ {c} : dl'[b] = dl[b]
      BY <1>0, <2>2 DEF AtRest, Holds304
    <3>3. \A b \in Caller : Waiting(dl'[b]) => dl'[b].entry = index
      BY <1>f, <3>1, <3>2 DEF Shares
    <3>4. \A b \in Caller : Waiting(dl'[b]) /\ Holds304(dl'[b]) => entry'[index].etag # NoValue
      BY <1>f, <2>2, <3>2, <3>3 DEF Shares
    <3>5. OneEntry'
      BY <2>2, <3>1, <3>3, <3>4 DEF OneEntry, Shares, Waiting, Holds304
    <3> QED
      BY <1>f, <2>1, <2>2, <3>1, <3>5 DEF FInv, Vouches, Known
  <2>3. ASSUME NEW o \in Obj, Alone(c), dl' = [dl EXCEPT ![c] = AtRest("NotStarted", o)],
               index' = NoValue, entry'[o] = staleEntry
        PROVE  FInv'
    <3>1. /\ dl'[c].entry = o /\ ~Holds304(dl'[c])
          /\ \A b \in Caller \ {c} : dl'[b] = dl[b]
      BY <1>0, <2>3 DEF AtRest, Holds304
    <3>2. \A b \in Caller : Waiting(dl'[b]) => b = c
      BY <2>3, <3>1, AloneIdle
    <3>3. OneEntry'
      BY <1>n, <2>3, <3>1, <3>2 DEF OneEntry, Shares, Waiting, Holds304
    <3> QED
      BY <1>f, <2>1, <2>3, <3>3 DEF FInv, Vouches, Known
  <2> QED
    BY <1>4, <2>2, <2>3, ResolveTyped DEF Trusted, OrNone
<1>5. ASSUME NEW c \in Caller, Talks(c)
      PROVE  FInv'
  <2>1. PICK y : Goes(dl[c], y) /\ dl' = [dl EXCEPT ![c] = y]
    BY <1>5 DEF Talks
  <2>2. UNCHANGED <<entry, index, saved, file>>
    BY <1>5 DEF Talks
  <2>3. dl'[c] = y /\ \A b \in Caller \ {c} : dl'[b] = dl[b]
    BY <1>0, <2>1
  <2>4. y.entry = dl[c].entry /\ (Waiting(y) => Waiting(dl[c]))
    BY <2>1 DEF Goes, Waiting
  <2>5. ASSUME Waiting(y), Holds304(y) PROVE entry[dl[c].entry].etag # NoValue
    <3>1. Waiting(dl[c]) /\ y.reply \in {dl[c].reply, NoValue} \cup Replies(dl[c])
      BY <2>1, <2>4, <2>5 DEF Goes
    <3>2. CASE y.reply = dl[c].reply
      BY <1>f, <2>5, <3>1, <3>2 DEF Holds304, Shares, Waiting
    <3>3. CASE y.reply \in Replies(dl[c])
      <4>1. entry[dl[c].entry].etag = server
        BY <2>5, <3>3 DEF Holds304, Replies
      <4> QED
        BY <1>0, <4>1, NoValueAssumption
    <3> QED
      BY <2>5, <3>1, <3>2, <3>3 DEF Holds304
  <2>6. \A b \in Caller : /\ dl'[b].entry = dl[b].entry
                          /\ Waiting(dl'[b]) => Waiting(dl[b])
                          /\ Waiting(dl'[b]) /\ Holds304(dl'[b]) =>
                               entry[dl[b].entry].etag # NoValue
    BY <1>f, <2>3, <2>4, <2>5 DEF Shares
  <2>7. OneEntry'
    BY <1>f, <2>2, <2>6 DEF OneEntry, Shares, Waiting, Holds304, Known
  <2> QED
    BY <1>f, <2>2, <2>7 DEF FInv, Vouches, Known
<1>6. ASSUME NEW c \in Caller, Ends(c)
      PROVE  FInv'
  <2>1. PICK y : /\ Good(y) /\ y.entry = dl[c].entry /\ y.reply = dl[c].reply
                 /\ y.status = "InProgress" /\ dl[c].status = "InProgress"
                 /\ y.reply \in Reply /\ y.reply # NoValue /\ y.entry \in Obj
                 /\ gotFile(y) /\ ~y.wroteAnyData /\ y.output_file # NoValue => MayBeEmpty
                 /\ commitBody(c, y) \/ keepLocal(c, y)
    BY <1>6 DEF Ends
  <2> DEFINE o == y.entry
  <2>2. Waiting(dl[c]) /\ o # NoValue
    BY <1>6, <2>1, NoValueAssumption DEF Ends, Waiting
  <2>3. y.reply.ver # NoValue
    BY <2>1, NoValueAssumption DEF Reply
  <2>4. ASSUME dl' = [dl EXCEPT ![c] = AtRest("Finished", o)], index' = o,
               (Known(entry[o]))', entry'[o].etag # NoValue
        PROVE  /\ OneEntry'
               /\ (index # NoValue => Vouches(entry[index]))'
    <3>1. ~Waiting(dl'[c]) /\ \A b \in Caller \ {c} : dl'[b] = dl[b]
      BY <1>0, <2>4 DEF AtRest, Waiting
    <3>2. \A b \in Caller : Waiting(dl'[b]) => dl'[b].entry = o
      BY <1>f, <2>1, <2>2, <3>1 DEF Shares
    <3>3. OneEntry'
      BY <2>4, <3>2 DEF OneEntry, Shares, Waiting
    <3> QED
      BY <2>4, <3>3 DEF Vouches
  <2>5. CASE commitBody(c, y)
    <3>1. y.wroteAnyData /\ stored(y) \in Content
      BY <2>1, <2>5, StoredWhole, StoredTyped DEF commitBody
    <3>2. /\ file' = stored(y) /\ saved' = SavedOutdated
          /\ finalizeCache(c, y, file', Outdated)
      BY <2>5 DEF commitBody
    <3>3. Outdated \in [Obj -> MetaEntry] /\ (SavedOutdated # NoValue => ~SavedOutdated.current)
      BY OutdatedTyped DEF TInv
    <3>4. /\ dl' = [dl EXCEPT ![c] = AtRest("Finished", o)] /\ index' = o
          /\ entry'[o] = [md5 |-> hash(file'), etag |-> y.reply.ver,
                          current |-> file' # NoValue, stale |-> FALSE]
      BY <2>1, <3>1, <3>2, <3>3, FinalizeTyped
    <3>5. file' # NoValue
      BY <3>1, <3>2, NoValueAssumption
    <3>6. (Known(entry[o]))' /\ entry'[o].etag # NoValue
      BY <2>3, <3>4, <3>5 DEF Known, hash
    <3> QED
      BY <2>4, <3>2, <3>3, <3>4, <3>6 DEF FInv, Vouches
  <2>6. CASE keepLocal(c, y)
    <3>1. /\ y.reply.code = "notModified" /\ ~y.wroteAnyData /\ saved' = saved /\ file' = file
          /\ finalizeCache(c, y, file, entry)
      BY <2>6 DEF keepLocal
    <3>2. /\ dl' = [dl EXCEPT ![c] = AtRest("Finished", o)] /\ index' = o
          /\ entry'[o] = [md5 |-> entry[o].md5, etag |-> y.reply.ver,
                          current |-> file # NoValue, stale |-> FALSE]
      <4>1. y.reply \in Reply /\ o \in Obj /\ Good(y) /\ entry \in [Obj -> MetaEntry]
        BY <1>0, <2>1
      <4> QED
        BY <3>1, <4>1, FinalizeTyped
    <3>3. Known(entry[o])
      BY <1>f, <2>1, <2>2, <3>1 DEF Shares, Holds304, Waiting
    <3>4. (Known(entry[o]))' /\ entry'[o].etag # NoValue
      BY <2>3, <3>1, <3>2, <3>3 DEF Known
    <3> QED
      BY <1>f, <2>4, <3>1, <3>2, <3>4 DEF FInv, Vouches, Known
  <2> QED
    BY <2>1, <2>5, <2>6
<1>7. ASSUME NEW c \in Caller, extractFailed(c)
      PROVE  FInv'
  <2>1. dl' = [dl EXCEPT ![c] = NoDownload] /\ Alone(c) /\ index' = index
    BY <1>7, ExtractTyped
  <2>2. \A b \in Caller : ~Waiting(dl'[b])
    BY <1>0, <2>1, AloneIdle, NoDownloadGood DEF Waiting
  <2>3. OneEntry'
    BY <2>2 DEF OneEntry, Waiting
  <2>4. ASSUME index # NoValue PROVE (Vouches(entry[index]))'
    <3>1. index \in Obj /\ Live(index, index, dl') /\ Vouches(entry[index])
      BY <1>0, <1>f, <2>4 DEF OrNone, Live
    <3>2. /\ entry'[index].md5 = entry[index].md5
          /\ entry'[index].current => entry[index].current /\ file' = file
      BY <1>7, <3>1, ExtractTyped
    <3> QED
      BY <2>1, <3>1, <3>2 DEF Vouches, Known
  <2>5. (saved # NoValue => Vouches(saved))'
    <3>1. SavedOutdated # NoValue => ~SavedOutdated.current
      BY OutdatedTyped DEF TInv
    <3>2. \/ saved' = SavedOutdated
          \/ file' = file /\ saved' = saved
      BY <1>7, ExtractTyped
    <3> QED
      BY <1>f, <3>1, <3>2 DEF Vouches, Known
  <2> QED
    BY <2>1, <2>3, <2>4, <2>5 DEF FInv
<1> QED
  BY <1>1, <1>2, <1>3, <1>4, <1>5, <1>6, <1>7, Steps

\* The entry that the cache, or the index on disk, would trust by its timestamp is about
\* the file that is there, through crashes, 304s and files that are thrown away, provided
\* that a transfer does not look finished before its first byte and that the fetches of a
\* file without a good entry do not overlap.
THEOREM FreshIsTrueHolds ==
  ASSUME ~MayBeEmpty, ~Overlap
  PROVE  Spec => []FreshIsTrue
<1>1. Init => FInv
  BY NoDownloadGood DEF Init, FInv, OneEntry, Waiting
<1>2. TInv /\ FInv /\ [Next]_vars => FInv'
  BY NextFresh
<1>3. FInv => FreshIsTrue
  BY DEF FInv, Vouches, Known, FreshIsTrue, Describes
<1> QED
  BY <1>1, <1>2, <1>3, InitTInv, NextTInv, PTL DEF Spec

-----------------------------------------------------------------------------
(***************************************************************************)
(* NetJob.                                                                 *)
(***************************************************************************)

(* Lemmas about queues without repetitions. *)

Items(q) == {q[i] : i \in DOMAIN q}
Distinct(q) == \A i, k \in DOMAIN q : q[i] = q[k] => i = k

\* A new item at the end of a queue.
LEMMA AppendItem ==
  ASSUME NEW q \in Seq(Part), NEW p \in Part, Distinct(q), p \notin Items(q)
  PROVE  /\ Append(q, p) \in Seq(Part)
         /\ Distinct(Append(q, p))
         /\ Items(Append(q, p)) = Items(q) \cup {p}
<1> DEFINE r == Append(q, p)
<1>1. /\ r \in Seq(Part)
      /\ DOMAIN r = 1..(Len(q) + 1)
      /\ \A i \in 1..Len(q) : r[i] = q[i]
      /\ r[Len(q) + 1] = p
  BY AppendProperties, LenProperties
<1>2. DOMAIN q = 1..Len(q) /\ Len(q) \in Nat
  BY LenProperties
<1>3. \A i \in DOMAIN r : i \in DOMAIN q \/ i = Len(q) + 1
  BY <1>1, <1>2
<1>3a. DOMAIN q \subseteq DOMAIN r /\ Len(q) + 1 \in DOMAIN r
  BY <1>1, <1>2
<1> HIDE DEF r
<1>4. \A i \in DOMAIN q : r[i] = q[i]
  BY <1>1, <1>2
<1>5. Distinct(r)
  BY <1>1, <1>3, <1>4 DEF Distinct, Items
<1>6. Items(r) = Items(q) \cup {p}
  BY <1>1, <1>3, <1>3a, <1>4 DEF Items
<1> QED
  BY <1>1, <1>5, <1>6 DEF r

\* The head of a queue leaves it.
LEMMA TakeHead ==
  ASSUME NEW q \in Seq(Part), Distinct(q), q # <<>>
  PROVE  /\ Head(q) \in Items(q) /\ Head(q) \in Part
         /\ Tail(q) \in Seq(Part)
         /\ Distinct(Tail(q))
         /\ Items(Tail(q)) = Items(q) \ {Head(q)}
<1> DEFINE r == Tail(q)
<1>1. /\ Head(q) = q[1] /\ q[1] \in Part
      /\ r \in Seq(Part) /\ DOMAIN r = 1..(Len(q) - 1)
      /\ \A i \in 1..(Len(q) - 1) : r[i] = q[i + 1]
  BY HeadTailProperties, LenProperties, ElementOfSeq, EmptySeq
<1>2. DOMAIN q = 1..Len(q) /\ Len(q) \in Nat \ {0}
  BY LenProperties, EmptySeq
<1>3. 1 \in DOMAIN q /\ \A i \in DOMAIN r : i + 1 \in DOMAIN q /\ i + 1 # 1
  BY <1>1, <1>2
<1>4. \A i \in DOMAIN q : i # 1 => i - 1 \in DOMAIN r /\ (i - 1) + 1 = i
  BY <1>1, <1>2
<1>5. \A i \in DOMAIN r : r[i] = q[i + 1]
  BY <1>1
<1>6. \A i, k \in DOMAIN r : i + 1 = k + 1 => i = k
  BY <1>1, <1>2
<1> HIDE DEF r
<1>7. Distinct(r)
  BY <1>3, <1>5, <1>6 DEF Distinct
<1>8. Items(r) \subseteq Items(q) \ {q[1]}
  BY <1>3, <1>5 DEF Distinct, Items
<1>9. \A x \in Items(q) \ {q[1]} : x \in Items(r)
  <2> SUFFICES ASSUME NEW x \in Items(q), x # q[1]
               PROVE  x \in Items(r)
    OBVIOUS
  <2>1. PICK i \in DOMAIN q : x = q[i] /\ i # 1
    BY DEF Items
  <2>2. i - 1 \in DOMAIN r /\ r[i - 1] = q[i]
    BY <1>4, <1>5, <2>1
  <2> QED
    BY <2>1, <2>2 DEF Items
<1>10. q[1] \in Items(q)
  BY <1>3 DEF Items
<1> QED
  BY <1>1, <1>7, <1>8, <1>9, <1>10 DEF r

\* The empty queue.
LEMMA EmptyQueue == <<>> \in Seq(Part) /\ Distinct(<<>>) /\ Items(<<>>) = {}
BY DEF Distinct, Items

-----------------------------------------------------------------------------
(* The inductive invariant.                                                *)

\* What holds of the object in the middle of a handler, too.
Sound(j) == /\ j \in JobRecord
            /\ Disjoint(j)
            /\ IsFiniteSet(j.doing)
            /\ Cardinality(j.doing) <= MaxDoing
            /\ j.aborted => j.failed # {}
Tried(j, a) == a \/ \A p \in j.failed : j.failures[p] = MaxFailures
Idle(j) == j.state \in Ended => j.doing = {} /\ j.todo = <<>>
Told(j, a) == j.state \in Ended /\ ~a => (j.state = "Succeeded" <=> j.downloads = j.done)
CutShort(j) == j.aborted => j.state \notin {"Succeeded", "Failed"}
Fit(j, a) == Sound(j) /\ Tried(j, a) /\ Idle(j) /\ Told(j, a) /\ CutShort(j)

JInv == /\ Fit(job, asked)
        /\ looping \in BOOLEAN /\ posted \in BOOLEAN /\ asked \in BOOLEAN
        /\ looping => HasWork(job) /\ HasSlot(job)
        /\ NeverStuck

\* What the type of a job says of its fields.
LEMMA JobFields ==
  ASSUME NEW j \in JobRecord
  PROVE  /\ j.state \in {"Inactive", "Running"} \cup Ended
         /\ j.downloads \subseteq Part /\ j.todo \in Seq(Part) /\ j.doing \subseteq Part
         /\ j.done \subseteq Part /\ j.failed \subseteq Part
         /\ j.failures \in [Part -> 0..MaxFailures] /\ j.aborted \in BOOLEAN
BY DEF JobRecord

\* The items of a job's queue.
LEMMA TodoItems ==
  ASSUME NEW j
  PROVE  Todo(j) = Items(j.todo)
BY DEF Todo, Items

\* A part taken off the queue into a slot.
LEMMA BeginSound ==
  ASSUME NEW j, Sound(j), j.todo # <<>>, HasSlot(j)
  PROVE  LET p == Head(j.todo)
             u == [j EXCEPT !.todo = Tail(@), !.doing = @ \cup {p}]
         IN /\ Sound(u)
            /\ p \in u.doing
            /\ \A f \in {"state", "downloads", "done", "failed", "failures", "aborted"} :
                 u[f] = j[f]
<1> DEFINE p == Head(j.todo)
           u == [j EXCEPT !.todo = Tail(@), !.doing = @ \cup {p}]
<1>1. /\ u.todo = Tail(j.todo) /\ u.doing = j.doing \cup {p} /\ u.state = j.state
      /\ u.downloads = j.downloads /\ u.done = j.done /\ u.failed = j.failed
      /\ u.failures = j.failures /\ u.aborted = j.aborted
  BY DEF Sound, JobRecord
<1>1a. \A f \in {"state", "downloads", "done", "failed", "failures", "aborted"} : u[f] = j[f]
  BY DEF Sound, JobRecord
<1>2. Distinct(j.todo) /\ j.todo \in Seq(Part)
  BY JobFields DEF Sound, Disjoint, Distinct
<1>3. /\ p \in Items(j.todo) /\ p \in Part /\ Tail(j.todo) \in Seq(Part)
      /\ Distinct(Tail(j.todo)) /\ Items(Tail(j.todo)) = Items(j.todo) \ {p}
  BY <1>2, TakeHead
<1>4. u \in JobRecord
  <2>1. j.doing \cup {p} \in SUBSET Part
    BY <1>3, JobFields DEF Sound
  <2> QED
    BY <1>3, <2>1 DEF Sound, JobRecord
<1>5. IsFiniteSet(u.doing) /\ Cardinality(u.doing) <= MaxDoing
  <2>1. IsFiniteSet(j.doing) /\ Cardinality(j.doing) \in Nat /\ Cardinality(j.doing) < MaxDoing
    BY FS_CardinalityType DEF Sound, HasSlot
  <2>2. /\ IsFiniteSet(j.doing \cup {p})
        /\ Cardinality(j.doing \cup {p}) \in {Cardinality(j.doing), Cardinality(j.doing) + 1}
    BY <2>1, FS_AddElement
  <2> QED
    BY <1>1, <2>1, <2>2, LimitAssumption
<1> HIDE DEF u, p
<1>6. Todo(u) = Todo(j) \ {p} /\ p \in Todo(j)
  BY <1>1, <1>3, TodoItems
<1>7. Disjoint(u)
  BY <1>1, <1>3, <1>6 DEF Sound, Disjoint, Distinct
<1>8. Sound(u) /\ p \in u.doing
  BY <1>1, <1>4, <1>5, <1>7 DEF Sound
<1> QED
  BY <1>1a, <1>8 DEF u, p

\* Parts that leave their slots.
LEMMA LeaveSlots ==
  ASSUME NEW j, Sound(j), NEW S \in SUBSET j.doing
  PROVE  IsFiniteSet(j.doing \ S) /\ Cardinality(j.doing \ S) <= MaxDoing
<1>1. IsFiniteSet(j.doing) /\ j.doing \ S \in SUBSET j.doing
  BY DEF Sound
<1>2. /\ IsFiniteSet(j.doing \ S)
      /\ Cardinality(j.doing \ S) <= Cardinality(j.doing)
      /\ Cardinality(j.doing \ S) \in Nat /\ Cardinality(j.doing) \in Nat
  BY <1>1, FS_Subset, FS_CardinalityType
<1> QED
  BY <1>2, LimitAssumption DEF Sound

\* A part that has come to its end, for now or for good.
LEMMA EndSound ==
  ASSUME NEW j, Sound(j), NEW a, Tried(j, a), NEW p \in j.doing,
         NEW outcome \in {"Succeeded", "Failed"}
  PROVE  LET u == partEnded(j, p, outcome)
         IN /\ Sound(u)
            /\ Tried(u, a)
            /\ u.state = j.state /\ u.downloads = j.downloads /\ u.aborted = j.aborted
<1> DEFINE u == partEnded(j, p, outcome)
<1>1. j \in JobRecord /\ p \in Part /\ p \notin Todo(j) /\ p \notin j.done /\ p \notin j.failed
  BY JobFields DEF Sound, Disjoint
<1>2. IsFiniteSet(j.doing \ {p}) /\ Cardinality(j.doing \ {p}) <= MaxDoing
  BY LeaveSlots
<1>3. CASE outcome = "Succeeded"
  <2>1. /\ u.todo = j.todo /\ u.doing = j.doing \ {p} /\ u.state = j.state
        /\ u.downloads = j.downloads /\ u.done = j.done \cup {p} /\ u.failed = j.failed
        /\ u.failures = j.failures /\ u.aborted = j.aborted
    BY <1>1, <1>3 DEF partEnded, partSucceeded, JobRecord
  <2>2. u \in JobRecord
    BY <1>1, <1>3 DEF partEnded, partSucceeded, JobRecord
  <2> HIDE DEF u
  <2>3. Disjoint(u)
    BY <1>1, <2>1 DEF Sound, Disjoint, Todo
  <2> QED
    BY <1>2, <2>1, <2>2, <2>3 DEF Sound, Tried, u
<1>4. CASE outcome = "Failed" /\ j.failures[p] = MaxFailures
  <2>1. /\ u.todo = j.todo /\ u.doing = j.doing \ {p} /\ u.state = j.state
        /\ u.downloads = j.downloads /\ u.done = j.done /\ u.failed = j.failed \cup {p}
        /\ u.failures = j.failures /\ u.aborted = j.aborted
    BY <1>1, <1>4 DEF partEnded, partFailed, JobRecord
  <2>2. u \in JobRecord
    BY <1>1, <1>4 DEF partEnded, partFailed, JobRecord
  <2> HIDE DEF u
  <2>3. Disjoint(u)
    BY <1>1, <2>1 DEF Sound, Disjoint, Todo
  <2> QED
    BY <1>2, <1>4, <2>1, <2>2, <2>3 DEF Sound, Tried, u
<1>5. CASE outcome = "Failed" /\ j.failures[p] # MaxFailures
  <2>1. /\ u.todo = Append(j.todo, p) /\ u.doing = j.doing \ {p} /\ u.state = j.state
        /\ u.downloads = j.downloads /\ u.done = j.done /\ u.failed = j.failed
        /\ u.failures = [j.failures EXCEPT ![p] = @ + 1] /\ u.aborted = j.aborted
    BY <1>1, <1>5 DEF partEnded, partFailed, JobRecord
  <2>2. /\ Append(j.todo, p) \in Seq(Part) /\ Distinct(Append(j.todo, p))
        /\ Items(Append(j.todo, p)) = Items(j.todo) \cup {p}
    <3>1. j.todo \in Seq(Part) /\ Distinct(j.todo) /\ p \notin Items(j.todo)
      BY <1>1, TodoItems, JobFields DEF Sound, Disjoint, Distinct
    <3> QED
      BY <1>1, <3>1, AppendItem
  <2>3. [j.failures EXCEPT ![p] = @ + 1] \in [Part -> 0..MaxFailures]
    <3>1. j.failures \in [Part -> 0..MaxFailures] /\ j.failures[p] + 1 \in 0..MaxFailures
      BY <1>1, <1>5, JobFields, LimitAssumption
    <3> QED
      BY <3>1
  <2>4. j.doing \ {p} \in SUBSET Part
    BY <1>1, JobFields
  <2>5. u \in JobRecord
    BY <1>1, <1>5, <2>2, <2>3, <2>4 DEF partEnded, partFailed, JobRecord
  <2> HIDE DEF u
  <2>6. Todo(u) = Todo(j) \cup {p}
    BY <2>1, <2>2, TodoItems
  <2>7. Disjoint(u)
    BY <1>1, <2>1, <2>2, <2>6 DEF Sound, Disjoint, Distinct
  <2>8. Tried(u, a)
    <3>1. \A q \in j.failed : q # p /\ u.failures[q] = j.failures[q]
      BY <1>1, <2>1, JobFields
    <3> QED
      BY <2>1, <3>1 DEF Tried
  <2> QED
    BY <1>2, <2>1, <2>5, <2>7, <2>8 DEF Sound, u
<1> QED
  BY <1>3, <1>4, <1>5

\* abort() drops what waits and fails the parts in S.
LEMMA AbortSound ==
  ASSUME NEW j, Sound(j), NEW S \in SUBSET j.doing
  PROVE  LET u == partAborted([j EXCEPT !.failed = @ \cup Todo(j), !.todo = <<>>], S)
         IN /\ Sound(u)
            /\ u.todo = <<>> /\ u.doing = j.doing \ S /\ u.state = j.state
            /\ u.downloads = j.downloads /\ u.aborted = (j.aborted \/ S # {})
<1> DEFINE u == partAborted([j EXCEPT !.failed = @ \cup Todo(j), !.todo = <<>>], S)
<1>1. j \in JobRecord /\ Todo(j) \subseteq Part /\ S \subseteq Part
  BY JobFields DEF Sound, Disjoint
<1>2. /\ u.todo = <<>> /\ u.doing = j.doing \ S /\ u.state = j.state
      /\ u.downloads = j.downloads /\ u.done = j.done
      /\ u.failed = (j.failed \cup Todo(j)) \cup S
      /\ u.failures = j.failures /\ u.aborted = (j.aborted \/ S # {})
  BY <1>1 DEF partAborted, JobRecord
<1>3. u \in JobRecord
  <2>1. /\ <<>> \in Seq(Part) /\ j.doing \ S \in SUBSET Part
        /\ (j.failed \cup Todo(j)) \cup S \in SUBSET Part
        /\ (j.aborted \/ S # {}) \in BOOLEAN
    BY <1>1, JobFields
  <2> QED
    BY <1>1, <2>1 DEF partAborted, JobRecord
<1> HIDE DEF u
<1>4. IsFiniteSet(u.doing) /\ Cardinality(u.doing) <= MaxDoing
  BY <1>2, LeaveSlots
<1>5. Todo(u) = {}
  BY <1>2 DEF Todo
<1>6. Disjoint(u)
  BY <1>2, <1>5 DEF Sound, Disjoint
<1>7. u.aborted => u.failed # {}
  BY <1>2 DEF Sound
<1> QED
  BY <1>2, <1>3, <1>4, <1>6, <1>7 DEF Sound, u

\* A running job that has nothing left may end.
LEMMA FinishFit ==
  ASSUME NEW j, NEW a, Sound(j), Tried(j, a), j.todo = <<>>, j.doing = {}
  PROVE  Fit(finish(j), a)
<1> DEFINE u == finish(j)
           s == IF j.failed = {} THEN "Succeeded" ELSE IF j.aborted THEN "AbortedByUser" ELSE "Failed"
<1>1. /\ u.todo = j.todo /\ u.doing = j.doing /\ u.downloads = j.downloads /\ u.done = j.done
      /\ u.failed = j.failed /\ u.failures = j.failures /\ u.aborted = j.aborted /\ u.state = s
  BY DEF finish, Sound, JobRecord
<1>2. u \in JobRecord
  BY DEF finish, Sound, JobRecord, Ended
<1> HIDE DEF u
<1>3. Sound(u)
  BY <1>1, <1>2 DEF Sound, Disjoint, Todo
<1>4. Tried(u, a) /\ Idle(u)
  BY <1>1 DEF Tried, Idle
<1>5. u.downloads = u.done \cup u.failed /\ u.done \cap u.failed = {}
  BY <1>1, <1>3 DEF Sound, Disjoint, Todo
<1>6. Told(u, a)
  BY <1>1, <1>5 DEF Told
<1>7. CutShort(u)
  BY <1>1 DEF CutShort, Sound
<1> QED
  BY <1>3, <1>4, <1>6, <1>7 DEF Fit, u

\* startMoreParts() of an object that has not just ended re-establishes the invariant.
LEMMA StartMorePartsJInv ==
  ASSUME NEW j, Fit(j, asked'), startMoreParts(j), posted' \in BOOLEAN, asked' \in BOOLEAN
  PROVE  JInv'
<1>1. CASE j.state = "Running" /\ j.todo = <<>> /\ j.doing = {}
  <2>1. job' = finish(j) /\ looping' = FALSE
    BY <1>1 DEF startMoreParts, HasWork
  <2>2. Fit(finish(j), asked')
    BY <1>1, FinishFit DEF Fit
  <2>3. finish(j).state # "Running"
    BY DEF finish, Fit, Sound, JobRecord
  <2> QED
    BY <2>1, <2>2, <2>3 DEF JInv, NeverStuck
<1>2. CASE ~(j.state = "Running" /\ j.todo = <<>> /\ j.doing = {})
  <2>1. job' = j /\ looping' = (HasWork(j) /\ HasSlot(j))
    BY <1>2 DEF startMoreParts
  <2>2. ASSUME j.state = "Running", ~looping'
        PROVE  j.doing # {} /\ (j.todo = <<>> \/ ~HasSlot(j))
    <3>1. j.doing = {} => HasSlot(j)
      <4>1. Cardinality({}) = 0
        BY FS_EmptySet
      <4> QED
        BY <4>1, LimitAssumption DEF HasSlot
    <3> QED
      BY <1>2, <2>1, <2>2, <3>1 DEF HasWork
  <2>3. looping' \in BOOLEAN
    BY <2>1 DEF HasWork, HasSlot
  <2>4. NeverStuck'
    BY <2>1, <2>2 DEF NeverStuck, HasSlot
  <2> QED
    BY <2>1, <2>3, <2>4 DEF JInv, HasWork, HasSlot
<1> QED
  BY <1>1, <1>2

-----------------------------------------------------------------------------
(* Every step keeps the invariant.                                         *)

\* The job as it is created.
LEMMA InitJInv == JobInit => JInv
<1> SUFFICES ASSUME JobInit PROVE JInv
  OBVIOUS
<1>1. job \in JobRecord
  <2>1. [p \in Part |-> 0] \in [Part -> 0..MaxFailures] /\ <<>> \in Seq(Part)
    BY LimitAssumption
  <2> QED
    BY <2>1 DEF JobInit, JobRecord
<1>2. Disjoint(job) /\ ~job.aborted /\ job.state = "Inactive" /\ job.failed = {}
  BY DEF JobInit, Disjoint, Todo
<1>3. IsFiniteSet(job.doing) /\ Cardinality(job.doing) <= MaxDoing
  BY FS_EmptySet, LimitAssumption DEF JobInit
<1>4. Fit(job, asked)
  BY <1>1, <1>2, <1>3 DEF Fit, Sound, Tried, Idle, Told, CutShort, Ended
<1> QED
  BY <1>2, <1>4 DEF JInv, JobInit, NeverStuck

\* The next part goes on, or ends before start() returns.
LEMMA StartPartJInv == JInv /\ startPart => JInv'
<1> SUFFICES ASSUME JInv, startPart PROVE JInv'
  OBVIOUS
<1> DEFINE p == Head(job.todo)
           j == [job EXCEPT !.todo = Tail(@), !.doing = @ \cup {p}]
<1>1. looping /\ job.state = "Running" /\ job.todo # <<>> /\ HasSlot(job)
      /\ posted' = posted /\ asked' = asked /\ posted \in BOOLEAN /\ asked \in BOOLEAN
      /\ Sound(job) /\ Tried(job, asked) /\ CutShort(job)
  BY DEF JInv, startPart, HasWork, Fit
<1>2. /\ Sound(j) /\ p \in j.doing /\ j.state = job.state /\ j.downloads = job.downloads
      /\ j.failed = job.failed /\ j.failures = job.failures /\ j.aborted = job.aborted
  BY <1>1, BeginSound
<1>3. \/ job' = j /\ looping' = (HasWork(j) /\ HasSlot(j))
      \/ \E outcome \in {"Succeeded", "Failed"} : startMoreParts(partEnded(j, p, outcome))
  BY DEF startPart
<1> HIDE DEF j, p
<1>4. Fit(j, asked')
  BY <1>1, <1>2 DEF Fit, Tried, Idle, Told, CutShort, Ended
<1>5. CASE job' = j /\ looping' = (HasWork(j) /\ HasSlot(j))
  <2>1. startMoreParts(j)
    BY <1>2, <1>5 DEF startMoreParts
  <2> QED
    BY <1>1, <1>4, <2>1, StartMorePartsJInv
<1>6. ASSUME NEW outcome \in {"Succeeded", "Failed"}, startMoreParts(partEnded(j, p, outcome))
      PROVE  JInv'
  <2> DEFINE u == partEnded(j, p, outcome)
  <2>1. /\ Sound(u) /\ Tried(u, asked') /\ u.state = j.state /\ u.aborted = j.aborted
    BY <1>2, <1>4, <1>6, EndSound DEF Fit
  <2> HIDE DEF u
  <2>2. Fit(u, asked')
    BY <1>1, <1>2, <2>1 DEF Fit, Idle, Told, CutShort, Ended
  <2>3. startMoreParts(u)
    BY <1>6 DEF u
  <2> QED
    BY <1>1, <2>2, <2>3, StartMorePartsJInv
<1> QED
  BY <1>3, <1>5, <1>6

\* Another part is handed in.
LEMMA AddJInv == ASSUME NEW p \in Part, JInv, addNetAction(p) PROVE JInv'
<1>1. job.state = "Inactive" /\ p \notin job.downloads /\ ~looping
      /\ Sound(job) /\ Tried(job, asked) /\ posted \in BOOLEAN /\ asked \in BOOLEAN
      /\ looping' = looping /\ posted' = posted /\ asked' = asked
  BY DEF JInv, addNetAction, Fit
<1>2. job' = [job EXCEPT !.downloads = @ \cup {p}, !.todo = Append(@, p)]
  BY DEF addNetAction
<1>3. /\ job'.todo = Append(job.todo, p) /\ job'.doing = job.doing /\ job'.state = job.state
      /\ job'.downloads = job.downloads \cup {p} /\ job'.done = job.done
      /\ job'.failed = job.failed /\ job'.failures = job.failures
      /\ job'.aborted = job.aborted
  BY <1>1, <1>2 DEF Sound, JobRecord
<1>4. /\ Append(job.todo, p) \in Seq(Part) /\ Distinct(Append(job.todo, p))
      /\ Items(Append(job.todo, p)) = Items(job.todo) \cup {p}
  <2>1. job.todo \in Seq(Part) /\ Distinct(job.todo) /\ p \notin Items(job.todo)
    BY <1>1, TodoItems, JobFields DEF Sound, Disjoint, Distinct
  <2> QED
    BY <2>1, AppendItem
<1>5. job' \in JobRecord
  BY <1>1, <1>2, <1>4 DEF Sound, JobRecord
<1>6. p \notin job.doing \cup job.done \cup job.failed
  BY <1>1 DEF Sound, Disjoint
<1>7. Todo(job') = Todo(job) \cup {p}
  BY <1>3, <1>4, TodoItems
<1>8. Disjoint(job')
  BY <1>1, <1>3, <1>4, <1>6, <1>7 DEF Sound, Disjoint, Distinct
<1>9. Sound(job')
  BY <1>1, <1>3, <1>5, <1>8 DEF Sound
<1>10. Fit(job', asked')
  BY <1>1, <1>3, <1>9 DEF Fit, Tried, Idle, Told, CutShort, Ended
<1> QED
  BY <1>1, <1>3, <1>10 DEF JInv, NeverStuck

\* The job is started, perhaps again.
LEMMA StartJInv == JInv /\ executeTask => JInv'
<1> SUFFICES ASSUME JInv, executeTask PROVE JInv'
  OBVIOUS
<1>1. /\ Sound(job) /\ Tried(job, asked) /\ asked \in BOOLEAN /\ ~looping
      /\ job' = [job EXCEPT !.state = "Running"]
      /\ posted' = TRUE /\ looping' = looping /\ asked' = asked
  BY DEF JInv, executeTask, Fit
<1>2. /\ job'.todo = job.todo /\ job'.doing = job.doing /\ job'.state = "Running"
      /\ job'.downloads = job.downloads /\ job'.done = job.done
      /\ job'.failed = job.failed /\ job'.failures = job.failures
      /\ job'.aborted = job.aborted /\ job' \in JobRecord
  BY <1>1 DEF Sound, JobRecord
<1>3. Sound(job')
  BY <1>1, <1>2 DEF Sound, Disjoint, Todo
<1>4. Fit(job', asked')
  BY <1>1, <1>2, <1>3 DEF Fit, Tried, Idle, Told, CutShort, Ended
<1> QED
  BY <1>1, <1>4 DEF JInv, NeverStuck

\* The start that executeTask() has put on the event loop.
LEMMA StartMorePartsEventJInv == JInv /\ startMorePartsEvent => JInv'
<1> SUFFICES ASSUME JInv, startMorePartsEvent PROVE JInv'
  OBVIOUS
<1>1. Fit(job, asked') /\ startMoreParts(job) /\ posted' \in BOOLEAN /\ asked' \in BOOLEAN
  BY DEF JInv, startMorePartsEvent
<1> QED
  BY <1>1, StartMorePartsJInv

\* The reply of a running part has finished.
LEMMA PartEndsJInv ==
  ASSUME NEW p \in Part, NEW outcome \in {"Succeeded", "Failed"}, JInv, PartEnds(p, outcome)
  PROVE  JInv'
<1> DEFINE u == partEnded(job, p, outcome)
<1>1. /\ Fit(job, asked) /\ p \in job.doing /\ startMoreParts(u)
      /\ asked' = asked /\ posted' \in BOOLEAN /\ asked' \in BOOLEAN
  BY DEF JInv, PartEnds
<1>2. Sound(u) /\ Tried(u, asked') /\ u.state = job.state /\ u.aborted = job.aborted
  BY <1>1, EndSound DEF Fit
<1> HIDE DEF u
<1>3. Fit(u, asked')
  BY <1>1, <1>2 DEF Fit, Idle, Told, CutShort
<1> QED
  BY <1>1, <1>3, StartMorePartsJInv

\* abort(), while the job runs or not.
LEMMA AbortJInv == JInv /\ abortJob => JInv'
<1> SUFFICES ASSUME JInv, abortJob PROVE JInv'
  OBVIOUS
<1>1. /\ Fit(job, asked) /\ ~looping /\ looping \in BOOLEAN /\ asked' = TRUE
      /\ posted' = posted /\ posted \in BOOLEAN
  BY DEF JInv, abortJob
<1>2. PICK S \in SUBSET (job.doing \ Unstoppable) :
        LET j == partAborted([job EXCEPT !.failed = @ \cup Todo(job), !.todo = <<>>], S)
        IN IF S = {} THEN job' = j /\ UNCHANGED looping ELSE startMoreParts(j)
  BY DEF abortJob
<1> DEFINE u == partAborted([job EXCEPT !.failed = @ \cup Todo(job), !.todo = <<>>], S)
<1>3. /\ Sound(u) /\ u.todo = <<>> /\ u.doing = job.doing \ S /\ u.state = job.state
      /\ u.downloads = job.downloads /\ u.aborted = (job.aborted \/ S # {})
  <2>1. Sound(job) /\ S \in SUBSET job.doing
    BY <1>1 DEF Fit
  <2> QED
    BY <2>1, AbortSound
<1>4. (S = {} /\ job' = u /\ looping' = looping) \/ (S # {} /\ startMoreParts(u))
  BY <1>2
<1> HIDE DEF u
<1>5. S # {} => job.state \notin Ended
  BY <1>1 DEF Fit, Idle
<1>6. Fit(u, asked')
  BY <1>1, <1>3, <1>5 DEF Fit, Tried, Idle, Told, CutShort, Ended
<1>7. CASE S = {} /\ job' = u /\ looping' = looping
  <2>1. NeverStuck'
    BY <1>1, <1>3, <1>7 DEF NeverStuck, JInv
  <2> QED
    BY <1>1, <1>6, <1>7, <2>1 DEF JInv
<1>8. CASE S # {} /\ startMoreParts(u)
  BY <1>1, <1>6, <1>8, StartMorePartsJInv
<1> QED
  BY <1>4, <1>7, <1>8

\* No step at all, or any step.
LEMMA NextJInv == JInv /\ [JobNext]_jobVars => JInv'
<1> SUFFICES ASSUME JInv, [JobNext]_jobVars PROVE JInv'
  OBVIOUS
<1>1. CASE UNCHANGED jobVars
  BY <1>1 DEF JInv, jobVars, NeverStuck, HasSlot, HasWork
<1>2. ASSUME NEW p \in Part, addNetAction(p) PROVE JInv'
  BY <1>2, AddJInv
<1>3. ASSUME NEW p \in Part, NEW outcome \in {"Succeeded", "Failed"}, PartEnds(p, outcome)
      PROVE  JInv'
  BY <1>3, PartEndsJInv
<1> QED
  BY <1>1, <1>2, <1>3, StartPartJInv, StartJInv, StartMorePartsEventJInv, AbortJInv DEF JobNext

\* What the invariant says in the words of the properties.
LEMMA JInvImplies == JInv => JobTypeOK /\ OnePlace /\ EveryPartTried /\ CutShortIsAborted
<1> SUFFICES ASSUME JInv PROVE JobTypeOK /\ OnePlace /\ EveryPartTried /\ CutShortIsAborted
  OBVIOUS
<1>1. /\ Sound(job) /\ Tried(job, asked) /\ Idle(job) /\ Told(job, asked) /\ CutShort(job)
      /\ looping \in BOOLEAN /\ posted \in BOOLEAN /\ asked \in BOOLEAN
  BY DEF JInv, Fit
<1>2. JobTypeOK /\ OnePlace /\ CutShortIsAborted
  BY <1>1 DEF JobTypeOK, OnePlace, CutShortIsAborted, Sound, Idle, CutShort
<1>3. EveryPartTried
  <2> SUFFICES ASSUME job.state \in Ended, ~asked
               PROVE  /\ \A p \in job.downloads : p \in job.done \/ job.failures[p] = MaxFailures
                      /\ job.state = "Succeeded" <=> job.downloads = job.done
    BY DEF EveryPartTried
  <2>1. job.downloads = job.done \cup job.failed
    BY <1>1 DEF Sound, Disjoint, Idle, Todo
  <2> QED
    BY <1>1, <2>1 DEF Tried, Told
<1> QED
  BY <1>2, <1>3

\* The invariant holds in every state of every behaviour.
LEMMA JobInvariance == JobSpec => []JInv
BY InitJInv, NextJInv, PTL DEF JobSpec

-----------------------------------------------------------------------------
(* The theorems.                                                           *)

\* Every variable keeps its type, whatever is handed in and however often it is retried.
THEOREM JobTypeCorrect == JobSpec => []JobTypeOK
BY JobInvariance, JInvImplies, PTL

\* Whatever the parts do, in whatever order, each is in exactly one place, at most
\* MaxDoing run, and an ended job has none left.
THEOREM OnePlaceHolds == JobSpec => []OnePlace
BY JobInvariance, JInvImplies, PTL

\* A running job is never left with nothing that will carry it on.
THEOREM NeverStuckHolds == JobSpec => []NeverStuck
<1>1. JInv => NeverStuck
  BY DEF JInv
<1> QED
  BY <1>1, JobInvariance, PTL

\* A job that nobody aborted gives up on no part before its last retry, and is a
\* success exactly when all its parts are done.
\* One that abort() cut short ends as aborted or not at all.
THEOREM EndsTrulyHolds == JobSpec => []EndsTruly
<1>1. JInv => EndsTruly
  BY JInvImplies DEF EndsTruly
<1> QED
  BY <1>1, JobInvariance, PTL
=============================================================================
