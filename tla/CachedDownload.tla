--------------------------- MODULE CachedDownload ---------------------------
(***************************************************************************)
(* launcher/net: Download, FileSink, MetaCacheSink and HttpMetaCache, for  *)
(* one URL that is kept in one file of the cache, across crashes.          *)
(*                                                                         *)
(* `dl' is the Download object (with its sink) that each caller has at the *)
(* moment.  MetaEntry objects are shared by pointer: `entry' is the heap,  *)
(* `index' the pointer in HttpMetaCache::m_entries, `saved' what the index *)
(* file says.  `file' is the cached file and `server' the version the URL  *)
(* stands for now.                                                         *)
(*                                                                         *)
(* A body is Size chunks; an ETag is the version itself and a checksum the *)
(* version, the number of chunks and the code of the reply they came with: *)
(* what comes with an error is another text than the file.  A timestamp   *)
(* is compared for equality only, so local_changed_timestamp is a Boolean: *)
(* `current' says that it is the modification time the file has now.       *)
(***************************************************************************)
EXTENDS Naturals, FiniteSets

CONSTANTS Caller,       \* those that download this URL
          Version,      \* what the server may have under it
          Obj,          \* addresses of MetaEntry objects
          Size,         \* chunks of a whole body
          NoValue,      \* a null pointer, an empty string, a file that is not there
          MayBeEmpty,   \* a transfer may stop before its first byte and look finished
          AcceptLocal,  \* the callers that use AcceptLocalFiles
          Overlap       \* fetches of a file that has no good entry may overlap

ASSUME SizeAssumption == Size \in Nat \ {0}
ASSUME CallerAssumption == IsFiniteSet(Caller) /\ AcceptLocal \subseteq Caller
ASSUME ObjAssumption == IsFiniteSet(Obj) /\ Cardinality(Obj) > Cardinality(Caller)

VARIABLES dl, entry, index, saved, file, server,
          discarded    \* the file was thrown away and not stored again (history)
vars == <<dl, entry, index, saved, file, server, discarded>>

Status == {"NotStarted", "InProgress", "Finished", "Failed", "Aborted", "Failed_Proceed"}
OrNone(S) == S \cup {NoValue}
Code == {"got", "notModified", "refused", "redirect"}
Checksum == [ver : Version, size : 0..Size, code : Code]
Content == [ver : Version, size : 0..Size, code : Code, promised : BOOLEAN]
ASSUME NoValueAssumption == NoValue \notin Obj \cup Version \cup 0..Size \cup Content
MetaEntry == [md5 : OrNone(Checksum), etag : OrNone(Version), current : BOOLEAN, stale : BOOLEAN]
Reply == [code : Code, ver : Version, promised : BOOLEAN]
Download == [status : Status, entry : OrNone(Obj), reply : OrNone(Reply),
             output_file : OrNone(0..Size), bytesWritten : Nat, wroteAnyData : BOOLEAN]

TypeOK == /\ dl \in [Caller -> Download]
          /\ entry \in [Obj -> MetaEntry]
          /\ index \in OrNone(Obj)
          /\ saved \in OrNone(MetaEntry)
          /\ file \in OrNone(Content)
          /\ server \in Version
          /\ discarded \in BOOLEAN

hash(c) == [ver |-> c.ver, size |-> c.size, code |-> c.code]
staleEntry == [md5 |-> NoValue, etag |-> NoValue, current |-> FALSE, stale |-> TRUE]
\* A Download that has ended and is not started again, or not started yet.
AtRest(status, o) ==
  [status |-> status, entry |-> o, reply |-> NoValue, output_file |-> NoValue,
   bytesWritten |-> 0, wroteAnyData |-> FALSE]
NoDownload == AtRest("NotStarted", NoValue)
hasLocalData == file # NoValue /\ file.size # 0

\* A MetaEntry lives as long as somebody points to it; i and d are the pointers.
Live(o, i, d) == o = i \/ \E c \in Caller : d[c].entry = o
Kept(e, i, d) == [o \in Obj |-> IF Live(o, i, d) THEN e[o] ELSE staleEntry]

\* The file has another modification time from now on.
Outdated == [o \in Obj |-> [entry[o] EXCEPT !.current = FALSE]]
SavedOutdated == IF saved = NoValue THEN saved ELSE [saved EXCEPT !.current = FALSE]

\* Nobody but c is about to fetch the file.
Alone(c) == \A b \in Caller \ {c} :
              dl[b].status \in {"Finished", "Failed_Proceed", "Aborted"} \/ dl[b].entry = NoValue

Init == /\ dl = [c \in Caller |-> NoDownload]
        /\ entry = [o \in Obj |-> staleEntry]
        /\ index = NoValue
        /\ saved = NoValue
        /\ file = NoValue
        /\ server \in Version
        /\ discarded = FALSE

-----------------------------------------------------------------------------
(* HttpMetaCache. *)

\* Wrong on purpose, as are the definitions below whose names end in Mutant: each
\* is a bug that a property of this module has to notice.
TrustedMutant == index # NoValue /\ file # NoValue

\* resolveEntry() finds an entry it can trust: unchanged on disk, or changed in its
\* timestamp only.
Trusted == /\ index # NoValue
           /\ file # NoValue
           /\ entry[index].current \/ entry[index].md5 = hash(file)

\* resolveEntry(), and makeCached() with what it returned; some callers call
\* setStale(true) in between.
resolveEntry(c) ==
  /\ dl[c].status # "InProgress"
  /\ \E forced \in BOOLEAN :
       \/ /\ Trusted
          /\ dl' = [dl EXCEPT ![c] = AtRest("NotStarted", index)]
          /\ entry' = Kept([entry EXCEPT ![index].current = TRUE, ![index].stale = @ \/ forced],
                           index, dl')
          /\ UNCHANGED index
       \/ /\ ~Trusted
          /\ Overlap \/ Alone(c)
          /\ index' = NoValue
          /\ \E o \in Obj :
               /\ ~Live(o, index, [dl EXCEPT ![c] = NoDownload])
               /\ dl' = [dl EXCEPT ![c] = AtRest("NotStarted", o)]
               /\ entry' = Kept([entry EXCEPT ![o] = staleEntry], NoValue, dl')
  /\ UNCHANGED <<saved, file, server, discarded>>

\* SaveNow(), when the timer of SaveEventually() fires or the program ends: any time.
SaveNow ==
  /\ saved' = IF index # NoValue /\ ~entry[index].stale THEN entry[index] ELSE NoValue
  /\ UNCHANGED <<dl, entry, index, file, server, discarded>>

\* The program dies, and Load() reads the index when it starts again.
Crash ==
  /\ dl' = [c \in Caller |-> NoDownload]
  /\ \/ saved = NoValue /\ index' = NoValue /\ entry' = [o \in Obj |-> staleEntry]
     \/ /\ saved # NoValue
        /\ index' \in Obj
        /\ entry' = [o \in Obj |-> IF o = index' THEN saved ELSE staleEntry]
  /\ UNCHANGED <<saved, file, server, discarded>>

-----------------------------------------------------------------------------
(* Download, and the sink it writes to. *)

\* What the server may answer: 304 when the ETag we sent is what it has.
Replies(x) == {r \in Reply : /\ r.ver = server
                             /\ r.code = "notModified" => /\ hasLocalData
                                                          /\ entry[x.entry].etag = server
                             /\ r.code # "got" => r.promised}

startImplMutant(x) ==
  IF ~entry[x.entry].stale THEN {AtRest("Finished", x.entry)}
  ELSE {[x EXCEPT !.status = "InProgress", !.reply = r, !.output_file = 0,
                  !.bytesWritten = 0, !.wroteAnyData = FALSE] : r \in Replies(x)}

startImplCountsOnMutant(x) ==
  IF x.status = "Aborted" THEN {x}
  ELSE IF ~entry[x.entry].stale THEN {AtRest("Finished", x.entry)}
  ELSE {[x EXCEPT !.status = "InProgress", !.reply = r, !.output_file = 0,
                  !.wroteAnyData = FALSE] : r \in Replies(x)}

\* startImpl(): all that may become of object x.
startImpl(x) ==
  IF x.status = "Aborted" THEN {x}
  ELSE IF ~entry[x.entry].stale THEN {AtRest("Finished", x.entry)}
  ELSE {[x EXCEPT !.status = "Failed", !.reply = NoValue]}
         \cup {[x EXCEPT !.status = "InProgress", !.reply = r, !.output_file = 0,
                         !.bytesWritten = 0, !.wroteAnyData = FALSE] : r \in Replies(x)}

writeMutant(x, n) ==
  [x EXCEPT !.output_file = 2 * @ + n, !.bytesWritten = @ + n, !.wroteAnyData = TRUE]

\* FileSink::write() of n chunks; it fails when the disk is full, say.
write(x, n) == [x EXCEPT !.output_file = @ + n, !.bytesWritten = @ + n, !.wroteAnyData = TRUE]
writeFails(x) == [x EXCEPT !.status = "Failed", !.output_file = NoValue, !.wroteAnyData = FALSE]

\* FileSink::abort() and the end of the reply.
failed(x) == [x EXCEPT !.status = "Failed", !.output_file = NoValue, !.reply = NoValue]

\* Started by the NetJob, the first time or again after a failure.
start(c) ==
  /\ dl[c].entry # NoValue
  /\ dl[c].status \in {"NotStarted", "Failed", "Aborted"}
  /\ \E x \in startImpl(dl[c]) : dl' = [dl EXCEPT ![c] = x]
  /\ UNCHANGED <<entry, index, saved, file, server, discarded>>

Carries(r) == r.code \in {"got", "refused"}

downloadReadyRead(c) ==
  LET x == dl[c] IN
  /\ x.status = "InProgress"
  /\ Carries(x.reply)
  /\ x.output_file < Size
  /\ \E y \in {write(x, 1), writeFails(x)} : dl' = [dl EXCEPT ![c] = y]
  /\ UNCHANGED <<entry, index, saved, file, server, discarded>>

\* FileSink::finalize() lets the body through to the validators and commit().
gotFile(x) == x.reply.code = "got"
Complete(x) == x.wroteAnyData /\ x.reply.promised => x.bytesWritten = Size
MayCommitMutant(x) == x.output_file # NoValue /\ Complete(x)

MayCommit(x) == /\ x.reply.code # "refused"
                /\ x.output_file # NoValue
                /\ Complete(x)

\* MetaCacheSink::finalizeCache() and updateEntry(), with the file and the entries
\* as they are then.
finalizeCache(c, x, f, entries) ==
  /\ dl' = [dl EXCEPT ![c] = AtRest("Finished", x.entry)]
  /\ index' = x.entry
  /\ entry' = Kept([entries EXCEPT ![x.entry] =
                      [md5 |-> IF x.wroteAnyData THEN hash(f) ELSE @.md5,
                       etag |-> x.reply.ver, current |-> f # NoValue, stale |-> FALSE]],
                   index', dl')

\* The file is what x has written, stored now.
stored(x) == [ver |-> x.reply.ver, size |-> x.output_file, code |-> x.reply.code,
              promised |-> x.reply.promised]

\* finalize() of a body ...
commitBody(c, x) ==
  /\ gotFile(x) \/ x.wroteAnyData
  /\ MayCommit(x)
  /\ file' = stored(x)
  /\ saved' = SavedOutdated
  /\ discarded' = FALSE
  /\ finalizeCache(c, x, file', Outdated)

\* ... of a 304, where the local copy stands ...
keepLocal(c, x) ==
  /\ x.reply.code = "notModified" /\ ~x.wroteAnyData
  /\ finalizeCache(c, x, file, entry)
  /\ UNCHANGED <<saved, file, discarded>>

\* ... and of what is refused, by finalize() itself, a validator or commit().
refuse(c, x) ==
  /\ x.reply.code # "notModified"
  /\ dl' = [dl EXCEPT ![c] = failed(x)]
  /\ UNCHANGED <<entry, index, saved, file, discarded>>

\* downloadFinished(): the reply has finished, without an error of its own or because
\* abort() made it.  It may have got as far as a Location header.
downloadFinished(c) ==
  LET x == dl[c]
      Rest == IF x.status = "InProgress" /\ Carries(x.reply) /\ x.output_file < Size
              THEN {x, write(x, 1), writeFails(x)} ELSE {x}
  IN
  /\ x.reply # NoValue
  /\ \/ /\ x.reply.code = "redirect"
        /\ \E y \in startImpl(x) :
             dl' = [dl EXCEPT ![c] = IF y.status = "Aborted" THEN AtRest("Aborted", y.entry)
                                     ELSE y]
        /\ UNCHANGED <<entry, index, saved, file, discarded>>
     \/ /\ x.reply.code # "redirect"
        /\ x.status = "Aborted"
        /\ dl' = [dl EXCEPT ![c] = AtRest("Aborted", x.entry)]
        /\ UNCHANGED <<entry, index, saved, file, discarded>>
     \/ /\ x.reply.code # "redirect"
        /\ x.status = "Failed"
        /\ dl' = [dl EXCEPT ![c] = failed(x)]
        /\ UNCHANGED <<entry, index, saved, file, discarded>>
     \/ /\ x.reply.code # "redirect"
        /\ x.status = "InProgress"
        /\ \E y \in Rest :
             /\ gotFile(y) /\ ~y.wroteAnyData /\ y.output_file # NoValue => MayBeEmpty
             /\ commitBody(c, y) \/ keepLocal(c, y) \/ refuse(c, y)
  /\ UNCHANGED server

\* downloadError() and the finished() that follows it.
downloadError(c) ==
  LET x == dl[c] IN
  /\ x.reply # NoValue
  /\ x.reply.code # "redirect"
  /\ dl' = [dl EXCEPT ![c] = IF c \in AcceptLocal /\ hasLocalData
                             THEN AtRest("Failed_Proceed", x.entry) ELSE failed(x)]
  /\ UNCHANGED <<entry, index, saved, file, server, discarded>>

\* abort(): a reply reports OperationCanceledError, which makes the object Aborted, and
\* then finishes; without one the object is Aborted at once.
abort(c) ==
  /\ dl[c].entry # NoValue
  /\ dl' = [dl EXCEPT ![c].status = "Aborted"]
  /\ UNCHANGED <<entry, index, saved, file, server, discarded>>

\* The reply that abort() cancels has not finished yet: it does before abort() returns,
\* and until then nothing else of the program runs.
Cancelling(c) == dl[c].status = "Aborted" /\ dl[c].reply # NoValue

-----------------------------------------------------------------------------
(* The callers and the server. *)

extractFailedMutant(c) ==
  /\ dl[c].status = "Finished"
  /\ Alone(c)
  /\ file # NoValue
  /\ file.size < Size
  /\ dl' = [dl EXCEPT ![c] = NoDownload]
  /\ entry' = Kept([entry EXCEPT ![dl[c].entry].stale = TRUE], index, dl')
  /\ discarded' = TRUE
  /\ UNCHANGED <<index, saved, file, server>>

\* extractFailed(): a file that cannot be unpacked is removed, if the system lets it,
\* and its entry evicted.  Archives are fetched from a modal dialog, so nobody else
\* is about to fetch it.
extractFailed(c) ==
  /\ dl[c].status = "Finished"
  /\ Alone(c)
  /\ file # NoValue
  /\ file.size < Size
  /\ dl' = [dl EXCEPT ![c] = NoDownload]
  /\ \E removed \in BOOLEAN :
       /\ file' = IF removed THEN NoValue ELSE file
       /\ saved' = IF removed THEN SavedOutdated ELSE saved
       /\ discarded' = (removed \/ discarded)
       /\ entry' = Kept([(IF removed THEN Outdated ELSE entry)
                          EXCEPT ![dl[c].entry].stale = TRUE], index, dl')
  /\ UNCHANGED <<index, server>>

ServerChanges == /\ server' \in Version \ {server}
                 /\ UNCHANGED <<dl, entry, index, saved, file, discarded>>

Next == \/ Crash
        \/ ServerChanges
        \/ \E c \in Caller : Cancelling(c) /\ downloadFinished(c)
        \/ /\ \A c \in Caller : ~Cancelling(c)
           /\ \/ SaveNow
              \/ \E c \in Caller : \/ resolveEntry(c)
                                   \/ start(c)
                                   \/ downloadReadyRead(c)
                                   \/ downloadFinished(c)
                                   \/ downloadError(c)
                                   \/ abort(c)
                                   \/ extractFailed(c)

Spec == Init /\ [][Next]_vars
-----------------------------------------------------------------------------
(* Properties. *)

\* What is stored under the name of the file is a body the server sent for it and not
\* the text of an error, and all of it when the server said how long it is: whatever was
\* written before a redirect, a retry or an abort (FileSink.cpp:114-185).
OnlyWholeBodies == file # NoValue => /\ file.code = "got"
                                     /\ file.promised => file.size = Size

\* The entry in the cache that would be trusted by its timestamp describes the file
\* that is there, and so does the one on disk (HttpMetaCache.cpp:97-115).
Describes(e) == e.current /\ ~e.stale => file # NoValue /\ e.md5 = hash(file)
FreshIsTrue == /\ index # NoValue => Describes(entry[index])
               /\ saved # NoValue => Describes(saved)

\* An aborted download stays aborted, also while the reply that abort() cancelled still
\* finishes, with a redirect perhaps, and when the job starts it once more; and it stores
\* nothing any more (Download.cpp:106-111, 251-292).
AbortSticks ==
  [][\A c \in Caller : dl[c].status = "Aborted" =>
       /\ dl'[c].status \in {"Aborted", "NotStarted"}
       /\ dl'[c].status = "NotStarted" => UNCHANGED file]_vars

\* Once a damaged file has been discarded, no download succeeds before it has got
\* the body again (InstanceImportTask.cpp:306-310).
DiscardedIsFetchedAgain ==
  [][discarded' => \A c \in Caller :
       dl'[c].status = "Finished" => dl[c].status = "Finished"]_vars
=============================================================================
