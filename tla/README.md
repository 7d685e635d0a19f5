# A verification development of MeshMC

TLA+ models of the parts of MeshMC (`launcher/`) in which several things happen
at once, the TLC runs that check them on small instances, and theorems about
them that the TLA+ proof system checks for every instance.

MeshMC is a Qt program. Nearly all of its logic runs on the GUI thread, so two
handlers never interleave inside; but a handler is only a small part of what the
program is doing. The work is spread over objects that start each other, call
each other back from within a call, post events to each other, and wait for
replies, processes and timers. The models have one action per handler, and a
handler that is entered from within another is part of the other's action. What
can come between two handlers is what makes these parts hard to test: an abort
between a start and the first event after it, a child that ended before its
parent looked, a reply that was cut short and retried, a crash between writing a
file and writing the index that vouches for it.

## The system

| component | state | operations | talks to | hard part |
|---|---|---|---|---|
| Task, ConcurrentTask, SequentialTask (`tasks/`) | state of the task, queue, running children, counters | add, start, startNext, abort, the ends of children | children by signals and posted events | synchronous callbacks, aborts, children shared with another owner |
| NetJob (`net/NetJob`) | queue, running, done and failed parts, failures per part | addNetAction, startMoreParts, the ends of parts, abort | parts (Download, uploads) by signals | recursion from part to job, bounded retries, aborts |
| Download, FileSink, MetaCacheSink, HttpMetaCache (`net/`) | the reply, the output file, shared MetaEntry objects, the index in memory and on disk | startImpl, readyRead, error, finished, redirect, abort; resolve, update, evict, save, load | the server, the file system, NetJob | truncated bodies, retries, shared and stale entries, crashes |
| LaunchTask, its steps, LaunchController, LoggedProcess (`launch/`, `minecraft/launch/`) | the step reached, waiting or running, the process, the instance's running flag | start, step ends, proceed, abort, finalize | Application, dialogs, the game's process | a step that ends inside abort(), kill after a grace time, finalising |
| Application | controllers, counter of running instances | launch, kill, succeeded, failed | LaunchController, the updater | a second launch while the first is logging in |
| InstanceList | instances, groups, trash history, staged tasks | stage, commit with backoff, trash, undo | InstanceTask, the file watcher | commits retried under a lock, partial failures |
| AccountList, MinecraftAccount (`minecraft/auth`) | refresh queue, timers, the current task of an account | requestRefresh, fillQueue, tryNext, succeeded, failed | auth flows, launches that use an account | one task shared by several users, timers |
| PackProfile, ComponentUpdateTask | components, remote loads under way | reload, resolve, update | metadata, NetJob | loads that end in any order, dependency resolution |
| Meta::BaseEntity, Index | load and update status | load | NetJob, the cache | loads requested again while one is under way |
| Updater (`updater/`) | lock file, markers, staging and backup folders | stages of an update | the launcher, itself after a restart | a crash between two stages |
| Mod platforms (`modplatform/`) | worklist of dependencies, downloads, files replaced | resolve, download, check | NetJob, mod folders | replies in any order, half of a set replaced |
| ModFolderModel, its page (`minecraft/mod/`) | the list shown and its index, the scan under way, what is being read | update, finishUpdate, finishModParse, toggle, delete, install, open and close | worker threads, the directory watcher, the file system | changes during a scan, results for a file that is not the same any more |
| Plugins (`plugin/`) | loaded modules, hooks, dependency order | load, dispatch, unload | nearly everything | load order, hooks in the middle of a launch |
| Backups, uploads, settings, Java detection, formats, UI, libraries | – | – | – | sequences, parsers and platform I/O; not modelled |

What makes the components correct, in one line each: a task container keeps
track of every child and ends, once, as it should; a NetJob gives every part its
tries and ends; the cache never vouches for bytes the server did not send; a
launch starts its steps in order, finalises each once and starts none after an
abort; an instance is in one place, and comes back from the trash; the schedule
of refreshes is never left without something that carries it on, and a refresh asked
for is begun unless another one never ends; an update leaves one
usable installation, or says that it does not; an instance's components are
complete once they have been resolved; an open page comes to show the folder as it
is. These are modelled and checked here. That the counter of running instances is
that of the launches under way, and the rest of the table, is not (see below).

## The modules

### ConcurrentTask, TaskBag — `launcher/tasks`

`self` is the object with its fields, `child` the state of every child task,
`posted` what is waiting on the event loop. One action per handler: `addTask`,
`start`, `startNextEvent`, `abort`, `startEvent` (the posted start of a child),
`ChildEnds` (emitSucceeded, emitFailed or emitAborted of a child, with all that
`subTaskSucceeded`/`subTaskFailed` and `startNext` do inside it), and
`StartedByAnother` for a child that has a second owner. `startNext(t, cs, p)` is
the function of the same name, for an object in mid-handler; `IsSequential`
selects SequentialTask's override. Two kinds of children are told apart because
the code tells them apart: `Shared` ones (MinecraftUpdate hands in PackProfile's
current task, SkinManageDialog the account's current refresh) and `Silent` ones,
which may fail with an empty reason; no child in the repository is certain to, but
nothing keeps it from it.

`TaskBag` is the contract of the headers: children come until the task has
ended; it runs exactly as long as one of them is unaccounted for; it ends once
per start, and as aborted exactly when an abort was asked for. `ConcurrentTask`
implements it under the mapping of its last lines, its liveness included.

### NetJob — `launcher/net/NetJob`

`job` is the object. `startMoreParts` runs its loop one round per action
(`startPart`), with `looping` saying that the loop is under way: a part that
ends inside its own `start()` re-enters `startMoreParts`, and since the frames
of that recursion hold no state, all that is left of them is that the loop goes
on. No other event can come in while `looping` holds. `posted` is the queued
first call. `abortJob` picks the set of parts that end inside their `abort()`;
the others are those that cannot be aborted, or whose reply has already finished.

### CachedDownload — `launcher/net/Download`, sinks, `HttpMetaCache`

One URL and its file, and any number of callers that download it. `entry` is
the heap of MetaEntry objects and `index` a pointer into it, since entries are
shared by pointer and the defects of this design would be those of aliasing. A
body is `Size` chunks of one version, an ETag the version itself, a checksum the
version and the number of chunks. `Crash` loses everything but the file and the
saved index. `abort` is in two steps, since the reply that it cancels finishes
within the call: from the one to the other the object is Aborted with a reply
(`Cancelling`), and nothing else of the program runs. What finishes then may be a
redirect, whose handler starts the download again, or tries to. What is stored keeps
the kind of reply it came with (`Code`), so that the text of an error can be told from
a body. `extractFailed` is the one place outside `net/` that acts on the cache
(InstanceImportTask).

### Launch — `launcher/launch`, `launcher/minecraft/launch`, LaunchController, LoggedProcess

`launch` is the LaunchTask with its own state and that of the Task it is,
`step` the steps as tasks, `proc` their processes, `game` what MeshMCPartLaunch
has told its helper. `Steps` is the sequence that `createLaunchTask()` and
`launchInstance()` put together, of which only the kind matters: whether the
step may end inside `start()`, whether it can be aborted and what that does. The
steps call each other from within `start()` and from within `abort()`; `frame`
is the call stack, as far as it matters: a step about to be started, and the
`LaunchTask::abort()` that has not returned yet. No event comes in while it is
not empty (`Idle`). That is how an abort whose step ends within it lets other
steps start before the launch is marked as aborted. `asking` is the question
before a kill, a nested event loop during which anything may happen; `skip` is
the button of the progress dialog, which aborts the step and not the launch.
`undone` and `accepted` are history, read by properties only.

### InstanceList — `launcher/InstanceList`

`disk` is what is in the folders, `home` and `index` what the list knows of it,
`file` the file of groups. An instance is told apart from its folder's name,
since names are taken again and an instance that returns from the trash may get
another one; its contents are left out. Handlers run one at a time, and
`instancesChanged()` reaches `loadList()` inside the call that emits it, so
`loadList(d, ds, x, l, f)` is an operator that the actions apply in mid-handler:
before or after `saveGroupList`, as in the code. `staging` is an
InstanceStaging with its task; it runs behind a modal dialog (`AtRest`), while
the watcher and the change of folders may still come. A commit may be blocked
any number of times, a move to the trash may fail, and `restart` may come at any
point. `asked` and `unsure` are history.

### Accounts — `launcher/minecraft/auth`

`queue`, `current` and the two timers are AccountList's; `task` is the current
task of each account, which `refresh()` hands out to whoever asks, and `watched`
says whether the list is connected to it. `login`, `skinJob`, `skinRefresh` and
`claim` are the other users of an account. The end of a task reaches the account
and, through its signals, the list within one call, so `TaskEnded` is one action.
The steps of an AuthFlow are one outcome, or none: a task need not end, and does not
when its account has no refresh token (`tokens`), since then nothing is asked of the
server and no signal comes. A refresh that is refused takes the token away; the file
of accounts does not say so, so after a restart such an account is due like the others.

### Updater — `launcher/updater`

Two processes and the launcher, which know each other by a lock file only.
`first` and `second` are how far the passes have got; `removeOld` and `copyNew`
are steps of their own because a pass may die between them, and any write may
fail (`Fault`). `waitForInstallStageTakeover` and `claimLockForInstallStage` are
the handshake with its two time limits: the first pass may give up while the
second is merely slow, and the second waits until the first has decided
(`FirstHasDecided`). `reportUpdateMarkers` is the launcher's next start, with its
questions. Backups are directories named after a version and ordered by when
they were modified. An update is started from a launcher only when no process of
an earlier one is alive.

### Components — `launcher/minecraft`, `launcher/meta`

`components` is the list with what is cached of each one's metadata, which is
also what is saved; `server`, `onDisk` and `inMemory` say where metadata is. The
task goes `load`, `wait`, `resolve` and round again; those phases call each other
in the code and nothing comes in between, except in `wait`. `slots` are the
remote loads, each with the place its component had. `resolveDependencies` is one
round: `getTrivialRemovals`, `getTrivialComponentChanges`, the additions and the
changes. The loops over the removals and over the set of requirements in its order
are recursive functions (`removeAll`, `addMissing`), so that they can be reasoned
about. An addition may have no version, when nothing tells which; its file, which no
server has, is then waited for in vain. `reread` is a save
and a load of the list, which loses one flag (`cachedVolatile` is written,
`volatile` is read). Saving is taken to be immediate; the code waits five
seconds.

### ModFolder — `launcher/minecraft/mod`, `ModFolderPage`

`folder` is the directory, with the time of each file; a mod's name is one of two
files, enabled or disabled. `list` is the rows, `modsIndex` and the tickets of what
is being read; `scan` is the one scan that may be under way, or what the last one
saw, and `scheduled` the one that follows it. The scan (`loadTask`) and the reading
of a file (`parseTask`) run on worker threads, so the folder may change before and
after each, and their results come back as events (`finishUpdate`,
`finishModParse`). `openedImpl` and `addPath` are one handler in two steps, since
the first scan may read the folder before it is watched; `GuiFree` keeps the other
handlers out meanwhile. `updated` is the whole of `finishUpdate`'s work on the list:
rows replaced, removed and appended, the index made anew, tickets taken back.

Operators whose names end in `Mutant` are wrong on purpose: each is a bug one
would plausibly make in that spot, and each is known to violate the property it
is meant for. No action uses them.

## What the runs check

| run | bounds | what it shows |
|---|---|---|
| `MCConcurrentTask` | 3 children, 2 slots, two shared, none silent | each child is queued, running or counted once (`Accounting`); a success means that every child ran and succeeded; the refinement of `TaskBag`, by which a started task ends, once, as aborted exactly when it was |
| `MCSequentialTask` | 3 steps, none shared, two silent | steps start in order, alone, and none after a failure |
| `MCNetJob` | 3 parts, 2 slots, 1 retry | every part in one place, its retries used up before it is given up, a cut-short job ends as aborted, a started job ends |
| `MCCachedDownload` | 2 callers, 2 versions, 3 entry objects, bodies of 2 chunks | nothing cut short and no error's text is stored, what the cache trusts is the file, an abort sticks, a discarded archive is fetched anew |
| `MCLaunch` | seven steps, one or two of each kind | steps finalised once and in reverse, no process behind an instance that is not running, nothing starts after an accepted abort, which ends the launch and kills what does not listen |
| `MCInstanceList` | 2 instances, 2 names, 1 group, a second folder that comes and goes | no instance is lost or doubled, each trashed one can be restored, groups stick, a staged task ends |
| `MCAccounts` | 2 accounts, 2 refreshes asked for, 1 game | something always carries the background refreshes on, active accounts are counted, what is queued is served unless a refresh that the list waits for never ends |
| `MCUpdater` | 2 files, 3 versions and updates, 1 failing write, 2 dying passes | no mix of versions is started unknowingly, "has not been changed" is true, the last update can be rolled back |
| `MCComponents` | 4 components in 2 versions, 2 sets of metadata, one of which says nothing of the version of a component it needs; 3 edits or restarts | what has been resolved is complete and passes the check before an offline launch, additions go in before what needs them, a resolution ends |
| `MCModFolder` | 1 mod, enabled, disabled or both; 2 changes of the folder | no change of the folder is missed while the page is open, which comes to show every file, once, with what was read from it |
| `MCRefreshInUse`, `MCEmptyStaging` | as above | one disagreement each between the code and what it says of itself, see below |

Why the bounds are enough to see something. Three children over two slots give a
full house, a queue behind it and a child that ends while another is posted;
with one slot, the step before and the step after. Three parts over two slots,
one instant and one that cannot be aborted, give the nested loop, a retry that
waits behind another part and an abort that stops only some; the code's 6 slots
and 3 retries add nothing new in kind, and the theorems cover them. Two callers
are what a shared entry needs, two chunks what a truncated body needs, and three
objects let both callers have an entry that is not the index's. A launch of
seven steps has every kind, two commands around the game, and each way of ending
with steps before and behind it; further steps repeat a kind. Restarting a
task that has ended is part of all of them. Two instances and two names are what
a collision on the way out of the trash needs, two folders what an instance that
disappears and returns needs. Two accounts are what waiting for another's refresh
needs; a third one only lengthens the queue. Three updates are what it takes to
have a backup pruned that is still wanted, and two crashes to lose both passes of
one update. Four components give a chain of requirements (a loader, its mappings,
the game) and a library that two of them ask for, one of them by an exact
version; three edits are enough to install a loader, change what it depends on,
and restart. The metadata is two fixed sets, one with the shape of Fabric's, one
in which requirements may contradict each other: the resolution's claims are
about all metadata, and are checked for these only.

One mod with its two files is what a toggle needs to meet a file of the other
name, and gives up to two rows, and so one that moves up when the one before it is
removed. Two changes are one during a scan or while a file is read, and one after
it, whose own scan and reading then overtake the first ones; a third change makes
the run too long.

Symmetry is used for steps, callers, versions and objects, where the constants
tell none apart, and never in a run with a liveness property. `MCUpdater` may
stop, and deadlock is not checked there: once the launcher's own file is missing
nothing can be started.

Fairness. The liveness properties assume that the event loop turns (weak
fairness of posted events), that a loop that can go round does, and, in the models of
the containers and of NetJob, that a running child or part ends one way or another:
what these promise is conditional on it, as is what the code's own comments say. Nothing is assumed about
aborts, restarts or which outcome is chosen: `Settles` holds for NetJob because
retries are counted, not because one eventually succeeds. `AbortEnds` assumes
that calls return, that a timer fires, that the system starts processes and ends
those it was told to kill, and that an update asked to stop does; not that the
game listens, nor that any other step ever ends. `StagingEnds` assumes that the task
that is staged ends and that the timer of the backoff fires; `QueuedIsServed`
only that timers fire: tasks that never end, which the refresh of a token allows
(MSAStep.cpp:82-90), are in the property, as the one excuse for not serving what is
queued; `ResolveEnds` that handlers return and that every
reply comes or fails; `ShownIsTrue` that worker threads run what they are given and
the event loop turns, with at most `MaxChanges` changes, which is to say that
the folder is at rest in the end.

### Where the code and its comments disagree

Two have a run of their own:

* **An account in use is refreshed** (`MCRefreshInUse`).
  MinecraftAccount.cpp:167-168: "Never refresh accounts that are being used by
  the game, it breaks the game session." This is looked at when the account is
  put into the queue, not when it is taken out.
* **A failed staging deletes the data folder** (`MCEmptyStaging`).
  InstanceList.h:266-268: "Destroy a previously created staging area given by
  @keyPath". When the staging folder could not be made the path is empty, the
  task runs all the same, and if it fails `FS::deletePath("")` removes the
  working directory.

The others were met in the same way. The passing run of the module assumes each
of them away, and the constant named here brings it back:

* A task succeeds although a child has failed, if the child gave no reason.
  ConcurrentTask.h:41-42: "the whole task fails once everything has settled, with all
  the failure reasons collected". An empty reason is not collected, and a task without
  reasons succeeds (ConcurrentTask.cpp:213, 230; `Silent = {c3}` in
  `MCConcurrentTask`, `SuccessMeansAllRan`).
* A step that failed elsewhere does not stop a sequence, and a refresh under way
  runs on beside the upload (SequentialTask.cpp:44-45, SkinManageDialog.cpp:588-590;
  `Shared = {c2}` in `MCSequentialTask`).
* An empty transfer is stored (FileSink.cpp:151, "Refuse a transfer the server
  cut short"; the length is compared only if at least one byte was written;
  `MayBeEmpty = TRUE`).
* Two first fetches can leave a false entry: entries for files not yet cached are
  not shared (HttpMetaCache.cpp:76; `Overlap = TRUE`).
* A folder that is deleted and made again in another root before the list is
  reloaded is shown with the old one's object, and a name that is in two roots has
  one group (InstanceList.cpp:680; `SameNames = TRUE`).
* An edit of the list while its metadata is loaded makes a reply update the wrong
  component: a resolution may then succeed without the mappings that a loader
  needs (ComponentUpdateTask.cpp:621; `EditsWhileLoading = TRUE`).
* An updater with two failing writes, a copy and then the marker, leaves a mix
  with nothing beside it that says so (`MaxFaults = 2`, `NoSilentMix`); and when
  the user ignores the lock while the updater runs, a claim that could not be
  written is seen by nobody (`Patient = FALSE`, `NothingChangedIsTrue`).
* A launch whose process is killed before it leads its group lives on
  (`EarlyKillMisses = TRUE`).

And these the properties allow for as they are stated:

* A launch survives an abort while the server's address is looked up.
  LaunchController.cpp:626: "MeshMC is already shutting this instance down. Give
  it a few seconds". `QDnsLookup::abort()` reports its end within the call, the
  step takes that for an answer (LookupServerAddress.cpp:47, 59-75), and the next
  one starts. The launch is then marked as aborted and cannot be aborted again until
  a later step overwrites the mark with Waiting. `NoStepAfterStop` leaves out the
  aborts that a lookup has accepted, and fails with them.
* A mod that is toggled while its file is read, or whose other name is still
  listed, may vanish from the list although its file is there ("remove mods no
  longer present", ModFolderModel.cpp:149), or take another mod's details: the
  result is for a name that the index does not know any more, and looking it up
  makes an entry for the first row (ModFolderModel.cpp:239). `mixed` says that it
  has happened, and `ShownIsTrue` fails without it.
* A refresh may never end: the request for a token has no time limit, and none is
  sent without a refresh token.
  All that waits behind it then waits for ever (MSAStep.cpp:82-90; `QueuedIsServed`
  without its last disjunct fails).

Smaller ones are allowed for in the same way: a NetJob aborted before
any part runs has failed and not been aborted, while Task.h:95 promises that
`wasAborted()` tells whether somebody called `abort()`; the group of an instance
that is created or restored while no group file counts as loaded is lost
(InstanceList.cpp:1470, 550; `unsure`); a second try of an update over a mix
overwrites the good backup of the same name; a default account is put into the
refresh queue twice; the activity of an account that was replaced, or of a
refresh that the dialog for skins abandoned, is never taken back, which delays
the refreshes that the user asks for.

## What is proved

The proofs are in the eight modules whose names end in `_proofs`; those about
NetJob, whose parts are downloads, are at the end of `CachedDownload_proofs`, which
extends both modules (hence the names `JobInit`, `JobNext`, `JobSpec`, `JobTypeOK`).
All are for
every value of the constants, under the named assumptions of the modules
(`MaxConcurrent` at least 1, and exactly 1 for a sequence; `MaxDoing` at least 1;
finitely many callers, accounts, mods and versions of components; an order of the
uids that names none twice; a body of at least one chunk; a null value
that is neither a value nor a content; steps with a known kind, of which nothing but a command
comes after the game; at least one instance folder).

* `TypeCorrect`, `AccountingHolds`: **every child in one place**. The invariant
  is `TypeOK` with `Accounting`. The heart is a lemma about `startNext` for an
  arbitrary object in mid-handler: the entries it takes off the queue are exactly
  those it puts into slots or counts, so the sum does not change; it is used once
  for each of the handlers that end in it.
* `SuccessMeansAllRanHolds`: **a success leaves nobody out**, if no child fails in
  silence (`Silent = {}`); `OnlySilentLeftOutHolds` is for all children, and says that
  the silent ones are the only failures that a success can hide. The invariant
  is a tally: a failure that is counted has left a reason or is that of a child that
  fails in silence, and only an abort, or the failure of a step of a sequence, drops
  children.
* `ImplementsBagSteps`: **the container is a bag of work**. Every step of the
  container is a step of `TaskBag` or leaves its state alone, and so is the
  initial state; only the fairness of the refinement is left to the run.
* `StepsInOrderHolds`: **a sequence runs its steps in order**, one at a time and
  none after a failure, if no step is shared (`Shared = {}`, see above).
* `OnePlaceHolds`, `NeverStuckHolds`, `EndsTrulyHolds`: **the job keeps its
  books**. One inductive invariant, `JInv`, carries all three. `NeverStuck`, that a
  running job always has something that will carry it on, is the safety half of
  `Settles`, which the run checks. It adds to the properties what makes them inductive:
  while nobody has called `abort()`, every failed part has used up its retries
  and `aborted` is false; a job that has ended has nothing under way; and a loop
  is only ever under way with something left to start.
* `OnlyWholeBodiesHolds`: **nothing cut short is stored, and no error's text**,
  unless a transfer may look finished before its first byte (`~MayBeEmpty`, see above).
  The invariant adds that an attempt's count is that of the file it writes to,
  which is what the reset in `FileSink::init` is for.
* `FreshIsTrueHolds`: **what the cache trusts is the file**, for transfers that are
  not empty and fetches of one file that do not overlap (`~Overlap`). The
  invariant says that all who may still fetch a file share one entry, that of the
  cache if it has one; that an entry with an ETag to send is about the file that is
  there, so that a 304 says so as well; and that the timestamps in the cache and on
  disk vouch for the file they know. `AbortSticksHolds`, which is about what comes
  between the two steps of `abort` as well, and `DiscardedIsFetchedAgainHolds` need
  neither assumption.
* `StoppedMeansDownHolds`, `FinalizedOnceHolds`, `AbortEscalatesHolds`,
  `NoStepAfterStopHolds`: **the launch and its processes end together, and an
  abort stops it**, for every sequence of steps. The invariant says where a
  launch is (`OnTrack`: one step runs, exactly while the launch does, and only
  its process is there), that a step whose abort was accepted is `Doomed` to
  fail, that a helper is told to go on only while it is there, and that the
  timer of an abort does not outlive the game's step. `EndPreserves` is the
  lemma for the end of a step, the same for every way in which one can end.
  `AbortEscalatesHolds` assumes that a signal reaches a process that is just
  starting (`~EarlyKillMisses`); the others do not.
* `ScheduleAliveHolds`, `ActivityCoversHolds`: **refreshes have what carries them
  on**, for any accounts, whoever else starts or replaces them; and those that are
  active are counted, which `requestRefresh()` looks at, and the timers do not. The invariant adds that an
  account which does not exist yet is not in the list and has no task, and that
  the one that goes on, when no timer is armed, is the list's own.
* `QueuedIsKeptHolds`: **no request is forgotten**, for any accounts: one that is in
  the list leaves the queue only when its refresh runs and the list is connected to
  it. This is the safety half of `QueuedIsServed`. `Filled` is a recursive function
  here, not a fold, so that it can be reasoned about: that the loop of `fillQueue()`
  only adds to the queue is shown by the first of its turns that would not.
* `NothingChangedHolds`, `NoSilentMixHolds`: **an update that is not whole says
  so**, for any files, versions, number of updates and crashes, assuming `Mild`:
  at most one write fails and nobody ignores the lock of a running updater. Both
  halves are needed (see above). The invariant says in which order the passes
  run (`Order`), what the lock holds meanwhile unless the one write that may fail
  was its own (`Announced`, `Held`), that what the second pass is done with is new
  (`Progress`), and that a mix of which the user was not told has the lock or the
  marker beside it (`Known`).
* `RollBackHolds`: **the last update can be rolled back**, for any number of failing
  writes and crashes. `copied` makes one backup of each stamp and `Placed` puts it
  first, or leaves it where one of its stamp was, so that what `pruneBackups` takes
  away is never the one just made. The invariant adds that nothing is installed
  before the second pass is started (`Untouched`).
* `InstanceList_proofs!TypeCorrect`, `NothingLostHolds`,
  `TrashCanBeUndoneHolds`: **no instance is lost**, for any folders, names and
  instances, with name collisions, failing moves and restarts at any point. The
  invariant is that what is in a folder is live, that what is live is in one, that
  no two folders hold the same (`Placed`), and that what is staged as new has not
  been committed yet.
* `GroupKeptHolds`: **groups stick**, if a name is in one root only
  (`~SameNames`). A group is in three places, the index in memory, the file, and the
  history of the trash; the invariant says when each is right about an instance
  (`IndexRight`, `FileRight`, `TrashRight`) and where an instance must be for its
  name to be taken (`Shelved`, `AskedInDirs`, `StagedInDirs`).
* `NoChangeMissedHolds`: **an open page misses nothing**, for any mods and any
  number of changes. The invariant adds that an update is scheduled only behind a
  scan that is under way, so that there is always somebody to do it; the case that
  matters is `addPath`, where the page asks for a second scan.
* `SettledIsTrue`: **what is shown is what is there**, for any mods and any number
  of changes, once nothing is due at an open page: the safety half of `ShownIsTrue`.
  The invariant, `MInv`, says that the index leads to each row and back (`Indexed`),
  that each mod that is being read has a ticket of its own (`Ticketed`), that what
  was read for the file a row is about was read from that file (`Accurate`; a time
  that is on disk or in a row was given by a change that has happened, `Used`, so
  that none is given twice), and that with no scan under way and no event due the
  list is what the last scan saw (`Matches`). All of this only until a mod is toggled
  at a bad moment (`mixed`, see above). The heart is `UpdatedTrue`, which says it of
  `updated`, the whole of `finishUpdate`; that the rows that stay do so in their
  order, and that the index is the list's again, is shown by least counterexamples.

* `Launchable`: **what has been resolved can be launched**, for any uids, finitely
  many versions and any metadata, if nobody edits the list while it is loaded
  (`~EditsWhileLoading`, see above; the slots of the loads would otherwise be about
  other components than they were made for). The invariant follows the task through
  its phases: while loads are waited for and none has failed, each component that
  does not cache what its file says has a slot of its own (`Awaited`), whose file is
  the component's (`Placed`); when the requirements are gathered, all of them do
  (`Examined`); what is marked as loaded is in memory and what is customised has been
  there (`KnownAll`). Success is then the moment at which what is cached meets all
  that is cached (`ThenComplete`), so the files do. The other direction,
  `NothingToDo`, says that a list that is complete is one of which a round changes
  nothing: hence a reload offline, after a restart too, cannot fail. The operators
  are the larger part: what is left by a round's removals (`LeftOver`), what the list
  is when `n` of the uids have been looked at (`Extended`, `AddedTo`), and what the
  changes of versions keep (`ChangedTo`); the recursive functions are taken apart by
  a step from each number to the next one (`Iterates`), proved from the smallest
  number at which it would fail.
* `Injected`: **what is added goes in before what required it when the round began**
  (`InjectedBefore`). Its place was found before the first addition of the round went
  in, and every later one only pushes what is behind it further back (`Extended` says
  so of each uid). What the code does not promise is that this stays so: a component
  whose version the same round changes may come to require, from an earlier place,
  what was just added, and the order is never repaired.

`TypeCorrect` (`JobTypeCorrect` for NetJob) is proved for every component that is
modelled: ConcurrentTask, NetJob, CachedDownload, Launch, InstanceList, Accounts,
Updater, Components and ModFolder.

Only model-checked: all liveness (`Settles`, `AbortEnds`, `QueuedIsServed`,
`StagingEnds`, `ResolveEnds`, `ShownIsTrue`, and the fairness of the refinement of
`TaskBag`), which this prover cannot do. Every invariant and every action property
that a passing run checks is also a theorem. No module declares a RECURSIVE operator.

## What is left out of the models, and why

Progress, status lines, step lists, logging and wording, which feed back into
nothing. In ConcurrentTask, a child
that ends inside `abort()` with another result than aborted. In NetJob, parts that
already run when they are handed in (no caller does that), and a part that ends as
aborted without the job's `abort()` (Download.cpp:173-175 reports one on any
cancelled reply; nothing but `abort()` cancels them). In CachedDownload: a damaged
archive of full size; Last-Modified, which is used exactly like the
ETag; servers that send no ETag; expected checksums given by a caller, which
only refuse more; and reads of the file by whoever asked for it. In Launch: what
the steps do to files, logging, and the profiler's message boxes outliving the launch they speak
of; the login and the count of running instances, which are planned on top; and
in its passing run a signal that is sent before the process leads its group
(`EarlyKillMisses`), after which the code has no way left to stop the process, so
that `AbortEscalates` and `AbortEnds` do not hold. A helper that has not been told
to launch is assumed not to exit with 0. The controller's own failure when the
profiler does not start (LaunchController.cpp:542, 573) is left out, and the progress
dialog that the start of an update runs (605-611) is taken to return at once. In
InstanceList: renaming, the playtime, shortcuts and what the folders contain; file
operations that fail halfway, other than a commit and a move to the trash. In
Accounts: the file of accounts, the flow of a login, which is one outcome, and the
data of an account that was replaced while its task runs, which is then deleted under
the task (MinecraftAccount.cpp:109): the task is taken to end like any other. In
Updater: a failed copy over a file of an older backup, which that then lacks
(MeshUpdaterApp.cpp:136-171; the model keeps it); choosing, downloading and unpacking a release, AppImages and installers,
and the marker of a success. In Components: a resolution that replaces one under
way (its callbacks have no context object, so they outlive it), the online loads
that `getVersionFile()` starts on its own, jar mods, patches edited by hand, the
disabled flag, components that a modpack marks as important, cyclic metadata, a
component that cannot be removed (the loop at ComponentUpdateTask.cpp:507-523
then never ends), and crashes before the delayed save. In ModFolder: a
directory that cannot be watched, or whose watch cannot be taken away
(ModFolderModel.cpp:78-83, 91-96), without which an open page misses changes; the row
that a result finds in an empty list, which is undefined (239-240); the metadata
beside the mods (`.index`), mods that are folders, changes that leave a file's
modification time or are made in place (which the watcher of a directory need not
report, and the scan tells apart by time), an installation that a scan sees
halfway, and the filter and order of the view.

The counter of running instances is not modelled. Launching an instance again
while its login is open replaces the controller that is still on the stack
(Application.cpp:1772), so the code says nothing about what follows; without that
case the counter is what the end of each launch makes it, and Launch has those.

Time is not modelled: timers may fire whenever they are set, so nothing depends
on how long they take; the one exception is the updater's handshake, where the
second pass waits for longer than the first one does. The components of the
table that are not mentioned here are sequences, parsers, widgets or platform
I/O, or are planned below.

## Plan

1. Done: task containers, NetJob, downloads and the cache, the launch, the
   instance list and its staging, accounts, the updater, components, mod folders.
2. **Mod platforms**: the worklist of the dependency resolver, replies in any order,
   the replacement of files of which half has failed, and what the metadata index
   records of them: ContentDownloadTask writes it for every file that is there, those
   that it skipped as duplicates included.
3. **Plugins**: the load order as an operator on graphs, against a reference
   definition.
4. **The login** before a launch, as a component that Launch and Accounts meet in.
