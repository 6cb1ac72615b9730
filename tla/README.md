# Verification of the ownCloud desktop client

TLA+ models of the synchronisation client in `src/src` (C++ with Qt), the TLC runs
that check them on small instances, and theorems about them that TLAPS proves for
every instance. The code is the reference: each definition names in `PROJECT.json`
("map") the lines it stands for.

## 1. The system

A sync run compares three trees (the local folder, the server, the journal, a SQLite
database) and makes them agree. Almost everything runs on the event loop of one
thread: what makes the code hard is not data races but handlers in unforeseen orders,
queued calls, timers, and calls that re-enter their caller through signals.

| component | state | operations | interacts with |
|---|---|---|---|
| **OwncloudPropagator** and the job tree (`libsync/owncloudpropagator.*`) | a tree of jobs, each `NotYetStarted`, `Running` or `Finished`; lists of jobs to do and running; `_activeJobList`; `_jobScheduled`; `_finishedEmited` | `start`, `scheduleNextJob(Impl)`, `scheduleSelfOrChild`, `finished` slots, `finalize`, `done`, `abort`, `abortTimeout` | item jobs, SyncEngine (queued `finished`), journal |
| **Item jobs** (`propagatorjobs`, `propagateremote{delete,mkdir,move}`) | `_state`, a network job | `start`, reply slots, `abort`, `done` | propagator, network jobs, file system, journal |
| **Uploads** (`propagateupload*`: v1 chunks, new chunking, TUS) | `_jobs`, `_finished`, `_aborting`, chunk ranges and offsets, the upload record in the journal | checksum, `doStartUpload`, `startNextChunk`, `slotPutFinished`, `slotMoveJobFinished`, `finalize`, `abortWithError`, `abortNetworkJobs` | propagator, journal, server |
| **Download** (`propagatedownload`) | temporary file, resume offset, the GET job | `start`, `startDownload`, `slotGetFinished`, `downloadFinished`, `updateMetadata`, `abort` | propagator, journal, checksums, file system |
| **SyncEngine** (`syncengine`) | the run in progress, discovery, propagator, items, touched files, progress | `startSync`, `slotDiscoveryFinished`, `slotPropagationFinished`, `finalize`, `abort` | everything above, Folder |
| **Discovery** (`discovery`, `discoveryphase`) | directory jobs queued and active, pending renames and deletions, forbidden deletes | `process`, reconciliation of an entry, `scheduleMoreJobs` | journal, server, SyncEngine |
| **LocalDiscoveryTracker** | paths to look at now and from the previous run | touched path, sync started, item completed, sync finished | Folder, SyncEngine |
| **SyncJournalDb** (`common/syncjournaldb`) | tables for files, uploads, downloads, errors, conflicts; the etag filter list | records, invalidation of etags, blacklist | everyone |
| **JobQueue, AbstractNetworkJob, Account, credentials** | blocked flag and queue, retries, timeouts | `enqueue`, `retry`, `block`, `unblock`, redirects | item jobs, discovery, AccountState |
| **BandwidthManager** | quotas, lists of devices, measured progress | timers that give out quota | upload and download devices |
| **SyncFileStatusTracker, ProgressDispatcher** | counts of syncing children, problems; totals | item and run events | socket API, GUI |
| **Folder, FolderMan** (`gui`) | paused, sync state, queue of scheduled folders | schedule, start, finish, pause, terminate | SyncEngine, AccountState, watchers |
| **FolderWatcher, LockWatcher** | watched paths, locked files | change notification, polling | Folder |
| **AccountState, ConnectionValidator** | connection state, waiting for new credentials | check, sign in, sign out, maintenance | FolderMan, Account |
| **Updater, socket API, sharing, notifications, quota, wizards, cmd** | small states of their own | | GUI |

What makes each of them correct, in one line:

* propagator: everything is done once, in an order in which an etag never hides undone
  work and nothing is deleted too early; limits hold; it ends, and says the truth;
* uploads: what the server assembles is the file, whole and once, also after resuming;
* download: no local change is overwritten without a conflict, no broken file is installed;
* engine: one run at a time, `finished` once per run, nothing outlives its run;
* local discovery: no path that changed or failed is forgotten;
* blacklist: an item that keeps failing is retried later and later, never dropped;
* network jobs: no request is lost in the queue, retries are bounded;
* folders: at most one sync runs, a scheduled folder runs in the end;
* account: the state shown follows the last validation, no two validations at once.

## 2. Modules and plan

| part | modules | status |
|---|---|---|
| the job tree and its scheduler | `Propagation` (abstract), `Propagator`, `MCPropagator`, `PropagatorProofs`, `PropagatorLimits` | checked and proved |
| which local paths a run reads | `LocalDiscovery`, `MCLocalDiscovery`, `MCFullDiscovery`, `LocalDiscoveryProofs` | checked and proved |
| which folder syncs when, and the life of a run | `FolderMan`, `MCFolderMan`, `FolderManProofs`, `FolderManRuns` | checked and proved |
| uploads in chunks over several runs | `ChunkedUpload`, `MCChunkedUpload`, `ChunkedUploadProofs` | checked and proved |
| what is left alone after an error | `ErrorBlacklist`, `MCErrorBlacklist`, `ErrorBlacklistProofs` | checked and proved |
| account, validator, credentials, queue of jobs | `Connection`, `MCConnection`, `ConnectionProofs` | checked and proved |

The modules meet at narrow places, and each stands for its neighbours by what they may do there.
`FolderMan` has discovery and propagation as steps that end in any way, and `Propagator` says that the
latter ends (`Terminates`) and what its success means. `LocalDiscovery` has runs that start, fail and
succeed, which are those of `FolderMan`. `ErrorBlacklist` and `ChunkedUpload` look at one file over many
runs, of which `Propagator` has one with many files. The jobs of all of them go through the queue of
`Connection`, whose states are what `Connect` and `Disconnect` of `FolderMan` stand for.

Open, in the order in which it seems worth doing:

1. Discovery: its scheduler, the rename and delete bookkeeping, the reconciliation of one
   entry as a pure function checked against a three-way reference.
2. `SyncFileStatusTracker` (counts of syncing children against the icons that are shown).
3. `BandwidthManager`, `Updater`, `LockWatcher`, and the offsets of TUS and v1 uploads.

## 3. The propagator

`Propagator.tla` models `owncloudpropagator.{h,cpp}` with the item jobs as far as the tree
sees them. `Propagation.tla` says what the phase promises. `MCPropagator.tla` has the trees
for TLC, `PropagatorProofs.tla` and `PropagatorLimits.tla` the proofs.

### State

| TLA+ | code |
|---|---|
| `Items`, `Dirs`, `Subs`, `Deletions`, `Root` | `PropagateItemJob`, `PropagateDirectory`, the two composites of `PropagateRootDirectory` and the root itself; a directory and its `_subJobs` share a name, with `state[d]` for the first and `cstate[d]` for the second |
| `Holder`, `First`, `Turn`, `From` | the shape `start()` builds: `_associatedComposite`, `_firstJob`, and the order in which a walk passes the jobs, as post-order numbers; `Under(c)` is an interval of them |
| `state`, `cstate`, `hasError`, `outcome` | `_state`, `_hasError`, the status a job finished with |
| `stored`, `lockedDirs` | directories whose record `updateMetadata` has written, or left out since the placeholder was locked |
| `active`, `toSend`, `offline` | `_activeJobList` (one entry per request), requests an item will still send, items waiting for a callback outside the list: a checksum of a downloaded file, the permissions of an uploaded one |
| `aborting` | `PropagateUploadFileCommon::_aborting` |
| `posted` | queued calls in order: `finalize` of a composite, `abort` of the root, the release by `SyncEngine` |
| `ticking`, `asked`, `signal`, `cancelling` | the call in progress: a walk of the tree, the composites it has asked, the job or composite that emits `finished`, the jobs an abort is cancelling |
| `abortCalls`, `abortTimers`, `sweep`, `finished`, `gone` | calls of `abort()`, its 5 s timers, how far the asynchronous abort is, what was emitted, the end |

`Calling` says that a handler is in progress. Nothing else is enabled until it ends, which
is what one thread gives; the steps of a handler are separate actions only to keep
the nested signals readable.

The walk of `scheduleSelfOrChild` visits running children in order before it looks at
its own jobs. So the composites get their turn in post-order, and the model takes them
in that order without building the call stack: `Askable` are those a walk
can reach, and a running `WaitForFinished` job removes all that come after it.

### What is abstracted

Files, paths and contents are gone: an item is local or not, quick or not, blocking or
not, an upload or not, and sends a number of requests. Any request may fail with any
status. Every reply may come at any time. Jobs that fail their own checks in `start()`
end inside it. Chunks of an upload are counted, not placed. Conflict copies added
to a running composite (`createConflict`), changes of the network limits during a run and
the restore jobs are left out. Leftover requests of a failed upload leave the list in the same call, as
`abortWithError` or the destructor of the job does it. When jobs end within a sweep, the vector the sweep
iterates over shrinks under it, so the model lets it miss any of the uploads.

### Runs

| run | checks | instance |
|---|---|---|
| `tree` | `TypeOK`, `EtagLast`, `DeletionsLast`, `SuccessIsTrue`, `QuietEnd`, `NeverDoneTwice`, `FollowersWait`, `KeepsPromise` | four nested directories (one new, one renamed, two changed), a blocking move, a download with verification, an upload with three more chunks and a deletion from within the renamed directory; no user abort, but every fatal error aborts |
| `limits` | `IInvEnds`, `ParallelLimit`, `TransferLimit` | two quick jobs, a download and an upload of four chunks in one composite; hard limit 3, transfer limit 2; an abort at any time, lost permission replies |
| `live` | `Terminates` | two nested directories, a job with a second request, a download, an upload; an abort at any time, locked folders |

The trees are small, but nothing in the code compares more than two neighbours: a
directory in a directory, something before and after a blocking job, something that
is removed, and a chunked upload next to quick jobs cover the distinctions the code
makes. Three parallel jobs give different hard and transfer limits (3 and 2). The
number of requests bounds the chunks; `abortCalls` is bounded by the jobs that can fail.
The theorems remove these bounds for all but `Terminates`. `limits` has no directories, so that the parts of
`IInvEnds` about them say nothing there: `tree` checks what follows from them, and the theorems show them for every tree.

**Fairness** (`FairSpec`): weak fairness of the timer, of each step of a handler, of
posted calls, of every item with requests under way, and of the abort timers. An event
loop gives the first ones, the timeout of `AbstractNetworkJob` the one for items. An
abort by the user is not fair, nor is `abortFinished` unless every job answered
at once: the code may never send it, and the 5 s timer is what ends the run.

What the code does not keep of its own comments and tests is under "Further disagreements".

### Proofs

Assumptions: `TreeAssumption` (turns are distinct, `Under` is the closure of `Holder`, a first job precedes its
siblings, deletions come last) and `JobAssumption` (types of the other constants).
TLC evaluates both on every instance.

1. `PropagatorProofs`: `Types`, then `Inductive`: `IInv` is `TypeOK` with
   `IndOutcome`, `IndStarted`, `IndFirst`, `IndDir`, `IndComposite`, `IndSignal`, `IndRoot`,
   `IndStored`, `IndPosted`, `IndActive`. None of the properties is inductive: that a
   stored directory has only good work below it says nothing of a directory whose composite
   has finished and whose signal is on its way. The invariant follows the signal up: a composite
   is finished after its jobs, knows of their errors except for the one whose `finished` is being
   emitted, and a directory follows its composite or its first job. `EtagLast`, `DeletionsLast` and
   `SuccessIsTrue` are then an induction along the tree, by well-founded induction on `Turn`:
   a good composite has good children, whose composites are good in turn.
   `FollowersDoWait` is an action property from the definition of the walk.
2. `PropagatorLimits`: `IndLimit` and `IndTransfer` say that a walk begins only with room for one more,
   and that there is still room when the job it starts enters the list. `TransferLimit` counts: the
   quick entries among the first ones are no slow ones, so whatever the scheduler admits beyond the transfer
   limit is paid for by a quick job; an upload that sends another chunk replaces a slow entry.
   `IndEnd` traces a failure nobody asked for to a finished composite.
3. `Refines`, at the end of `PropagatorProofs`: every step maps to a step of `Propagation` or to a stutter.

Only model-checked: `Terminates` (liveness). Every other property of a passing run is proved.

## 4. Local discovery

`LocalDiscovery.tla` models which local paths a run reads: `LocalDiscoveryTracker` with the
handlers of `Folder`, `FolderWatcher` and `SyncEngine` that feed it. It says when a change
of the user can be forgotten.

### State

| TLA+ | code |
|---|---|
| `dirty` | what the properties are about: paths whose local state differs from the journal. The code does not know it |
| `notices`, `reported`, `reliable` | changes the operating system has yet to deliver, `FolderWatcher::_lastPaths` with its timer, `isReliable()` |
| `localDiscoveryPaths`, `previousLocalDiscoveryPaths` | the two lists of the tracker |
| `timer` | `Folder::_timeSinceLastFullLocalDiscovery`: invalid, running, or longer ago than the interval |
| `style`, `enginePaths`, `lastStyle` | the local discovery options of the engine |
| `phase`, `seen`, `items`, `failed`, `success` | the run: what discovery has read, the items to do, how it goes. Between `starting` and `discovery`, and between `finished` and `idle`, lies a queued call |
| `restless` | paths that changed again after the run had read them |

A path is a member of `Paths`, with `Above` for the directories it is in. Discovery reads a path
when all directories above it have been read; a run that is not full reads what `Looked` says, which is
`shouldDiscoverLocally` asked for the parent directory. An item is a changed path, or a renamed file
under both names. The other side, the order of propagation (but for a directory before its
contents) and the causes of failures are left out; an item or a run may fail at any time. A success
that comes with changes after discovery leaves the path different from the journal. The real job often
notices and fails; both are behaviours of the model. `Troubles` are three things the watcher does that
no list can repair, and each is off where a property needs that: a path that changes again within the
second in which the watcher swallows repeated reports, a directory that appears with its contents
and is reported alone (a move into the folder), notifications lost during a full run. `Looked` is about sets of paths: that the
comparison of strings in `shouldDiscoverLocally` computes this set is read from the code, not checked.
What the troubles lose is found by the next periodic full discovery and not before, which is all that `EventuallySynced` says of them.

### Runs

| run | checks | instance |
|---|---|---|
| `discovery` | `NothingForgotten`, `PartialRunLooks`, `TrustIsEarned`, `IInv` (with `TypeOK`) | a directory with a file, two files with a rename between them, three edits, no troubles |
| `discovery_live` | `EventuallySynced` | a directory with a file, one edit, no troubles, no periodic full discovery |
| `discovery_periodic` | `EventuallySynced` | the same with two edits, all troubles, and full discoveries that come again |

The code compares two paths at a time and looks at one item at a time, so that a path in a
directory, next to it and renamed are the cases there are. Three edits give a change before, during and
after the reading of one path. The theorems hold for every tree and every number of edits.

**Fairness** (`FairSpec`): the watcher delivers its reports; a run that is due again and again
starts, reads, does its items and ends, that is, no step fails for ever (strong fairness, since a
failure or a restart may come at any time). Nothing is assumed of the user, of new failures or of restarts.
`PeriodicSpec` adds that the interval between full discoveries is over again and again, which is the hourly default of
`ConfigFile::fullLocalDiscoveryInterval`.

### Proofs

`LocalDiscoveryProofs`, from `PathsAssumption` (`Above` is transitive and irreflexive) and, but for
`Types`, `Troubles = {}`. `NothingForgotten` is not inductive: when a run ends well the previous list is thrown
away, and it must be known that everything in it was looked at and is done. `IInv` adds what makes
this true: `DoneOrKnown` (a path that was read is done, is an item, failed, or is restless), `RestlessKnown` (a
restless path is on the list for the next run), `FullStaysDue` (a full run leaves the need for a full run in
place until it has succeeded), `Spaced` and `RunShape`. `TrustIsEarned` then follows at the one step that starts the timer.
Only model-checked: `EventuallySynced`.

## 5. Folders and their runs

`FolderMan.tla` models `FolderMan` with its queue, what `Folder` and `SyncEngine` keep of a run, the
question "Remove all files?", pausing, removal, and the end and restart of the client.

### State

| TLA+ | code |
|---|---|
| `up`, `existing` | the client runs; folders in the settings, or removed and about to delete themselves |
| `paused`, `failing`, `delayed` | `FolderDefinition::paused` (saved), `_consecutiveFailingSyncs`, the 200 ms of `slotEmitFinishedDelayed` |
| `etagJobs` | the folders whose `_requestEtagJob` is set; the time-driven check and the next etag poll pass them over |
| `connected`, `syncEnabled` | `AccountState::isConnected()`, `FolderMan::_syncEnabled` |
| `scheduled`, `current`, `startTimer` | `_scheduledFolders`, `_currentSyncFolder` (a plain pointer), `_startScheduledSyncTimer` |
| `running`, `discovery`, `propagator` | `SyncEngine::_syncRunning`, `_discoveryPhase` and `_propagator`: a run is discovery, then propagation, then `finalize` |
| `posted` | queued calls in order: start of the engine, deletion of a discovery, end of propagation, end of the run |
| `questions` | open dialogs with the pause state from before; `live` is for the properties: the run that asks has not ended |

A handler is one action. Why a folder is scheduled (watcher, etag, interval, follow-up) is left
out: `Schedule` may come at any time. So may an early end of a run, the arrival of an etag while a
wizard is open (`Folder::etagRetreived` re-enables syncing under it, at the end of an etag job), and `Stop`.
A dialog keeps the user from the settings, but not from the tray, nor from other dialogs. Left out: that
`fatalError` may come twice from one discovery and end the run twice; several accounts.

### Run

`folders` checks two folders with `RetryLimit` 2 (3 in the code), one forced sync, one delayed end per
folder at a time, and one etag job at a time (a job that waits for that of the other folder would do as much); some 352,000 states. Two folders are enough for one to wait for the other, and the queue never compares more than its head
with the folder that runs; a limit of 2 has a retry and a failure too many; the forced sync is the only action whose
repetition would make the state grow, together with delayed ends.

| property | what it says |
|---|---|
| `AtMostOneRun` | between the marker, the posted start and the engine there is never a second run |
| `MarkerIsReleased` | a current folder has a run, or its start or end on the way |
| `QueueIsWatched`, `QueueMoves` | no lost wakeup, and a scheduled folder is taken from the queue in the end |
| `OfflineQueueIsEmpty` | by whatever way a folder is asked for, nothing waits without a connection |
| `QuestionHoldsRun` | nothing is propagated while the user is asked |
| `FailedIsRetried` | a folder whose run failed is tried again, up to the limit |

**Fairness**: posted calls and the delayed end come (event loop); discovery and propagation end (the latter is `Terminates` of
`Propagator`); the user closes a wizard and answers a question, which the code waits for without
a limit; etag jobs end; the time-driven check (`_timeScheduler`, every 5 s) finds a failed folder, if between its etag jobs there is time again and again,
which are asked for every 30 s, hence the strong fairness of `ScheduleByTime`. This assumes that their replies do not fill these 30 s each time, and that no etag job is lost:
`JobQueue::clear` forgets one that waits for its retry, and its pointer stays (`lost` in section 8). Then the folder is never tried
again (trouble "lost etag job", `MCLostEtagJob.cfg`). The start timer has
strong fairness while syncing is enabled: a user who opens and closes wizards for ever would hold it back otherwise.

`late_answer` shows that an answer after the end of its run is not ignored (`StaleAnswersIgnored`): the callback in
`slotAboutToRemoveAllFiles` looks at the engine only. "Remove" makes a propagator for the next run before its discovery is done, or
reads a discovery that is gone; "Keep" ends a run that has not asked. The other properties are
therefore checked without late answers (`Troubles`): with them `AtMostOneRun`, `QueueIsWatched` and `QuestionHoldsRun`
fail, too.

Two more things the model has that no doc promises otherwise: the folder is paused in its settings while the question is
open, and stays so if the client ends then (`folder.cpp:1210`); and what the user does about the pause
meanwhile is overwritten (`folder.cpp:1220`). A run of a paused folder that ends without problems counts as a failure.

### Proof

`FolderManProofs`: `QuestionHoldsRun` for any number of folders, if there are no late answers. On its own it
is not inductive: a live question must be known to stand between discovery and propagation (`Held`), a run must not ask twice
(`AskedOnce`, or the answer to one would leave the other behind), and whoever discovers or propagates must be running (`Phases`).
The two ways in which runs end, `Finalize` and `TerminateSyncs`, share a lemma.

`FolderManRuns`: the other invariants for any finite number of folders, any `RetryLimit` and any bounds, each from no more than it
needs. `TypeOK` and `OfflineQueueIsEmpty` hold whatever `Troubles` are. That the queue only has configured folders rests on
`UnknownPaused`: a folder is removed, and so paused, only while no question is open, nobody resumes it, and a run that is left and asks
finds it paused; or the answer would queue a folder that is deleted. `AtMostOneRun` and `QueueIsWatched` need that answers are not late,
`MarkerIsReleased` that, besides, no current folder is removed while its engine does not run (`MCRemovedCurrent.cfg`: it fails otherwise).

The core is `OneRun`: a run is in one of five stages (`NoRun`, `Starting`, `Running`, `Ended`, `Told`), and the stage says all of what
is posted and delayed; `Orphaned` is the marker of a removed folder, which no stage follows. Nothing else is ever posted, so "At most
one" and the marker follow from the stage. `Starting` and `Running` also say that a folder which leaves is past the point where
its run could ask. `Watched` (nothing runs, so the timer is active) is inductive only with the stage, since
`current = None` must mean that no engine runs; `Distinct` (no folder twice) is needed for the removals. Every request goes
through one lemma on `ScheduleFolders`; that what is left of the posted calls is a sequence of calls (`SomeLeft`) takes a least element
where one would think of induction. Only model-checked: `QueueMoves`, `FailedIsRetried`.

## 6. Uploads in chunks

`ChunkedUpload.tla` models one file and `PropagateUploadFileNG` over many runs. The upload directory and
the chunks are on the server, the transfer id is in the journal, and anything may break off between.

| TLA+ | code |
|---|---|
| `file`, `latest` | the version on the disk (its time and size as the client sees it, its content and checksum) |
| `synced`, `dbEtag`, `info` | the journal's record of the file, and `SyncJournalDb::UploadInfo` |
| `remote`, `dirs`, `chunks`, `checksums` | the server (external): the file, the upload directories, whether it knows checksums |
| `late` | requests the client no longer waits for, and the server still handles or loses |
| `job` | the job: `_transferId`, `_currentChunkOffset` and size, the range that is left (`_rangesToUpload`), `_sent`, `_removeJobError` |
| `found` | what discovery has found: a conflict, where it has taken the server's file for somebody else's, or a newer file to download |

The server is modelled by what the code relies on: a PUT writes a chunk over the one of its name, a DELETE removes one, chunks are put together in the order of their names, the MOVE is refused unless the length is
`OC-Total-Length`, the `If-Match` etag is the file's and, with checksums, the content is the announced one. `_rangesToUpload` always
is one range up to the end, since chunks are reused in the order of their offsets. So `Listed` says which chunks `markRangeAsDone` keeps by what
they are together: a row from the start of the file, to which no other chunk fits (`Reuses`). `ReusesIsMarkRangeAsDone` in `MCChunkedUpload` compares this with the loop of
the code for all directories of up to three chunks. A chunk may be read across a change
of the file, in the old or the new content, and is shorter when the file has shrunk. Only this client changes the file, so that every conflict is a false one. An old version may come back
(`Restore`) with checksums only: without them nothing could tell it apart. When the file is as the journal has it and the server's is not, discovery does not ask
whose that is (`FindNewer`; `processFileConflict` is only reached by a file that differs): it is downloaded, unless the file changes until the end of the
download, and what the client remembers of its upload is deleted.

Run `chunks`: versions of three and two units, chunks of one or two, an error limit of 1, two faults. Three units can be cut
as 1+1+1, 1+2 and 2+1, so that a resumed upload meets chunks that overlap, fit or reach beyond the smaller version; two faults are an upload
that breaks off and a retry that breaks off, or a lost reply with a change. Transfer ids are never used twice, which the random ids of the code make likely. `LateRuns = FALSE`: requests
become late only when no request of an earlier run is; otherwise they are handled or lost at once (see "Further disagreements" for the other case).

| property | what it says |
|---|---|
| `BelievedIsStored` | when the client takes the file for synchronised, the server has each byte once, in order, of one version |
| `OwnUploadIsNoConflict` | an upload whose reply was lost is recognised as one's own (with checksums), and the client remembers it for that, unless a run finds the file back in the state of the journal |
| `ChangesArrive` | a version that stays is uploaded in the end, and the client knows it, unless the user has gone back to the version of the journal under a later upload whose reply was lost |

The exceptions are what the code does (`BroughtBackStays`, `MCWentBack.cfg`): the restored file is replaced by the client's own upload. The run has some 147,000 states.

**Fairness**: runs are started again (`FailedIsRetried`, and the interval), requests are answered, and downloads end in some way. Faults and edits are bounded and not fair; a download may fail as often as you like.

Left out: the MOVE that the server finishes after the client has given up (asynchronous `HTTP 202` replies included), directories the
client leaves behind when a restart fails (nobody deletes them but the server), quota, locked files, v1 and TUS.

### Proof

`ChunkedUploadProofs`, for files and chunks of any sizes, any `ErrorLimit` and any number of faults, from `UploadAssumption` only:

* `TypeCorrect`: `TypeOK`, from the stronger `TypeInv`, by which a job that runs works for the upload in the journal;
* `NoConflict`: `OwnUploadIsNoConflict`, with `EtagInv`: either the journal has the etag of the server's file, or this file is the upload in the journal and no job
  runs, so that the id that discovery compares with is not forgotten before it was needed, or `FindNewer` has forgotten it (`FoundInv`, `NewerInv`), which
  takes a file in the state of the journal;
* `BelievedWithChecksums` and, if `~LateRuns`, `Believed`: `BelievedIsStored`.

With checksums the server compares the content, and `ContentInv` (what is stored under a version is that version) is almost enough. Without them it only compares
lengths, and the proof is about the bytes in the directory. `AgeInv` orders the versions: without `Restore` a chunk is never older than its job, and `ChunkInv` says that what
an upload of the version on the disk has, or may still get late, is of this version. `RowInv` is the core: a job at work has bytes `B` that are *in place*
(one for each position up to `next`, and ordered by name as by position), and the directory has exactly these, or fewer, or more (`Near`). Late requests make the difference: a DELETE takes
bytes away, a PUT of an earlier run adds some. Either kind alone changes the length for good, and the MOVE is refused; only if both kinds were late at once
could one make up for the other. This is what `LateInv` excludes, and why two late runs break the property. When the lengths agree, the bytes are `B`, and
`InPlaceIsWhole` says that `B` in the order of the names is the file. This rests on lemmas about the order of the server (`Ranked`: a finite set of
ordered bytes has one of each rank), and on `RowInPlace`: the row that `markRangeAsDone` keeps is in place. Only model-checked: `ChangesArrive`.

## 7. What is left alone after an error

`ErrorBlacklist.tla` models the row of one file in the blacklist: `checkErrorBlacklisting` in discovery, `createBlacklistEntry`,
`blacklistUpdate` and `PropagateItemJob::done`, run after run. A tag stands for what a row compares (time and name of an upload, etag of a
download), and `conflict` says that both sides have changed: the item then has no direction (`discovery.cpp:1047`), and nothing is compared. `report` is the status the last run gave the file, `shown` and `failed` are history variables.

Run `blacklist`: two tags, `MinTime` 1 < `Hour` 2 < `MaxTime` 6, and two counted retries. The factor of five then
passes the hour and the greatest time in one and two failures; the code compares the count with one only. `BackoffGrows` is about the numbers, `SkippedHasFailed` about who is
skipped (an upload or download only in the very state that failed; a conflict if the file has failed at all since it was last in order: that a changed conflict is looked
at again does not hold, `MCConflictIsSkipped.cfg`), `NotHiddenForever` says that time (`WF` of `Tick`) and later runs (`SF` of `Discover`, since the file may vanish in between) bring
it back.

`ErrorBlacklistProofs` proves `TypeOK`, `BackoffGrows` and `SkippedHasFailed` for all tags and times. `IInv` is `TypeOK` with
`HiddenHasFailed` (an entry that hides a file was made by a failure of the file as it was) and `UntoldHasNone` (a job that does not know of an entry has none to delete).
`ConflictIsNotHidden` treats the entries that a resolved conflict leaves behind. `_abortRequested` of the propagator, which would turn errors into soft ones, is set by nobody and left out.
What is hidden for no time at all, after a soft error, is why the type says "0 or at least `MinTime`". `NotHiddenForever` is only model-checked.

## 8. The connection of an account

`Connection.tla` models `AccountState`, `ConnectionValidator`, `HttpCredentials` with its dialog, `JobQueue` with the two guards, and
the retries of `AbstractNetworkJob`. These call one another through direct signals: a 401 to any job may start a refresh, put the account into
another state, clear the queue and start a check within one handler. The module therefore has one
variable, `account`, a record whose fields are listed with the code's names at its declaration; slots are operators from an account to an
account (`Check`, `SetState`, `Invalid`, `Result`, `Fetched`, `Asked`), composed as the code calls them, and an action is what the event loop calls.

| property | what it says |
|---|---|
| `BlockedIsHeld` | the count of the queue is no more than the guards that hold it, also after `clear` reset it under the other one |
| `HoldIsEnded` | who holds the queue has something coming that lets it go: a refresh, or a check that waits for a reply and not for the queue |
| `AskingGoesOn` | while credentials are awaited, for which every check is put off, someone is about to bring them; and the account in `AskingCredentials` asks, refreshes or checks, with a reply to come |
| `SignedOutStays` | nothing that was under way signs a user in again |
| `NobodyWaitsForever` | a job in the queue is sent again or dropped |

Run `connection` has one job with one retry next to the validator, two refreshes, one dialog and one posted unblock (further
ones change nothing, as an unblock without a hold does nothing). A second refresh overtakes the first, as when a 401 reaches the validator's
request; a second job would only repeat what the first and the validator, which has jobs in the same queue (capabilities, user, avatar: `CapsGoOn`), do. It has some 148,000 states.

**Fairness**: the reply or the timeout of a request that was sent, timers, posted calls, and the user's answer to a dialog. A connected account with an etag of
late skips the check of the timer (`recent`); but while the queue is blocked no etag arrives, so that it is not skipped for ever. Signing in and out and freshly sent jobs are not fair.

`Troubles` are what these assumptions leave out, because the code does not get out of it: a check whose capabilities wait for the queue it holds ("parked check"), a refusal that
is told to nobody ("refused refresh"), and a refresh whose request for `status.php` times out: `CheckServerJob` then emits `timeout` only and is gone, `OAuth` listens to the
other two signals (`oauth.cpp:457`, `networkjobs.cpp:445`), and `refreshFinished` never comes ("lost refresh"). That the refresh reports is therefore
an assumption about the server, not a promise of the code, and `NobodyWaitsForever` and `HoldIsEnded` say what holds under it; `MCLostRefresh.cfg` shows the jobs that wait for good otherwise.

`AskingGoesOn` leaves one case out openly: a check whose job waits in the queue (behind a refresh) and is cleared there or times out is deleted without a word to the
validator, which `AccountState` goes on taking for a check under way (`lost`). If this is in `AskingCredentials` nobody asks, nothing
checks, and the timer stays away: `MCLostCheck.cfg` finds it without any trouble.

`refused_refresh` shows that an account can be left in `AskingCredentials` with nobody asked (`AskingIsAsked`): the refresh that `slotInvalidCredentials`
starts is refused, `handleInvalidCredentials` calls it again, and it returns at once.

Seen while modelling, and part of the model:

* `JobQueue::clear` aborts the reply of a job that waits for its retry, which has finished already: the job never ends (state `lost`). For an etag job of a folder this means no more checks of its etag.
* A refresh that is answered after the user signed out stores its token again.
* A dialog of earlier, answered while the account is connected and has an etag of late, ends the check under way without starting the one its comment promises (`accountstate.cpp:424`, "we always want to restart the connection validation"); a queue it has blocked waits for the timer.
* A posted unblock may release the queue for a check that was started after it was posted (`accountstate.cpp:169`).
* A 401 to the validator starts two refreshes, one by the credentials and one by the account.

### Proof

`ConnectionProofs`, for any number of jobs, retries, refreshes and dialogs, shows every safety property of the run. The code composes its handlers, and so
does the proof: a lemma for each operator says which parts of `IInv` it keeps, and the actions only cite them. `IInv` is `TypeOK` with
`Sound` (each guard counts once, a job that has yet to be sent has a retry left, nobody holds the queue for a user who has signed out, a running delay has its
check coming), `RefreshEnds` and `CheckEnds` (the halves of `HoldIsEnded`) and `NewsComes`. Within a handler the bounds of the model may be
passed, so that the lemmas speak of `Handled` accounts, whose counts are any numbers. `Typing`, `QueueIsHeld` and `SignedOutIsKept` hold whatever `Troubles` are; `HoldsEnd` assumes that
no check is parked behind its own hold and no refresh lost, `AskingIsAnswered` besides that no refresh is refused unheard. Without these, a check in the queue waits for a hold that is not its own
(`Fits`), so for the guard of the account, so for a refresh under way. `NobodyWaitsForever` is only model-checked.

## Further disagreements

Each of these statements of the repository, or what the properties above take from its comments and tests, is violated by what the code does. `late_answer` and `refused_refresh` above are runs; the
others are configurations kept beside them, each with the one property TLC finds violated.

| configuration (module) | where | statement and behaviour |
|---|---|---|
| `MCAbortStopsScheduling.cfg` (`MCPropagator`) | `owncloudpropagator.cpp:284` | after "Abort all remaining jobs" jobs are started as long as an upload waits for its final request |
| `MCRemovalBeforeEtag.cfg` (`MCPropagator`) | `owncloudpropagator.cpp:462` | the demotion for issue #1845 misses renamed and new parents: their etag is stored before a removal below them |
| `MCLockedFailsParents.cfg` (`MCPropagator`) | `owncloudpropagator.cpp:876` | a locked folder does not fail its parents, so that their etags are stored and it is not looked at again until something else changes |
| `MCJobsFinish.cfg` (`MCPropagator`) | `propagateupload.cpp:550` | `finalize()` asks for the permissions and listens to `result` only: if this request fails the job never finishes. `Terminates` assumes that these replies are not lost |
| `MCFailedRunsAreRetried.cfg` (`MCLocalDiscovery`) | `localdiscoverytracker.h:97` | a failed run keeps all of its paths; but a directory made before the abort is erased, and with it all that was known of its contents |
| `MCFullWhenRequested.cfg` (`MCFullDiscovery`) | `folder.h:354` | the next sync is a full one; but a full run under way ends by starting the timer, and the request is lost, with changes the watcher lost after that run had read them |
| `MCRemovedCurrent.cfg` (`MCFolderMan`) | `folderman.cpp:1107` | "We want to schedule the next folder once this is done": a folder removed between its `startSync` and the start of its engine does not count as running, is deleted without a signal, and the pointer to it blocks every other folder |
| `MCStartOver.cfg` (`MCChunkedUpload`) | `propagateuploadng.cpp:270` | "just start over": when a leftover chunk cannot be deleted the new upload keeps the ranges of the old directory, and the MOVE is sent without the first part. Only the server's check of the length saves the file |
| `MCLateRuns.cfg` (`MCChunkedUpload`) | `propagateuploadng.cpp:207` | leftover chunks are deleted, as "we may end up with corruptions if there are too many chunks, or if we abort and there are still stale chunks". But chunks that earlier runs gave up on may arrive after this: late PUTs of two runs can make up the length with the same byte twice, and a server without checksums accepts the file |
| `MCSuppressedWasShown.cfg` (`MCErrorBlacklist`) | `owncloudpropagator.cpp:201` | "Suppress the error if it was and continues to be blacklisted": soft errors never shown make an entry, and the first hard error after them is suppressed |
| `MCConflictIsSkipped.cfg` (`MCErrorBlacklist`) | `syncengine.cpp:148` | "If the file has changed locally or on the server, the blacklist entry no longer applies": times and etags are compared for uploads and downloads, a conflict has no direction and is skipped in a state that was never tried |
| `MCWentBack.cfg` (`MCChunkedUpload`) | `discovery.cpp:428` | an own upload whose reply was lost is recognised, and the file, if it was modified again, uploaded over it (`connectionDroppedBeforeEtagRecieved` in `test/testchunkingng.cpp`); not so for a file brought back (`BroughtBackStays`). The reply to an upload is lost and the user restores the version of the journal: the upload counts as newer, and replaces the file |
| `MCLostEtagJob.cfg` (`MCFolderMan`) | `folderman.cpp:860` | a failed folder is tried again (`FailedIsRetried`); but an etag job that `JobQueue::clear` forgets (`jobqueue.cpp:85`) is never gone, and the check passes the folder over |
| `MCLostCheck.cfg` (`MCConnection`) | `accountstate.h:75` | "We are currently asking the user for credentials": a check whose job times out in the queue behind a refresh is waited for in vain |
| `MCLostRefresh.cfg` (`MCConnection`) | `oauth.cpp:457` | a job in the queue is sent again, or dropped (`NobodyWaitsForever`); but the timeout of `status.php` ends a refresh without a signal |

One more is a value of `Troubles`: with "parked check" (`connectionvalidator.cpp:224`) `HoldIsEnded` and `NobodyWaitsForever` of `Connection` are violated. A check that blocks the
queue, of an account that is not connected, asks for the capabilities through the queue it blocks, and waits for itself.

## Not modelled

`PROJECT.json` lists each part with the reason. Parts that could be: discovery, the status tracker, bandwidth, the updater, v1 and TUS offsets,
downloads beyond their place in the tree (see the list in section 2). Parts that hold no protocol: widgets, wizards, shell integration, excluded
files, checksums, platform file systems, the crash reporter, settings, notifications, sharing, the command line client, vendored code.

Liveness properties are only model-checked, and so are those named at the end of each section. The parts are checked one by one: no instance composes a
whole client, since each part alone has up to some hundred thousand states, and what one part assumes of the next is said in section 2.
