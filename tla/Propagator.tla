----------------------------- MODULE Propagator -----------------------------
(***************************************************************************)
(* The propagation phase of a sync run: the tree of jobs that              *)
(* OwncloudPropagator::start builds, the scheduler that walks it from a    *)
(* 3 ms timer, the cascade of `finished` signals that climbs it, and the   *)
(* abort of the whole tree.                                                *)
(*                                                                         *)
(* Everything runs on the event loop of one thread.  What happens between  *)
(* two returns to that loop is one handler, modelled here as a run of      *)
(* steps nothing else can interleave with: while `ticking`, `signal` or    *)
(* `cancelling` say that a call is in progress, only its own steps are     *)
(* enabled.                                                                *)
(***************************************************************************)
EXTENDS Integers, Sequences, FiniteSets

CONSTANTS
    Items,          \* the item jobs (PropagateItemJob): files and first jobs
    Dirs,           \* the directory jobs below the root (PropagateDirectory)
    Root,           \* the PropagateRootDirectory
    Subs,           \* the root's _subJobs composite
    Deletions,      \* the root's _dirDeletionJobs composite
    NoItem,         \* "no first job"
    Holder,         \* Holder[j]: the composite job j was appended to; a
                    \* directory names its own _subJobs composite
    First,          \* First[d]: the _firstJob of directory d, or NoItem
    Turn,           \* post-order number of the jobs and composites of the tree
    From,           \* From[c]: the least turn in the subtree of composite c
    Local,          \* item jobs that finish inside their start()
    Exclusive,      \* item jobs whose parallelism() is WaitForFinished
    Quick,          \* item jobs whose isLikelyFinishedQuickly() is true
    Uploads,        \* item jobs whose final request an abort may spare
    Chunked,        \* uploads that send several chunks in parallel
    Requests,       \* Requests[i]: how many more requests item i sends after
                    \* its first one: chunks, a checksum, a PROPFIND
    Checked,        \* items that outlive their last request: a downloaded
                    \* file is verified, the permissions of an uploaded one
                    \* are asked for
    LostReplies,    \* uploads whose permission request may fail
    Instr,          \* Instr[d]: the directory's instruction before start()
    RemovedFrom,    \* RemovedFrom[j]: for a job of Deletions, the directory
                    \* job it was removed from, or Root
    ParallelNetworkJobs,    \* SyncOptions::_parallelNetworkJobs
    NetworkLimited, \* an upload or a download limit is set
    VfsMayLock,     \* convertToPlaceholder may answer Locked
    UserMayAbort    \* SyncEngine::abort may be called while propagating

Jobs  == Items \cup Dirs
Comps == Dirs \cup {Subs, Deletions}
FirstJobs == {First[d] : d \in Dirs} \ {NoItem}

\* The jobs of composite c, without the first job of its directory; and all the jobs
\* of its subtree.
Kids(c)  == {j \in Jobs \ FirstJobs : Holder[j] = c}
Under(c) == {j \in Jobs : From[c] <= Turn[j] /\ Turn[j] < Turn[c]}

\* The tree is well formed: turns are distinct, a first job belongs to one directory
\* and comes before its other jobs, and a job is in the subtree of a composite when
\* it is its own or held by a directory of that subtree.
ASSUME TreeAssumption ==
    /\ NoItem \notin Jobs
    /\ Items \cap Dirs = {}
    /\ Root \notin Jobs \cup {Subs, Deletions}
    /\ {Subs, Deletions} \cap Jobs = {}
    /\ Subs # Deletions
    /\ IsFiniteSet(Jobs)
    /\ Holder \in [Jobs -> Comps]
    /\ First \in [Dirs -> Items \cup {NoItem}]
    /\ \A d \in Dirs : First[d] # NoItem => Holder[First[d]] = d
    /\ Turn \in [Items \cup Comps -> Nat]
    /\ \A x, y \in Items \cup Comps : Turn[x] = Turn[y] => x = y
    /\ From \in [Comps -> Nat]
    /\ Jobs = Under(Subs) \cup Under(Deletions)
    /\ \A c \in Comps, j \in Jobs :
           j \in Under(c) <=> Holder[j] = c \/ Holder[j] \in Under(c)
    /\ \A d \in Dirs : First[d] # NoItem =>
           \A j \in Kids(d) : Turn[First[d]] < Turn[j]
    /\ \A j \in Under(Deletions) : Turn[Subs] < Turn[j]

ASSUME JobAssumption ==
    /\ Local \subseteq Items
    /\ Exclusive \subseteq Items
    /\ Quick \subseteq Items
    /\ Uploads \subseteq Items \ Local
    /\ Chunked \subseteq Uploads \ Quick
    /\ Requests \in [Items -> Nat]
    /\ Checked \subseteq Items \ Local
    /\ LostReplies \subseteq Uploads \cap Checked
    /\ Instr \in [Dirs -> {"NEW", "RENAME", "UPDATE_METADATA", "REMOVE", "NONE"}]
    /\ RemovedFrom \in [{j \in Jobs : Holder[j] = Deletions} -> Dirs \cup {Root}]
    /\ ParallelNetworkJobs \in Nat
    /\ {NetworkLimited, VfsMayLock, UserMayAbort} \subseteq BOOLEAN

VARIABLES
    state,          \* PropagatorJob::_state of the jobs and of the root
    cstate,         \* _state of the composites
    hasError,       \* PropagatorCompositeJob::_hasError, set or not
    outcome,        \* the status a job finished with
    stored,         \* directories whose metadata, etag included, is in the journal
    lockedDirs,     \* directories whose metadata was left out: the folder was locked
    active,         \* OwncloudPropagator::_activeJobList
    toSend,         \* requests an item has not sent yet
    offline,        \* items out of the active list whose last callback is due
    aborting,       \* PropagateUploadFileCommon::_aborting
    posted,         \* queued calls, in the order the event loop will make them
    jobScheduled,   \* OwncloudPropagator::_jobScheduled: the 3 ms timer runs
    ticking,        \* a scheduleSelfOrChild() call is walking the tree
    asked,          \* the composites that had their own turn in that walk
    signal,         \* the job whose start() is being called, or the job or
                    \* composite that is emitting finished()
    cancelling,     \* jobs an abort() in progress still cancels
    abortCalls,     \* calls of OwncloudPropagator::abort
    abortTimers,    \* 5 s abort timers that have not fired
    sweep,          \* the queued abort() of the root: "no" before it ran, "due"
                    \* while its abortFinished() is on its way, "open" when
                    \* abortFinished() may come at any time, or never
    finished,       \* what OwncloudPropagator::finished was emitted with
    gone            \* SyncEngine has released the propagator

jobVars   == <<state, cstate, hasError, outcome, stored, lockedDirs>>
callVars  == <<ticking, asked, signal, cancelling>>
abortVars == <<abortCalls, abortTimers, sweep>>
endVars   == <<finished, gone>>
netVars   == <<toSend, offline, aborting>>
vars == <<jobVars, active, netVars, posted, jobScheduled, callVars,
          abortVars, endVars>>

JobStates == {"NotYetStarted", "Running", "Finished"}

\* SyncFileItem::Status as the job tree tells it apart.  "Success" stands for
\* Success, Restoration and Conflict, "Ignored" for FileIgnored and NoStatus,
\* "Error" for NormalError, SoftError, DetailError and BlacklistedError.
Statuses == {"Success", "Ignored", "Error", "Fatal"}

\* The statuses of a sub job that make its composite fail.
\* Slip: the list misses the recoverable errors.
OnlyFatalFails(status) == status = "Fatal"
FailsComposite(status) == status \in {"Error", "Fatal"}

NoSignal == <<"none">>
Signals  == {NoSignal} \cup ({"start"} \X Items) \cup ({"job"} \X Jobs)
            \cup ({"comp"} \X Comps)
Finalize(c) == <<"finalize", c>>
Abort       == <<"abort">>
Release     == <<"release">>
\* Call e is in queue q.
Awaits(q, e) == \E n \in DOMAIN q : q[n] = e
Events == {Finalize(c) : c \in Comps} \cup {Abort, Release}

TypeOK ==
    /\ state \in [Jobs \cup {Root} -> JobStates]
    /\ cstate \in [Comps -> JobStates]
    /\ hasError \in [Comps -> BOOLEAN]
    /\ outcome \in [Jobs -> Statuses \cup {"NoStatus"}]
    /\ stored \subseteq Dirs
    /\ lockedDirs \subseteq Dirs
    /\ active \in Seq(Items)
    /\ toSend \in [Items -> Nat]
    /\ offline \subseteq Items
    /\ aborting \subseteq Uploads
    /\ posted \in Seq(Events)
    /\ jobScheduled \in BOOLEAN
    /\ ticking \in BOOLEAN
    /\ asked \subseteq Comps
    /\ signal \in Signals
    /\ cancelling \subseteq Items
    /\ abortCalls \in Nat
    /\ abortTimers \in Nat
    /\ sweep \in {"no", "due", "open"}
    /\ finished \in {"no", "success", "failure"}
    /\ gone \in BOOLEAN
-----------------------------------------------------------------------------
(* Reading the tree.                                                       *)

\* _jobsToDo and _tasksToDo of composite c: the jobs it has not started.
Todo(c) == {j \in Kids(c) : state[j] = "NotYetStarted"}

\* _runningJobs of composite c.
RunningIn(c) == {j \in Kids(c) : state[j] = "Running"}

\* Nothing of composite c is left to start, or still runs.
\* Slip: the running jobs are not looked at.
NothingToStart(c) == Todo(c) = {}
Drained(c) == Todo(c) = {} /\ RunningIn(c) = {}

\* x comes first among the jobs or composites of S.
IsEarliest(x, S) == x \in S /\ \A y \in S : Turn[x] <= Turn[y]

\* Does a walk of the tree reach composite c?  The root asks its deletions
\* only once its sub jobs finished, a directory its composite once its first
\* job is gone.
\* Slip: the deletions do not wait for the sub jobs.
ReachedWithDeletions(c) ==
    CASE c \in {Subs, Deletions} -> TRUE
      [] OTHER -> /\ state[c] = "Running"
                  /\ First[c] # NoItem => state[First[c]] = "Finished"
Reached(c) ==
    CASE c = Subs      -> TRUE
      [] c = Deletions -> cstate[Subs] = "Finished"
      [] OTHER         -> /\ state[c] = "Running"
                          /\ First[c] # NoItem => state[First[c]] = "Finished"

\* A running job that is not parallel ends the walk when it is passed.
\* Slip: only the jobs of the composite itself are looked at, not the first jobs.
BlockedBySubJobs(c) ==
    \E w \in Exclusive \ FirstJobs : state[w] = "Running" /\ Turn[w] < Turn[c]
Blocked(c) == \E w \in Exclusive : state[w] = "Running" /\ Turn[w] < Turn[c]

\* Composites whose own turn is still to come in the current walk.
Askable == {c \in Comps \ asked : Reached(c) /\ cstate[c] # "Finished" /\ ~Blocked(c)}

\* start() takes the metadata update away from every directory something is
\* removed from, whose instruction is UPDATE_METADATA (issue #1845).
AboveRemoval(j) == {d \in Dirs : RemovedFrom[j] = d \/ RemovedFrom[j] \in Under(d)}
RemovalPending(d) == \E j \in DOMAIN RemovedFrom : d \in AboveRemoval(j)
Instruction(d) ==
    IF Instr[d] = "UPDATE_METADATA" /\ RemovalPending(d) THEN "NONE" ELSE Instr[d]

\* The limits of the scheduler.
MaximumActiveTransferJob ==
    IF NetworkLimited \/ ParallelNetworkJobs = 0 THEN 1
    ELSE IF ParallelNetworkJobs > 5 THEN 3 ELSE (ParallelNetworkJobs + 1) \div 2
HardMaximumActiveJob == IF ParallelNetworkJobs = 0 THEN 1 ELSE ParallelNetworkJobs
\* Slip: every job among the first ones is counted as a quick one.
ActiveAmongFirst ==
    Cardinality({n \in 1 .. MaximumActiveTransferJob : n <= Len(active)})
LikelyFinishedQuickly ==
    Cardinality({n \in 1 .. MaximumActiveTransferJob :
                    n <= Len(active) /\ active[n] \in Quick})
\* Slip: the hard limit is forgotten.
MayPumpPastTheLimit ==
    Len(active) < MaximumActiveTransferJob + LikelyFinishedQuickly
MayPumpAnother ==
    \/ Len(active) < MaximumActiveTransferJob
    \/ /\ Len(active) < HardMaximumActiveJob
       /\ Len(active) < MaximumActiveTransferJob + LikelyFinishedQuickly

\* The requests a job has in the active list.
InFlight(i) == \E n \in DOMAIN active : active[n] = i
Entries(i) == {n \in DOMAIN active : active[n] = i}
Leftover == {i \in Items : state[i] = "Finished" /\ InFlight(i)}

Calling == ticking \/ signal # NoSignal \/ cancelling # {} \/ Leftover # {}
Idle == ~Calling /\ sweep # "due" /\ ~gone
-----------------------------------------------------------------------------
Init ==
    /\ state = [j \in Jobs \cup {Root} |-> IF j = Root THEN "Running" ELSE "NotYetStarted"]
    /\ cstate = [c \in Comps |-> "NotYetStarted"]
    /\ hasError = [c \in Comps |-> FALSE]
    /\ outcome = [j \in Jobs |-> "NoStatus"]
    /\ stored = {} /\ lockedDirs = {}
    /\ active = <<>>
    /\ toSend = Requests
    /\ offline = {} /\ aborting = {}
    /\ posted = <<>>
    /\ jobScheduled = TRUE
    /\ ticking = FALSE /\ asked = {}
    /\ signal = NoSignal /\ cancelling = {}
    /\ abortCalls = 0 /\ abortTimers = 0 /\ sweep = "no"
    /\ finished = "no" /\ gone = FALSE

\* emitFinished: the first call emits, and SyncEngine, connected with a queued
\* connection, will release the propagator.
EmitFinished(status) ==
    IF finished = "no"
    THEN /\ finished' = status
         /\ posted' = Append(posted, Release)
    ELSE UNCHANGED <<finished, posted>>

\* The 3 ms timer fires.
Tick ==
    /\ Idle /\ jobScheduled
    /\ jobScheduled' = FALSE
    /\ ticking' = (MayPumpAnother /\ state[Root] # "Finished")
    /\ asked' = {}
    /\ UNCHANGED <<jobVars, active, netVars, posted, signal, cancelling,
                   abortVars, endVars>>

\* PropagateItemJob::scheduleSelfOrChild calls start(), which runs at once since
\* all is in one thread, and returns true all the way up: the walk ends and the
\* next tick is armed.
Launch(i) ==
    /\ signal' = <<"start", i>>
    /\ ticking' = FALSE
    /\ jobScheduled' = TRUE

\* The walk reaches the turn of composite c, and c starts its next job.
AskStarts(c) ==
    /\ ticking /\ IsEarliest(c, Askable)
    /\ cstate' = [cstate EXCEPT ![c] = "Running"]
    /\ asked' = asked \cup {c}
    /\ \E j \in Todo(c) :
         /\ IsEarliest(j, Todo(c))
         /\ \/ /\ j \in Items
               /\ state' = [state EXCEPT ![j] = "Running"]
               /\ Launch(j)
            \/ /\ j \in Dirs /\ First[j] # NoItem
               /\ state' = [state EXCEPT ![j] = "Running", ![First[j]] = "Running"]
               /\ Launch(First[j])
            \/ /\ j \in Dirs /\ First[j] = NoItem
               /\ state' = [state EXCEPT ![j] = "Running"]
               /\ UNCHANGED <<signal, ticking, jobScheduled>>
    /\ UNCHANGED <<hasError, outcome, stored, lockedDirs, active, netVars,
                   posted, cancelling, abortVars, endVars>>

\* What a composite with nothing left to start posts: finalize(), if nothing of it
\* runs either.  It is posted and not called, for its parents are iterating now.
\* Slip: an empty composite is left to others.
PostsNothing(c) == posted
AfterPassing(c) == IF RunningIn(c) = {} THEN Append(posted, Finalize(c)) ELSE posted

\* The walk reaches the turn of composite c, which has nothing left to start.
AskPasses(c) ==
    /\ ticking /\ IsEarliest(c, Askable) /\ Todo(c) = {}
    /\ cstate' = [cstate EXCEPT ![c] = "Running"]
    /\ asked' = asked \cup {c}
    /\ posted' = AfterPassing(c)
    /\ UNCHANGED <<state, hasError, outcome, stored, lockedDirs, active, netVars,
                   jobScheduled, ticking, signal, cancelling, abortVars, endVars>>

\* Nobody had anything to start: scheduleSelfOrChild of the root returns false.
AskEnds ==
    /\ ticking /\ Askable = {}
    /\ ticking' = FALSE
    /\ UNCHANGED <<jobVars, active, netVars, posted, jobScheduled, asked, signal,
                   cancelling, abortVars, endVars>>
-----------------------------------------------------------------------------
(* Item jobs.                                                              *)

\* _activeJobList.removeOne(this), after which `new` entries are appended.
Replace(i, new) ==
    \E n \in Entries(i) :
        /\ \A m \in Entries(i) : n <= m
        /\ active' = SubSeq(active, 1, n - 1) \o SubSeq(active, n + 1, Len(active)) \o new

\* PropagateItemJob::done: the job emits finished(), and a fatal error aborts
\* everything.
Done(i, status) ==
    /\ state' = [state EXCEPT ![i] = "Finished"]
    /\ outcome' = [outcome EXCEPT ![i] = status]
    /\ offline' = offline \ {i}
    /\ signal' = <<"job", i>>
    /\ UNCHANGED <<cstate, hasError, stored, lockedDirs, toSend, aborting,
                   jobScheduled, ticking, asked, sweep, endVars>>

\* OwncloudPropagator::abort: `_abortRequested` is tested by every job and set by
\* nobody; what an abort does is queue abort() on the root and arm the timer.
CallAbort ==
    /\ abortCalls' = abortCalls + 1
    /\ abortTimers' = abortTimers + 1
    /\ posted' = Append(posted, Abort)

AbortIfFatal(status) ==
    \/ status = "Fatal" /\ CallAbort
    \/ status # "Fatal" /\ UNCHANGED <<posted, abortCalls, abortTimers>>

\* start() is done() with the job before it returns: a local job, a network job that
\* fails its own checks or, uploads excepted, has nothing to ask the server.
StartDone(i, status) ==
    /\ signal = <<"start", i>>
    /\ status = "Ignored" => i \in Local
    /\ i \in Uploads => status = "Error"
    /\ Done(i, status)
    /\ AbortIfFatal(status)
    /\ UNCHANGED <<active, cancelling>>

\* start() puts a network job into the active list and sends its first request.
StartNetwork(i) ==
    /\ signal = <<"start", i>> /\ i \notin Local
    /\ signal' = NoSignal
    /\ active' = Append(active, i)
    /\ UNCHANGED <<jobVars, netVars, posted, jobScheduled, ticking, asked, cancelling,
                   abortVars, endVars>>

\* The reply being awaited is the last one item i needs.
LastReply(i) ==
    InFlight(i) /\ (i \in Chunked => toSend[i] = 0 /\ Cardinality(Entries(i)) = 1)

\* A reply of a network job arrives, or times out, and finishes the job.
NetworkDone(i, status) ==
    /\ Idle /\ InFlight(i)
    /\ status # "Ignored"
    /\ status = "Success" => LastReply(i)
    /\ Done(i, status)
    /\ Replace(i, <<>>)
    /\ AbortIfFatal(status)
    /\ UNCHANGED cancelling

\* When a chunk of an upload fails its other requests are cancelled in the same call,
\* and each removes its entry.
DropEntry(i) ==
    /\ i \in Leftover /\ signal = NoSignal
    /\ Replace(i, <<>>)
    /\ UNCHANGED <<jobVars, netVars, posted, jobScheduled, callVars, abortVars, endVars>>

Repeat(i, n) == [k \in 1 .. n |-> i]

\* Slip: the request just answered is counted as one still to send.
OneRequestTooMany(i, sent) == toSend[i] - (sent + 1)
ToSendAfter(i, sent) == toSend[i] - sent

\* A request of an item is over (it may be a checksum) and others are under way or
\* left to send: its entry goes and the next request is sent.  A chunked upload sends
\* one chunk more for every slot that is free, but the last chunk goes alone.
NextRequest(i) ==
    /\ Idle /\ InFlight(i)
    /\ \E sent \in 0 .. toSend[i] :
         /\ sent # 1 => i \in Chunked
         /\ sent = 0 => toSend[i] <= 1 /\ Cardinality(Entries(i)) > 1
         /\ sent > 0 /\ Cardinality(Entries(i)) > 1 => sent < toSend[i]
         /\ sent > 1 => sent < toSend[i] /\ Len(active) - 2 + sent < MaximumActiveTransferJob
         /\ Replace(i, Repeat(i, sent))
         /\ toSend' = [toSend EXCEPT ![i] = ToSendAfter(i, sent)]
         /\ jobScheduled' \in IF sent = 0 THEN {jobScheduled} ELSE {jobScheduled, TRUE}
    /\ UNCHANGED <<jobVars, offline, aborting, posted, callVars, abortVars, endVars>>

\* The last reply arrived, and the job waits for a callback that holds no place in
\* the active list.
GoOffline(i) ==
    /\ Idle /\ i \in Checked /\ LastReply(i)
    /\ Replace(i, <<>>)
    /\ offline' = offline \cup {i}
    /\ UNCHANGED <<jobVars, toSend, aborting, posted, jobScheduled, callVars, abortVars,
                   endVars>>

CheckDone(i, status) ==
    /\ Idle /\ i \in offline
    /\ status # "Ignored"
    /\ Done(i, status)
    /\ AbortIfFatal(status)
    /\ UNCHANGED <<active, cancelling>>

\* The request for the permissions of an uploaded file fails: finalize() listens to
\* PropfindJob::result only, and nobody will call the job again.
PermissionLost(i) ==
    /\ Idle /\ i \in offline \cap LostReplies
    /\ offline' = offline \ {i}
    /\ UNCHANGED <<jobVars, active, toSend, aborting, posted, jobScheduled, callVars,
                   abortVars, endVars>>
-----------------------------------------------------------------------------
(* The finished() signals, one slot per action.                            *)

\* PropagatorCompositeJob::slotSubJobFinished and, when nothing is left, finalize.
SubJobFinished(j) ==
    LET c == Holder[j] IN
    /\ signal = <<"job", j>> /\ j \notin FirstJobs
    /\ hasError' = [hasError EXCEPT ![c] = @ \/ FailsComposite(outcome[j])]
    /\ IF Drained(c)
       THEN /\ cstate' = [cstate EXCEPT ![c] = "Finished"]
            /\ signal' = IF cstate[c] = "Finished" THEN NoSignal ELSE <<"comp", c>>
            /\ UNCHANGED jobScheduled
       ELSE /\ jobScheduled' = TRUE
            /\ signal' = NoSignal
            /\ UNCHANGED cstate
    /\ UNCHANGED <<state, outcome, stored, lockedDirs, active, netVars, posted,
                   ticking, asked, cancelling, abortVars, endVars>>

\* PropagateDirectory::slotFirstJobFinished.  The synchronous abort it makes finds
\* no running sub job: none is scheduled before the first job is gone.
FirstJobFinished(d) ==
    LET i == First[d] IN
    /\ signal = <<"job", i>> /\ i # NoItem
    /\ IF outcome[i] # "Success"
       THEN IF state[d] # "Finished"
            THEN /\ state' = [state EXCEPT ![d] = "Finished"]
                 /\ outcome' = [outcome EXCEPT ![d] = outcome[i]]
                 /\ signal' = <<"job", d>>
                 /\ UNCHANGED jobScheduled
            ELSE signal' = NoSignal /\ UNCHANGED <<state, outcome, jobScheduled>>
       ELSE /\ jobScheduled' = TRUE
            /\ signal' = NoSignal
            /\ UNCHANGED <<state, outcome>>
    /\ UNCHANGED <<cstate, hasError, stored, lockedDirs, active, netVars, posted,
                   ticking, asked, cancelling, abortVars, endVars>>

UpdatesMetadata(d) == Instruction(d) \in {"NEW", "RENAME", "UPDATE_METADATA"}

\* PropagateDirectory::slotSubJobsFinished: after a success the metadata of a new,
\* renamed or changed directory is stored.  A database error fails the directory;
\* a locked folder does not, though its metadata is not stored.
SubJobsFinished(d) ==
    /\ signal = <<"comp", d>>
    /\ \E status \in {"Success", "Error", "Fatal"} :
         /\ status = "Error" <=> hasError[d]
         /\ status = "Fatal" => UpdatesMetadata(d)
         /\ outcome' = [outcome EXCEPT ![d] = status]
         /\ \/ /\ status # "Success" \/ ~UpdatesMetadata(d)
               /\ UNCHANGED <<stored, lockedDirs>>
            \/ /\ status = "Success" /\ UpdatesMetadata(d)
               /\ stored' = stored \cup {d} /\ UNCHANGED lockedDirs
            \/ /\ status = "Success" /\ UpdatesMetadata(d) /\ VfsMayLock
               /\ lockedDirs' = lockedDirs \cup {d} /\ UNCHANGED stored
    /\ state' = [state EXCEPT ![d] = "Finished"]
    /\ signal' = <<"job", d>>
    /\ UNCHANGED <<cstate, hasError, active, netVars, posted, jobScheduled,
                   ticking, asked, cancelling, abortVars, endVars>>

\* PropagateRootDirectory::slotSubJobsFinished: an error ends the run, otherwise
\* the directory deletions get their turn.
RootSubJobsFinished ==
    /\ signal = <<"comp", Subs>>
    /\ signal' = NoSignal
    /\ IF hasError[Subs] /\ state[Root] # "Finished"
       THEN /\ state' = [state EXCEPT ![Root] = "Finished"]
            /\ EmitFinished("failure")
            /\ UNCHANGED jobScheduled
       ELSE /\ jobScheduled' = (jobScheduled \/ ~hasError[Subs])
            /\ UNCHANGED <<state, finished, posted>>
    /\ UNCHANGED <<cstate, hasError, outcome, stored, lockedDirs, active, netVars,
                   ticking, asked, cancelling, abortVars, gone>>

\* PropagateRootDirectory::slotDirDeletionJobsFinished.
DirDeletionJobsFinished ==
    /\ signal = <<"comp", Deletions>>
    /\ signal' = NoSignal
    /\ state' = [state EXCEPT ![Root] = "Finished"]
    /\ EmitFinished(IF hasError[Deletions] THEN "failure" ELSE "success")
    /\ UNCHANGED <<cstate, hasError, outcome, stored, lockedDirs, active, netVars,
                   jobScheduled, ticking, asked, cancelling, abortVars, gone>>

\* A posted finalize(); the walk may have posted it several times.
FinalizeComposite(c) ==
    /\ Idle /\ posted # <<>> /\ Head(posted) = Finalize(c)
    /\ posted' = Tail(posted)
    /\ cstate' = [cstate EXCEPT ![c] = "Finished"]
    /\ signal' = IF cstate[c] = "Finished" THEN NoSignal ELSE <<"comp", c>>
    /\ UNCHANGED <<state, hasError, outcome, stored, lockedDirs, active, netVars,
                   jobScheduled, ticking, asked, cancelling, abortVars, endVars>>
-----------------------------------------------------------------------------
(* Abort.                                                                  *)

UserAbort ==
    /\ UserMayAbort /\ Idle /\ abortCalls = 0
    /\ CallAbort
    /\ UNCHANGED <<jobVars, active, netVars, jobScheduled, callVars, sweep, endVars>>

\* An abort() of the root sweeps the running jobs.  Those with a reply under way
\* that can be cancelled end inside the call; a checksum or the final request of an
\* upload goes on.  When a job ends the loop runs over the very vector this job is
\* erased from, so that it is left open which other uploads the sweep reaches.
\* Slip: a job that finished is still among the running ones.
RunningItems == {i \in Items : state[i] = "Running"}
StartedItems == {i \in Items : state[i] # "NotYetStarted"}
UnderWay == {i \in Items : InFlight(i) \/ (i \in offline /\ i \in Uploads)}
Sweep ==
    \E reached \in SUBSET (RunningItems \cap Uploads) :
        /\ cancelling' \in SUBSET ((UnderWay \ Uploads) \cup ((reached \cap UnderWay) \ aborting))
        /\ cancelling' \subseteq Uploads => reached = RunningItems \cap Uploads
        /\ aborting' = aborting \cup reached

\* The queued abort() of the root.  Without an upload every abortFinished() comes at
\* once; an upload waits for its requests, forever if it is asked a second time.
AbortEvent ==
    /\ Idle /\ posted # <<>> /\ Head(posted) = Abort
    /\ posted' = Tail(posted)
    /\ Sweep
    /\ sweep' = IF RunningItems \cap Uploads = {} THEN "due" ELSE "open"
    /\ UNCHANGED <<jobVars, active, toSend, offline, jobScheduled, ticking, asked, signal,
                   abortCalls, abortTimers, endVars>>

\* reply->abort() of a job the sweep reached: OperationCanceledError is classified
\* as fatal, done() runs at once and calls abort() again.
CancelItem(i) ==
    /\ i \in cancelling \ Uploads /\ signal = NoSignal
    /\ cancelling' = cancelling \ {i}
    /\ Done(i, "Fatal")
    /\ Replace(i, <<>>)
    /\ AbortIfFatal("Fatal")

\* The same for an upload: abortWithError finds `_aborting` set and does not call
\* done().  The requests end one by one, and the job never finishes.
CancelUpload(i) ==
    /\ i \in cancelling \cap Uploads /\ signal = NoSignal
    /\ \/ Replace(i, <<>>) /\ UNCHANGED <<cancelling, offline>>
       \/ /\ ~InFlight(i)
          /\ cancelling' = cancelling \ {i}
          /\ offline' = offline \ {i}
          /\ UNCHANGED active
    /\ UNCHANGED <<jobVars, toSend, aborting, posted, jobScheduled, ticking, asked, signal,
                   abortVars, endVars>>

\* A request that was spared by the abort, or sent after it, fails: done() is not
\* called either.
Swallowed(i) ==
    /\ Idle /\ i \in aborting
    /\ Replace(i, <<>>)
    /\ UNCHANGED <<jobVars, netVars, posted, jobScheduled, callVars, abortVars, endVars>>

\* The abortFinished() of the root reaches the propagator.
AbortFinished ==
    /\ ~Calling /\ ~gone
    /\ sweep = "due" \/ (sweep = "open" /\ finished = "no")
    /\ sweep' = "open"
    /\ EmitFinished("failure")
    /\ UNCHANGED <<jobVars, active, netVars, jobScheduled, callVars, abortCalls,
                   abortTimers, gone>>

\* Five seconds after a call of abort(): the root is swept once more, no matter how
\* far that gets.
AbortTimeout ==
    /\ Idle /\ abortTimers > 0
    /\ abortTimers' = abortTimers - 1
    /\ Sweep
    /\ EmitFinished("failure")
    /\ UNCHANGED <<jobVars, active, toSend, offline, jobScheduled, ticking, asked, signal,
                   abortCalls, sweep, gone>>

\* SyncEngine::slotPropagationFinished, queued: finalize() clears the propagator
\* and with it every job, timer and posted call.
ReleasePropagator ==
    /\ Idle /\ posted # <<>> /\ Head(posted) = Release
    /\ gone' = TRUE
    /\ active' = <<>> /\ posted' = <<>> /\ abortTimers' = 0 /\ jobScheduled' = FALSE
    /\ UNCHANGED <<jobVars, netVars, callVars, abortCalls, sweep, finished>>

Released == gone /\ UNCHANGED vars
-----------------------------------------------------------------------------
Step(i) ==
    \/ \E status \in Statuses :
           StartDone(i, status) \/ NetworkDone(i, status) \/ CheckDone(i, status)
    \/ StartNetwork(i) \/ NextRequest(i) \/ GoOffline(i) \/ PermissionLost(i)
    \/ DropEntry(i) \/ CancelItem(i) \/ CancelUpload(i) \/ Swallowed(i)

Next ==
    \/ Tick \/ AskEnds
    \/ \E c \in Comps : AskStarts(c) \/ AskPasses(c) \/ FinalizeComposite(c)
    \/ \E i \in Items : Step(i)
    \/ \E j \in Jobs : SubJobFinished(j)
    \/ \E d \in Dirs : FirstJobFinished(d) \/ SubJobsFinished(d)
    \/ RootSubJobsFinished \/ DirDeletionJobsFinished
    \/ UserAbort \/ AbortEvent \/ AbortFinished \/ AbortTimeout
    \/ ReleasePropagator \/ Released

Spec == Init /\ [][Next]_vars

\* The event loop runs: armed timers fire, posted calls and the steps of a call in
\* progress are made.  Every request is answered or times out (AbstractNetworkJob),
\* so an item with requests under way makes progress.
Fairness ==
    /\ WF_vars(Tick) /\ WF_vars(AskEnds)
    /\ \A c \in Comps : WF_vars(AskStarts(c) \/ AskPasses(c) \/ FinalizeComposite(c))
    /\ \A i \in Items : WF_vars(Step(i))
    /\ \A j \in Jobs : WF_vars(SubJobFinished(j))
    /\ \A d \in Dirs : WF_vars(FirstJobFinished(d) \/ SubJobsFinished(d))
    /\ WF_vars(RootSubJobsFinished \/ DirDeletionJobsFinished)
    /\ WF_vars(AbortEvent) /\ WF_vars(AbortFinished /\ sweep = "due")
    /\ WF_vars(AbortTimeout) /\ WF_vars(ReleasePropagator)

FairSpec == Spec /\ Fairness
-----------------------------------------------------------------------------
(* What must hold.                                                         *)

\* Job j ended well, or it was never started because a directory above it, in S,
\* was given up as ignored.
WellDone(j) == state[j] = "Finished" /\ outcome[j] \in {"Success", "Ignored"}
GivenUp(j, S) ==
    /\ state[j] = "NotYetStarted"
    /\ \E d \in S \cap Dirs : outcome[d] = "Ignored" /\ j \in Under(d)

\* The etag of a directory is stored only when everything below it was
\* propagated: stored too early, the next sync would take the directory for
\* unchanged and never finish the work.  (slotSubJobFinished, slotSubJobsFinished)
EtagLast ==
    \A d \in stored : \A j \in Under(d) : WellDone(j) \/ GivenUp(j, Under(d))

\* Directories are deleted after everything else has been propagated without an
\* error, since there may be moves out of them.
\* (PropagateRootDirectory::scheduleSelfOrChild)
DeletionsLast ==
    (\E r \in Under(Deletions) : state[r] # "NotYetStarted")
        => \A j \in Under(Subs) : WellDone(j) \/ GivenUp(j, Jobs)

\* Propagation reports success only if every job of the tree ended well.
SuccessIsTrue ==
    finished = "success" => \A j \in Jobs : WellDone(j) \/ GivenUp(j, Jobs)

\* Unless it is aborted, propagation does not end while a job still runs: the
\* propagator and its jobs are deleted at the end, whatever they are doing.
QuietEnd ==
    finished # "no" /\ abortCalls = 0 => \A j \in Jobs : state[j] # "Running"

\* done() is called once for a job: whoever is about to call it finds the job
\* running.  (OC_ENFORCE in PropagateItemJob::done)
NeverDoneTwice ==
    \A i \in Items :
        i \in cancelling \cup offline \/ signal = <<"start", i>> => state[i] = "Running"

\* The list of active jobs never outgrows the hard limit, whatever the scheduler and
\* the chunks of the uploads add to it.
ParallelLimit == Len(active) <= HardMaximumActiveJob

\* The jobs using bandwidth (those not likely finished quickly) stay below the
\* limit for transfers.  (owncloudpropagator.h:451)
Slow == {n \in DOMAIN active : active[n] \notin Quick}
TransferLimit == Cardinality(Slow) <= MaximumActiveTransferJob

\* While a job that is not parallel runs, no job that comes after it in the tree is
\* started: jobs below it rely on what it does (a directory moved or renamed).
FollowersWait ==
    [][\A w \in Exclusive, i \in Items :
         /\ state[w] = "Running" /\ i # w
         /\ state[i] = "NotYetStarted" /\ state'[i] # "NotYetStarted"
         => Turn[i] < Turn[w]]_vars

\* "Abort all remaining jobs": no job is started once the root was aborted.
\* (owncloudpropagator.cpp:284)
AbortStopsScheduling ==
    [][\A i \in Items : sweep # "no" /\ finished = "no" /\ state[i] = "NotYetStarted"
                          => state'[i] = "NotYetStarted"]_vars

\* "We should not update the etag of parent directories of the removed directory
\* since it would be done before the actual remove".  (owncloudpropagator.cpp:462)
RemovalBeforeEtag ==
    \A j \in DOMAIN RemovedFrom : \A d \in AboveRemoval(j) :
        d \in stored => state[j] = "Finished"

\* "Any sub job error will cause the whole composite to fail. This is important for
\* knowing whether to update the etag in PropagateDirectory": the etag is stored
\* above no directory that reports an error of its own, being locked.
\* (owncloudpropagator.cpp:876)
LockedFailsParents == \A d \in stored : lockedDirs \cap Under(d) = {}

\* "Emitted when the job is fully finished", said of finished(): a job that was
\* started finishes, unless the propagator is released first.
\* (owncloudpropagator.h:130)
JobsFinish == \A i \in Items : state[i] = "Running" ~> state[i] = "Finished" \/ gone

\* Propagation always comes to an end.
Terminates == <>gone
-----------------------------------------------------------------------------
(* Why it holds: an inductive invariant.                                   *)

\* A job has a status exactly when it is finished.
IndOutcome == \A j \in Jobs : outcome[j] = "NoStatus" <=> state[j] # "Finished"

\* Work starts from the top.
IndStarted ==
    /\ \A j \in Jobs \ FirstJobs :
           state[j] # "NotYetStarted" => cstate[Holder[j]] # "NotYetStarted"
    /\ \A d \in Dirs : cstate[d] # "NotYetStarted" => state[d] # "NotYetStarted"
    /\ \A d \in Dirs : First[d] # NoItem =>
           (state[First[d]] = "NotYetStarted" <=> state[d] = "NotYetStarted")
    /\ \A j \in Under(Deletions) :
           state[j] # "NotYetStarted" => cstate[Deletions] # "NotYetStarted"

\* The sub jobs of a directory start after its first job succeeded.
IndFirst ==
    \A d \in Dirs : First[d] # NoItem =>
        /\ cstate[d] # "NotYetStarted" =>
               /\ state[First[d]] = "Finished" /\ outcome[First[d]] = "Success"
               /\ signal # <<"job", First[d]>>
        /\ state[d] = "Running" /\ state[First[d]] = "Finished" =>
               outcome[First[d]] = "Success" \/ signal = <<"job", First[d]>>

\* A directory finishes when its composite does, or when its first job fails it.
IndDir ==
    \A d \in Dirs :
        /\ cstate[d] = "Finished" => state[d] = "Finished" \/ signal = <<"comp", d>>
        /\ state[d] = "Finished" =>
               \/ cstate[d] = "Finished"
               \/ /\ cstate[d] = "NotYetStarted" /\ First[d] # NoItem
                  /\ outcome[d] = outcome[First[d]]
        /\ outcome[d] = "Success" => cstate[d] = "Finished" /\ ~hasError[d]
        /\ outcome[d] = "Ignored" => cstate[d] = "NotYetStarted"

\* A composite finishes after its jobs, and knows of their errors.
IndComposite ==
    \A c \in Comps : \A j \in Kids(c) :
        /\ cstate[c] = "Finished" => state[j] = "Finished" /\ signal # <<"job", j>>
        /\ outcome[j] \in {"Error", "Fatal"} /\ signal # <<"job", j>> => hasError[c]

\* What a call in progress is about.
IndSignal ==
    /\ \A j \in Jobs : signal = <<"job", j>> => state[j] = "Finished"
    /\ \A c \in Comps : signal = <<"comp", c>> => cstate[c] = "Finished"
    /\ \A d \in Dirs : signal = <<"comp", d>> => state[d] = "Running"
    /\ ticking => signal = NoSignal /\ cancelling = {} /\ state[Root] = "Running"

\* The deletions begin after the sub jobs succeeded, and end last.
IndRoot ==
    /\ state[Root] # "NotYetStarted"
    /\ cstate[Subs] = "Finished" /\ hasError[Subs] =>
           state[Root] = "Finished" \/ signal = <<"comp", Subs>>
    /\ cstate[Deletions] # "NotYetStarted" => cstate[Subs] = "Finished" /\ ~hasError[Subs]
    /\ finished = "success" =>
           /\ cstate[Deletions] = "Finished" /\ ~hasError[Deletions]
           /\ state[Root] = "Finished"

IndStored == \A d \in stored : outcome[d] = "Success"

\* What the event loop has still to call.
IndPosted ==
    \A c \in Comps : Awaits(posted, Finalize(c)) =>
        cstate[c] # "NotYetStarted" /\ Drained(c)

IndActive ==
    /\ \A i \in Items : InFlight(i) => state[i] # "NotYetStarted"
    /\ \A i \in cancelling \cup offline : state[i] = "Running"
    /\ \A i \in Items : signal = <<"start", i>> =>
           state[i] = "Running" /\ ~InFlight(i) /\ cancelling = {} /\ ~ticking

IndTree == IndOutcome /\ IndStarted /\ IndFirst /\ IndDir /\ IndComposite
           /\ IndSignal /\ IndRoot /\ IndStored
IInv == TypeOK /\ IndTree /\ IndPosted /\ IndActive

\* While the walk looks for a job to start, there is room for it in the active list.
Starting == ticking \/ \E i \in Items : signal = <<"start", i>>
IndLimit ==
    /\ Len(active) <= HardMaximumActiveJob
    /\ Starting => Len(active) < HardMaximumActiveJob
IndTransfer ==
    /\ TransferLimit
    /\ Starting => Cardinality(Slow) < MaximumActiveTransferJob

\* A failure nobody asked for is announced when a composite of the root finished with
\* an error.
IndEnd ==
    /\ abortTimers > 0 \/ sweep # "no" \/ Awaits(posted, Abort) => abortCalls > 0
    /\ finished = "failure" /\ abortCalls = 0 =>
           cstate[Subs] = "Finished" /\ (hasError[Subs] \/ cstate[Deletions] = "Finished")

IInvEnds == IInv /\ IndLimit /\ IndTransfer /\ IndEnd
-----------------------------------------------------------------------------
(* The propagator keeps the promise of module Propagation.                 *)

PhaseOf(i) ==
    CASE state[i] = "NotYetStarted" -> "waiting"
      [] state[i] = "Running"       -> "running"
      [] OTHER -> IF outcome[i] \in {"Success", "Ignored"} THEN "good" ELSE "bad"

Promise == INSTANCE Propagation WITH
               Early <- Items \cap Under(Subs), Late <- Items \cap Under(Deletions),
               phase <- [i \in Items |-> PhaseOf(i)], result <- finished

\* Items are worked on at most once, in the promised order, with the promised result.
KeepsPromise == Promise!Spec
=============================================================================
