--------------------------- MODULE LocalDiscovery ---------------------------
(***************************************************************************)
(* Which local paths the next sync run looks at.  A Folder keeps a         *)
(* LocalDiscoveryTracker: the file watcher adds paths to it, a run takes   *)
(* them, the items and the end of the run correct it.  From time to time,  *)
(* and whenever the tracker cannot be relied upon, a run reads the whole   *)
(* folder instead.                                                         *)
(*                                                                         *)
(* The rest of a sync run is reduced to what the tracker depends on: which *)
(* paths discovery has read, which items are to be done, how they end.     *)
(***************************************************************************)
EXTENDS Integers, FiniteSets

CONSTANTS
    Paths,      \* files and directories of the folder
    Above,      \* Above[p]: the directories p is in, however deep
    Renames,    \* pairs <<old, new>> of files the user may move
    NoPath,
    Troubles,   \* what may go wrong around the watcher, see TroubleKinds
    MaxEdits    \* bound on the changes by the user

Below(d) == {p \in Paths : d \in Above[p]}

\* "burst": a path changes again within a second of being reported.  "drop": a
\* directory appears with its contents and is reported alone.  "loss": the watcher
\* loses notifications while a full discovery is under way.
TroubleKinds == {"burst", "drop", "loss"}

ASSUME PathsAssumption ==
    /\ Above \in [Paths -> SUBSET Paths]
    /\ \A p \in Paths : p \notin Above[p] /\ \A d \in Above[p] : Above[d] \subseteq Above[p]
    /\ NoPath \notin Paths
    /\ Renames \subseteq Paths \X Paths
    /\ Troubles \subseteq TroubleKinds
    /\ MaxEdits \in Nat

VARIABLES
    dirty,      \* paths whose local state is not yet what the journal says
    notices,    \* changes the watcher has yet to report
    reported,   \* FolderWatcher::_lastPaths, while it is less than a second old
    reliable,   \* FolderWatcher::isReliable()
    localDiscoveryPaths,            \* LocalDiscoveryTracker
    previousLocalDiscoveryPaths,
    timer,      \* Folder::_timeSinceLastFullLocalDiscovery
    phase,      \* how far the sync run is
    style,      \* SyncEngine::_localDiscoveryStyle
    enginePaths,        \* SyncEngine::_localDiscoveryPaths
    lastStyle,  \* SyncEngine::_lastLocalDiscoveryStyle
    seen,       \* paths this run has read from the file system
    restless,   \* paths that changed after this run had read them
    items,      \* items of this run yet to be completed
    failed,     \* an item of this run has failed
    success,    \* the argument of SyncEngine::finished
    edits       \* changes made by the user so far

watcherVars == <<dirty, notices, reported, reliable, edits>>
trackerVars == <<localDiscoveryPaths, previousLocalDiscoveryPaths>>
engineVars  == <<style, enginePaths, lastStyle>>
runVars     == <<seen, restless, items, failed>>
vars == <<watcherVars, trackerVars, timer, phase, engineVars, runVars, success>>

Styles == {"FilesystemOnly", "DatabaseAndFilesystem"}
Items  == [file : Paths, target : {NoPath}] \cup
          {[file |-> r[1], target |-> r[2]] : r \in Renames}
Files(i) == {i.file, i.target} \ {NoPath}

TypeOK ==
    /\ dirty \subseteq Paths
    /\ notices \subseteq Paths
    /\ reported \in Paths \cup {NoPath}
    /\ reliable \in BOOLEAN
    /\ localDiscoveryPaths \subseteq Paths
    /\ previousLocalDiscoveryPaths \subseteq Paths
    /\ timer \in {"invalid", "running", "expired"}
    /\ phase \in {"idle", "starting", "discovery", "propagation", "finished"}
    /\ style \in Styles
    /\ enginePaths \subseteq Paths
    /\ lastStyle \in Styles
    /\ seen \subseteq Paths
    /\ restless \subseteq Paths
    /\ items \subseteq Items
    /\ failed \in BOOLEAN
    /\ success \in BOOLEAN
    /\ edits \in 0 .. MaxEdits

\* The next run will read the whole folder.
\* Slip: an interval that is over is not noticed.
FullUntilDoneOnce == ~reliable \/ timer = "invalid"
NextIsFull == ~reliable \/ timer # "running"

FullRunUnderWay ==
    \/ phase \in {"discovery", "propagation"} /\ style = "FilesystemOnly"
    \/ phase = "finished" /\ success /\ lastStyle = "FilesystemOnly"

\* Discovery reads p: the directory p is in is above, at or below a path it was given.
\* Slip: the directories on the way to the given paths are not read.
LookedBelow(p) ==
    style = "FilesystemOnly" \/ \E q \in enginePaths : q \in Above[p]
Looked(p) ==
    \/ style = "FilesystemOnly"
    \/ \E q \in enginePaths : q \in Above[p] \/ Above[p] \subseteq Above[q] \cup {q}

Init ==
    /\ dirty \in SUBSET Paths       \* changes made while the client did not run
    /\ notices = {} /\ reported = NoPath /\ reliable = TRUE
    /\ localDiscoveryPaths = {} /\ previousLocalDiscoveryPaths = {}
    /\ timer = "invalid"
    /\ phase = "idle"
    /\ style = "FilesystemOnly" /\ enginePaths = {} /\ lastStyle = "FilesystemOnly"
    /\ seen = {} /\ restless = {} /\ items = {} /\ failed = FALSE
    /\ success = FALSE
    /\ edits = 0

-----------------------------------------------------------------------------
(* The user and the watcher.                                               *)

\* The watcher notices one of the paths that change.
Change(changed, noticed) ==
    /\ edits < MaxEdits
    /\ noticed # reported \/ "burst" \in Troubles
    /\ edits' = edits + 1
    /\ dirty' = dirty \cup changed
    /\ notices' = notices \cup {noticed}
    /\ restless' = restless \cup (changed \cap seen)
    /\ UNCHANGED <<reported, reliable, trackerVars, timer, phase, engineVars, seen, items,
                   failed, success>>

\* A path is created, written, moved away or removed.
Edit(p) == Change({p}, p)

\* A directory is moved into the folder, or filled before it is watched.
DropIn(d) ==
    /\ "drop" \in Troubles
    /\ Below(d) # {}
    /\ Change({d} \cup Below(d), d)

\* FolderWatcher::changeDetected and Folder::slotWatchedPathChanged: the path is added
\* before anything is filtered.
Report(p) ==
    /\ p \in notices
    /\ p # reported
    /\ notices' = notices \ {p}
    /\ reported' = p
    /\ localDiscoveryPaths' = localDiscoveryPaths \cup {p}
    /\ UNCHANGED <<dirty, reliable, edits, previousLocalDiscoveryPaths, timer, phase,
                   engineVars, runVars, success>>

\* The same path as a moment ago: the watcher keeps it to itself.
SwallowReport(p) ==
    /\ p \in notices
    /\ p = reported
    /\ notices' = notices \ {p}
    /\ UNCHANGED <<dirty, reported, reliable, edits, trackerVars, timer, phase, engineVars,
                   runVars, success>>

SecondPasses ==
    /\ reported # NoPath
    /\ reported' = NoPath
    /\ UNCHANGED <<dirty, notices, reliable, edits, trackerVars, timer, phase, engineVars,
                   runVars, success>>

\* FolderWatcher::lostChanges, or a user action that wants everything read.
slotNextSyncFullLocalDiscovery ==
    /\ \E lost \in SUBSET notices :
           /\ lost = {} \/ ~FullRunUnderWay \/ "loss" \in Troubles
           /\ notices' = notices \ lost
    /\ timer' = "invalid"
    /\ UNCHANGED <<dirty, reported, reliable, edits, trackerVars, phase, engineVars,
                   runVars, success>>

\* The watches of the kernel are exhausted: further changes may go unnoticed.
BecomeUnreliable ==
    /\ reliable
    /\ reliable' = FALSE
    /\ UNCHANGED <<dirty, notices, reported, edits, trackerVars, timer, phase, engineVars,
                   runVars, success>>

\* An unreliable watcher says nothing of a change.
EditUnwatched(p) ==
    /\ ~reliable
    /\ edits < MaxEdits
    /\ edits' = edits + 1
    /\ dirty' = dirty \cup {p}
    /\ restless' = restless \cup ({p} \cap seen)
    /\ UNCHANGED <<notices, reported, reliable, trackerVars, timer, phase, engineVars, seen,
                   items, failed, success>>

\* The fullLocalDiscoveryInterval is over.
Expire ==
    /\ timer = "running"
    /\ timer' = "expired"
    /\ UNCHANGED <<watcherVars, trackerVars, phase, engineVars, runVars, success>>

\* The client is restarted, in the middle of anything: only the journal survives.
Restart ==
    /\ notices' = {} /\ reported' = NoPath /\ reliable' = TRUE
    /\ localDiscoveryPaths' = {} /\ previousLocalDiscoveryPaths' = {}
    /\ timer' = "invalid"
    /\ phase' = "idle"
    /\ style' = "FilesystemOnly" /\ enginePaths' = {} /\ lastStyle' = "FilesystemOnly"
    /\ seen' = {} /\ restless' = {} /\ items' = {} /\ failed' = FALSE
    /\ success' = FALSE
    /\ UNCHANGED <<dirty, edits>>

-----------------------------------------------------------------------------
(* A sync run.                                                             *)

\* Folder::startSync: the engine gets a copy of the paths, the tracker lets go of them,
\* and SyncEngine::startSync is posted.
StartSync ==
    /\ phase = "idle"
    /\ phase' = "starting"
    /\ IF NextIsFull
       THEN /\ style' = "FilesystemOnly"
            /\ enginePaths' = {}
            /\ previousLocalDiscoveryPaths' = {}
       ELSE /\ style' = "DatabaseAndFilesystem"
            /\ enginePaths' = localDiscoveryPaths
            /\ previousLocalDiscoveryPaths' = localDiscoveryPaths
    /\ localDiscoveryPaths' = {}
    /\ UNCHANGED <<watcherVars, timer, lastStyle, runVars, success>>

\* What the tracker keeps when the run ends.
\* Slip: a failed run is treated like a successful one.
KeptNothing(ok) == localDiscoveryPaths
KeptPaths(ok) ==
    IF ok THEN localDiscoveryPaths
          ELSE localDiscoveryPaths \cup previousLocalDiscoveryPaths

\* SyncEngine::finalize, and LocalDiscoveryTracker::slotSyncFinished, which `finished`
\* calls directly; Folder::slotSyncFinished is posted.
Finalize(ok) ==
    /\ phase' = "finished"
    /\ success' = ok
    /\ localDiscoveryPaths' = KeptPaths(ok)
    /\ previousLocalDiscoveryPaths' = {}
    /\ style' = "FilesystemOnly"
    /\ enginePaths' = {}
    /\ seen' = {} /\ restless' = {} /\ items' = {} /\ failed' = FALSE
    /\ UNCHANGED <<watcherVars, timer, lastStyle>>

\* SyncEngine::startSync as far as the discovery job.
BeginDiscovery ==
    /\ phase = "starting"
    /\ phase' = "discovery"
    /\ lastStyle' = style
    /\ UNCHANGED <<watcherVars, trackerVars, timer, style, enginePaths, runVars, success>>

\* A failure before or in discovery, an aborted or a fatal propagation.
Break ==
    /\ phase \in {"starting", "discovery", "propagation"}
    /\ Finalize(FALSE)

Readable(p) ==
    /\ phase = "discovery"
    /\ p \notin seen
    /\ Looked(p)
    /\ Above[p] \subseteq seen

\* Discovery comes to p; a change becomes an item.
Discover(p) ==
    /\ Readable(p)
    /\ seen' = seen \cup {p}
    /\ items' = items \cup {[file |-> q, target |-> NoPath] : q \in {p} \cap dirty}
    /\ UNCHANGED <<watcherVars, trackerVars, timer, phase, engineVars, restless, failed,
                   success>>

\* Discovery finds that p is what q has been renamed to; if q was taken for removed,
\* that item is cancelled.
DiscoverRename(q, p) ==
    /\ <<q, p>> \in Renames
    /\ Readable(p)
    /\ {q, p} \subseteq dirty
    /\ \A i \in items : i.file = q => i.target = NoPath
    /\ seen' = seen \cup {q, p}
    /\ items' = {i \in items : i.file # q} \cup {[file |-> q, target |-> p]}
    /\ UNCHANGED <<watcherVars, trackerVars, timer, phase, engineVars, restless, failed,
                   success>>

DiscoveryFinished ==
    /\ phase = "discovery"
    /\ \A p \in Paths : Looked(p) => p \in seen
    /\ phase' = "propagation"
    /\ UNCHANGED <<watcherVars, trackerVars, timer, engineVars, runVars, success>>

\* Nothing is done below a directory before the directory itself.
Ready(i) ==
    /\ phase = "propagation"
    /\ i \in items
    /\ \A j \in items : j.file \notin Above[i.file]

\* LocalDiscoveryTracker::slotItemCompleted for success, ignored, restoration and
\* conflict: the paths of the item need not be read again for the previous run's sake.
WipedPrevious(i) == previousLocalDiscoveryPaths \ Files(i)
\* Slip: both lists are wiped.
WipedTouched(i) == localDiscoveryPaths \ Files(i)
TouchedAfterSuccess(i) == localDiscoveryPaths
\* ... and for every other status.
\* Slip: it is the new name that is remembered.
TouchedTarget(i) == localDiscoveryPaths \cup {i.target}
TouchedAfterFailure(i) == localDiscoveryPaths \cup {i.file}

\* What was changed again after discovery stays different from the journal.
ItemSucceeds(i) ==
    /\ Ready(i)
    /\ items' = items \ {i}
    /\ dirty' = dirty \ (Files(i) \ restless)
    /\ previousLocalDiscoveryPaths' = WipedPrevious(i)
    /\ localDiscoveryPaths' = TouchedAfterSuccess(i)
    /\ UNCHANGED <<notices, reported, reliable, edits, timer, phase, engineVars, seen,
                   restless, failed, success>>

\* The jobs below a directory that failed are never run.
ItemFails(i) ==
    /\ Ready(i)
    /\ items' = {j \in items : j # i /\ i.file \notin Above[j.file]}
    /\ failed' = TRUE
    /\ localDiscoveryPaths' = TouchedAfterFailure(i)
    /\ UNCHANGED <<watcherVars, previousLocalDiscoveryPaths, timer, phase, engineVars, seen,
                   restless, success>>

PropagationFinished ==
    /\ phase = "propagation"
    /\ items = {}
    /\ Finalize(~failed)

\* Whether the interval since the last full discovery starts again.
\* Slip: whatever came of it.
RestartsAlways == lastStyle = "FilesystemOnly"
RestartsTimer == success /\ lastStyle = "FilesystemOnly"

\* Folder::slotSyncFinished.  The result of the folder can be an error or paused
\* although the engine reports success.
slotSyncFinished ==
    /\ phase = "finished"
    /\ phase' = "idle"
    /\ \E good \in BOOLEAN : timer' = IF good /\ RestartsTimer THEN "running" ELSE timer
    /\ success' = FALSE
    /\ UNCHANGED <<watcherVars, trackerVars, engineVars, runVars>>

Next ==
    \/ \E p \in Paths :
           \/ Edit(p) \/ DropIn(p) \/ EditUnwatched(p)
           \/ Report(p) \/ SwallowReport(p)
           \/ Discover(p)
    \/ \E r \in Renames : DiscoverRename(r[1], r[2])
    \/ \E i \in items : ItemSucceeds(i) \/ ItemFails(i)
    \/ SecondPasses \/ slotNextSyncFullLocalDiscovery \/ BecomeUnreliable \/ Expire
    \/ StartSync \/ BeginDiscovery \/ Break \/ DiscoveryFinished
    \/ PropagationFinished \/ slotSyncFinished
    \/ Restart

Spec == Init /\ [][Next]_vars

\* No step of a run fails for ever, and reports arrive.  Nothing is assumed of the
\* user, of the interval between full discoveries or of restarts.
FairSpec ==
    /\ Spec
    /\ \A p \in Paths : WF_vars(Report(p) \/ SwallowReport(p)) /\ SF_vars(Discover(p))
    /\ SF_vars(StartSync) /\ SF_vars(BeginDiscovery) /\ SF_vars(DiscoveryFinished)
    /\ \A i \in Items : SF_vars(ItemSucceeds(i))
    /\ SF_vars(PropagationFinished) /\ WF_vars(slotSyncFinished)

\* The same with full discoveries that come again and again.
PeriodicSpec == FairSpec /\ SF_vars(Expire)
-----------------------------------------------------------------------------
(* Properties.                                                             *)

\* p is at or below a path of S.
Covered(p, S) == \E q \in S : q = p \/ q \in Above[p]

\* LocalDiscoveryTracker: a path that is not synchronised is remembered, at least by a
\* directory it is in: by the watcher, for the next run or by the present one; or the
\* present run has yet to synchronise it, or the next one reads everything.
NothingForgotten ==
    \A p \in dirty :
        \/ Covered(p, notices \cup localDiscoveryPaths \cup previousLocalDiscoveryPaths)
        \/ phase = "propagation" /\ \E i \in items : p \in Files(i)
        \/ NextIsFull

\* SyncEngine::_localDiscoveryPaths: a run that is not full looks at every unsynchronised
\* path whose change was reported before it began, or it is left for the next one.
PartialRunLooks ==
    phase \in {"discovery", "propagation"} =>
        \A p \in dirty :
            Looked(p) \/ Covered(p, notices \cup localDiscoveryPaths) \/ NextIsFull

\* Folder::slotSyncFinished: whenever the client trusts the tracker again, what the run
\* has not synchronised is known to it.
TrustIsEarned ==
    [][timer' = "running" /\ timer # "running" =>
          \A p \in dirty : Covered(p, notices \cup localDiscoveryPaths) \/ ~reliable]_vars

\* localdiscoverytracker.h: "For failing syncs, this list will be merged into
\* _localDiscoveryPaths again when the sync is done to make sure everything is retried."
FailedRunsAreRetried ==
    [][phase # "finished" /\ phase' = "finished" /\ ~success' =>
          \A p \in dirty :
              Covered(p, enginePaths) =>
                  Covered(p, notices' \cup localDiscoveryPaths') \/ NextIsFull']_vars

\* Every change is synchronised in the end.
EventuallySynced == \A p \in Paths : p \in dirty ~> p \notin dirty

-----------------------------------------------------------------------------
(* The invariant behind these properties, when there are no Troubles.      *)

Known == notices \cup localDiscoveryPaths
Idle  == phase \in {"idle", "starting", "finished"}

Remembered == \A p \in dirty : p \in Known \cup previousLocalDiscoveryPaths \/ NextIsFull

\* What a run that has not failed leaves behind is known.
DoneOrKnown ==
    /\ phase \in {"discovery", "propagation"} =>
           \A p \in dirty \cap seen :
               \/ p \in restless
               \/ failed
               \/ \E i \in items : p \in Files(i)
    /\ phase = "propagation" => \A p \in Paths : Looked(p) => p \in seen
    /\ phase = "finished" /\ success =>
           \A p \in dirty :
               p \in Known \/ (IF lastStyle = "FilesystemOnly" THEN ~reliable ELSE NextIsFull)

\* A path that changes under the run is known, and a full run does not end the need
\* for a full run before it has succeeded.
RestlessKnown ==
    \A p \in restless \cap dirty :
        p \in Known \/ (IF style = "FilesystemOnly" THEN ~reliable ELSE NextIsFull)
FullStaysDue ==
    FullRunUnderWay \/ (phase = "starting" /\ style = "FilesystemOnly") => NextIsFull

RunShape ==
    /\ Idle => seen = {} /\ restless = {} /\ items = {} /\ failed = FALSE
    /\ phase \in {"discovery", "propagation"} => lastStyle = style
    /\ phase \in {"idle", "finished"} => previousLocalDiscoveryPaths = {}
    /\ previousLocalDiscoveryPaths \subseteq enginePaths

\* Without bursts no change waits to be reported within a second of the last report.
Spaced == reported \notin notices

IInv ==
    /\ TypeOK
    /\ Spaced
    /\ Remembered
    /\ DoneOrKnown
    /\ RestlessKnown
    /\ FullStaysDue
    /\ RunShape
=============================================================================
