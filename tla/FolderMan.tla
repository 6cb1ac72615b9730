------------------------------- MODULE FolderMan -------------------------------
(***************************************************************************)
(* Which folder syncs when, and what a run goes through: FolderMan with    *)
(* its queue, the Folders, and the life cycle of their SyncEngines.        *)
(* Everything happens on one event loop.  A handler is one action; what it *)
(* posts waits in "posted", and what it leaves to a timer or to the user   *)
(* may come at any time after that.                                        *)
(*                                                                         *)
(* Left out: what discovery and propagation do (Propagator has the         *)
(* latter), the display, and the many reasons to schedule a folder         *)
(* (watcher, etag, follow-up, interval), which are all one action that may *)
(* happen at any time.  All folders belong to one account.                 *)
(***************************************************************************)
EXTENDS Naturals, Sequences, SequencesExt, FiniteSets, FiniteSetsExt

CONSTANTS
  Folders,      \* the folders configured at the first start
  None,         \* no folder
  RetryLimit,   \* failing runs in a row after which nobody retries soon (3 in the code)
  MaxForced,    \* bound: how often the user asks for a sync at once
  MaxDelayed,   \* bound: ends of runs of one folder that wait for their 200 ms
  MaxEtagJobs,  \* bound: folders whose etag is asked for at a time
  Troubles      \* subset of {"late answer", "removed in a gap", "lost etag job"}

ASSUME FoldersAssumption ==
  /\ IsFiniteSet(Folders) /\ None \notin Folders
  /\ RetryLimit \in Nat \ {0}
  /\ MaxForced \in Nat /\ MaxDelayed \in Nat \ {0} /\ MaxEtagJobs \in Nat
  /\ Troubles \subseteq {"late answer", "removed in a gap", "lost etag job"}

VARIABLES
  up,           \* the client runs
  existing,     \* folders in the settings: "known", "leaving" (removed, to delete itself), "gone"
  paused,       \* FolderDefinition::paused, saved whenever it changes
  connected,    \* AccountState::isConnected()
  syncEnabled,  \* FolderMan::_syncEnabled
  scheduled,    \* FolderMan::_scheduledFolders
  current,      \* FolderMan::_currentSyncFolder, a plain pointer
  startTimer,   \* FolderMan::_startScheduledSyncTimer is active
  running,      \* folders whose engine has _syncRunning
  discovery,    \* SyncEngine::_discoveryPhase: "none", "active", "over", or "doomed":
                \* given up, and about to be deleted
  propagator,   \* SyncEngine::_propagator: "none", "working" or "over"
  posted,       \* queued calls, in order
  delayed,      \* Folder::slotEmitFinishedDelayed to come, for each folder
  questions,    \* open "Remove all files?" dialogs; live: the run that asks has not ended
  failing,      \* Folder::_consecutiveFailingSyncs, up to RetryLimit
  etagJobs,     \* folders with a Folder::_requestEtagJob, a guarded pointer
  forced        \* bounds the syncs forced by the user

managerVars == <<syncEnabled, scheduled, current, startTimer>>
engineVars  == <<running, discovery, propagator, posted, questions>>
folderVars  == <<existing, paused, delayed, failing, etagJobs>>
vars == <<up, connected, forced, managerVars, engineVars, folderVars>>

Call(name, f) == [call |-> name, folder |-> f]
Question      == [folder : Folders, live : BOOLEAN, oldPaused : BOOLEAN]
Known         == {f \in Folders : existing[f] = "known"}
Queued        == ToSet(scheduled)

TypeOK ==
  /\ {up, connected, syncEnabled, startTimer} \subseteq BOOLEAN
  /\ existing \in [Folders -> {"known", "leaving", "gone"}]
  /\ paused \in [Folders -> BOOLEAN]
  /\ scheduled \in Seq(Known) /\ Len(scheduled) = Cardinality(Queued)
  /\ current \in Folders \cup {None}
  /\ running \subseteq Folders
  /\ discovery \in [Folders -> {"none", "active", "over", "doomed"}]
  /\ propagator \in [Folders -> {"none", "working", "over"}]
  /\ posted \in Seq([call : {"startSync", "deleteDiscovery", "propagationFinished", "syncFinished"},
                     folder : Folders])
  /\ delayed \in [Folders -> 0 .. MaxDelayed]
  /\ questions \subseteq Question
  /\ failing \in [Folders -> 0 .. RetryLimit]
  /\ etagJobs \subseteq Folders
  /\ forced \in 0 .. MaxForced

-----------------------------------------------------------------------------
(* Folder::canSync and FolderMan::isAnySyncRunning. *)
\* Slip: the account is not asked.
NotPaused(f) == ~paused[f]
CanSync(f) == ~paused[f] /\ connected

\* Slip: the marker is not looked at.
AnyEngineRunning(c, r) == r \cap Known # {}
AnySyncRunning(c, r) == c # None \/ r \cap Known # {}

\* FolderMan::startScheduledSyncSoon with the queue q, the current folder c and the
\* running folders r: whether the timer is active after it.
\* Slip: only the first folder of a queue arms it.
SoonIfAlone(q, c, r) == startTimer \/ (Len(q) = 1 /\ ~AnySyncRunning(c, r))
Soon(q, c, r) == startTimer \/ (q # <<>> /\ ~AnySyncRunning(c, r))

\* FolderMan::scheduleFolder for each folder of "asked", of which those in "able" can sync.
\* A folder that cannot sync is not queued, and does not arm the timer either.
\* Slip: the queue is not searched.
EveryAsked(asked, able) == asked \cap able
NewlyQueued(asked, able) == (asked \cap able) \ Queued
ScheduleFolders(asked, able) ==
  LET q == scheduled \o SetToSeq(NewlyQueued(asked, able)) IN
  /\ scheduled' = q
  /\ startTimer' = IF asked \cap ToSet(q) = {} THEN startTimer ELSE Soon(q, current, running')

\* SyncEngine::finalize, with p the calls that are posted already.  A discovery that was still
\* active is deleted later, and is in the way of nobody until then.
StaleQuestions(S) ==
  {IF q.folder \in S THEN [q EXCEPT !.live = FALSE] ELSE q : q \in questions}
Finalize(f, p) ==
  LET doomed == discovery[f] = "active" IN
  /\ running' = running \ {f}
  /\ discovery' = [discovery EXCEPT ![f] = IF doomed THEN "doomed" ELSE "none"]
  /\ propagator' = [propagator EXCEPT ![f] = "none"]
  /\ posted' = p \o (IF doomed THEN <<Call("deleteDiscovery", f)>> ELSE <<>>)
                 \o <<Call("syncFinished", f)>>

\* Folder::slotTerminateSync for each folder of S.  A propagator is asked to stop, and ends in
\* its own time; a discovery ends here and now, also one whose question is open.
Aborted(S) == {f \in S \cap running : propagator[f] = "none" /\ discovery[f] # "none"}
TerminateSyncs(S) ==
  /\ running' = running \ Aborted(S)
  /\ discovery' = [f \in Folders |-> IF f \in Aborted(S) THEN "none" ELSE discovery[f]]
  /\ questions' = StaleQuestions(Aborted(S))
  /\ posted' = posted \o SetToSeq({Call("syncFinished", f) : f \in Aborted(S)})
  /\ UNCHANGED propagator

\* The dialogs lie over the settings window, and keep the user from it.
SettingsReachable == questions = {}

Init ==
  /\ up = TRUE
  /\ existing = [f \in Folders |-> "known"]
  /\ paused = [f \in Folders |-> FALSE]
  /\ connected = FALSE
  /\ forced = 0
  /\ syncEnabled = TRUE /\ scheduled = <<>> /\ current = None /\ startTimer = FALSE
  /\ running = {} /\ posted = <<>> /\ questions = {}
  /\ discovery = [f \in Folders |-> "none"] /\ propagator = [f \in Folders |-> "none"]
  /\ delayed = [f \in Folders |-> 0] /\ failing = [f \in Folders |-> 0]
  /\ etagJobs = {}

-----------------------------------------------------------------------------
(* FolderMan. *)

\* Some reason to sync f: its watcher, a follow-up, the interval, the user.
Schedule(f) ==
  /\ up /\ f \in Known
  /\ UNCHANGED <<up, connected, forced, syncEnabled, current, engineVars, folderVars>>
  /\ ScheduleFolders({f}, {g \in Known : CanSync(g)})

\* slotScheduleFolderByTime retries a folder whose last runs failed, up to a limit, but not while
\* the server is asked for its etag.
\* Slip: the first failure does not count.
RetriesFromSecond(f) == failing[f] \in 2 .. RetryLimit - 1
Retries(f) == failing[f] \in 1 .. RetryLimit - 1
ScheduleByTime(f) ==
  /\ up /\ f \in Known /\ CanSync(f) /\ f \notin etagJobs /\ Retries(f)
  /\ UNCHANGED <<up, connected, forced, syncEnabled, current, engineVars, folderVars>>
  /\ ScheduleFolders({f}, {f})

\* AccountSettings::slotForceSyncCurrentFolder: what runs is terminated and queued again,
\* and the selected folder goes to the front (scheduleFolderNext).  removeAll() removes one entry at
\* most, here and below: the queue has no folder twice (TypeOK).
ForceSync(f) ==
  /\ up /\ SettingsReachable /\ f \in Known /\ forced < MaxForced
  /\ forced' = forced + 1
  /\ LET again == {g \in running \cap Known : CanSync(g)}
         q     == scheduled \o SetToSeq(again \ Queued)
         front == IF CanSync(f) THEN <<f>> \o RemoveFirst(q, f) ELSE q
     IN  /\ TerminateSyncs(running \cap Known)
         /\ scheduled' = front
         /\ startTimer' = IF CanSync(f) \/ running \cap ToSet(q) # {}
                            THEN Soon(front, current, running')
                            ELSE startTimer
  /\ UNCHANGED <<up, connected, syncEnabled, current, folderVars>>

\* slotStartScheduledFolderSync takes folders from the queue up to the first that can sync, and
\* Folder::startSync posts the start of its engine; when the list of excluded files cannot
\* be read it posts the end instead.  The timer was armed after any earlier start was posted.
StartScheduledFolderSync ==
  /\ up /\ startTimer
  /\ \A i \in DOMAIN posted : posted[i].call # "startSync"
  /\ startTimer' = FALSE
  /\ \/ /\ AnySyncRunning(current, running) \/ ~syncEnabled
        /\ UNCHANGED <<scheduled, current, posted>>
     \/ /\ ~AnySyncRunning(current, running) /\ syncEnabled
        /\ LET ready == {i \in DOMAIN scheduled : CanSync(scheduled[i])} IN
           IF ready = {}
           THEN scheduled' = <<>> /\ UNCHANGED <<current, posted>>
           ELSE LET f == scheduled[Min(ready)] IN
                /\ scheduled' = SubSeq(scheduled, Min(ready) + 1, Len(scheduled))
                /\ current' = f
                /\ \E call \in {"startSync", "syncFinished"} : posted' = Append(posted, Call(call, f))
  /\ UNCHANGED <<up, connected, forced, syncEnabled, running, discovery, propagator, questions, folderVars>>

\* slotAccountStateChanged.
Connect ==
  /\ up /\ ~connected
  /\ connected' = TRUE
  /\ UNCHANGED <<up, forced, syncEnabled, current, engineVars, folderVars>>
  /\ LET able == {f \in Known : ~paused[f]} IN ScheduleFolders(able, able)

Disconnect ==
  /\ up /\ connected
  /\ connected' = FALSE
  /\ TerminateSyncs(running \cap Known)
  /\ scheduled' = <<>>
  /\ UNCHANGED <<up, forced, syncEnabled, current, startTimer, folderVars>>

\* setSyncEnabled: a wizard holds the queue while it is open.
OpenWizard ==
  /\ up /\ SettingsReachable
  /\ syncEnabled' = FALSE
  /\ UNCHANGED <<up, connected, forced, scheduled, current, startTimer, engineVars, folderVars>>

\* setSyncEnabled(true), here when the wizard is closed.
\* Slip: the queue is left to the next request.
NoTimerOnEnabling == startTimer
TimerOnEnabling == Soon(scheduled, current, running)
EnableSync ==
  /\ up /\ ~syncEnabled
  /\ syncEnabled' = TRUE
  /\ startTimer' = TimerOnEnabling
  /\ UNCHANGED <<up, connected, forced, scheduled, current, engineVars, folderVars>>

\* Folder::slotRunEtagJob, which the etag poll has posted.
RunEtagJob(f) ==
  /\ up /\ f \in Known /\ CanSync(f) /\ f \notin etagJobs
  /\ Cardinality(etagJobs) < MaxEtagJobs
  /\ etagJobs' = etagJobs \cup {f}
  /\ UNCHANGED <<up, connected, forced, managerVars, engineVars, existing, paused, delayed, failing>>

\* The job fails or times out, or Folder::etagRetreived gets an etag that is the last one, or another
\* one: any etag enables syncing ("if it was disabled because network was down").
EtagJobEnds(f) ==
  /\ up /\ f \in etagJobs
  /\ etagJobs' = etagJobs \ {f}
  /\ UNCHANGED <<up, connected, forced, current, engineVars, existing, paused, delayed, failing>>
  /\ \/ UNCHANGED <<syncEnabled, scheduled, startTimer>>
     \/ /\ syncEnabled' = TRUE
        /\ startTimer' = IF syncEnabled THEN startTimer ELSE TimerOnEnabling
        /\ UNCHANGED scheduled
     \/ /\ syncEnabled' = TRUE
        /\ f \in Known /\ CanSync(f)
        /\ ScheduleFolders({f}, {f})

\* Queued calls of a deleted object are gone; the others keep their order.
WithoutCallsOf(f) ==
  LET kept   == {i \in DOMAIN posted : posted[i].folder # f}
      nth(k) == CHOOSE i \in kept : Cardinality({j \in kept : j <= i}) = k
  IN  [k \in 1 .. Cardinality(kept) |-> posted[nth(k)]]

\* Whatever belonged to a folder that is deleted.  The manager's pointer to it stays.
Delete(f) ==
  /\ existing' = [existing EXCEPT ![f] = "gone"]
  /\ delayed' = [delayed EXCEPT ![f] = 0]
  /\ failing' = [failing EXCEPT ![f] = 0]
  /\ etagJobs' = etagJobs \ {f}
  /\ running' = running \ {f}
  /\ discovery' = [discovery EXCEPT ![f] = "none"]
  /\ propagator' = [propagator EXCEPT ![f] = "none"]
  /\ posted' = WithoutCallsOf(f)
  /\ questions' = {q \in questions : q.folder # f}

\* removeFolder: a running folder is terminated and deletes itself after its end has been heard,
\* any other is deleted at once.
RemoveFolder(f) ==
  /\ up /\ SettingsReachable /\ f \in Known
  /\ "removed in a gap" \notin Troubles => (f = current => f \in running)
  /\ scheduled' = RemoveFirst(scheduled, f)
  /\ paused' = [paused EXCEPT ![f] = TRUE]
  /\ \/ /\ f \in running
        /\ TerminateSyncs({f})
        /\ existing' = [existing EXCEPT ![f] = "leaving"]
        /\ UNCHANGED <<delayed, failing, etagJobs>>
     \/ f \notin running /\ Delete(f)
  /\ UNCHANGED <<up, connected, forced, syncEnabled, current, startTimer>>

-----------------------------------------------------------------------------
(* Pausing: in the settings for one folder, in the tray menu for all. *)

\* The question whether to terminate a run may be answered after the tray has paused the folder.
TogglePause(f) ==
  /\ up /\ SettingsReachable /\ f \in Known
  /\ paused' = [paused EXCEPT ![f] = ~@]
  /\ IF paused[f]
       THEN /\ TerminateSyncs({f}) \/ UNCHANGED engineVars
            /\ ScheduleFolders({f}, {g \in {f} : connected})
       ELSE TerminateSyncs({f}) /\ UNCHANGED <<scheduled, startTimer>>
  /\ UNCHANGED <<up, connected, forced, syncEnabled, current, existing, delayed, failing, etagJobs>>

PauseAll ==
  /\ up
  /\ paused' = [f \in Folders |-> paused[f] \/ f \in Known]
  /\ TerminateSyncs(running \cap Known)
  /\ UNCHANGED <<up, connected, forced, managerVars, existing, delayed, failing, etagJobs>>

ResumeAll ==
  /\ up
  /\ paused' = [f \in Folders |-> paused[f] /\ f \notin Known]
  /\ UNCHANGED <<up, connected, forced, syncEnabled, current, engineVars, existing, delayed, failing, etagJobs>>
  /\ LET resumed == {f \in Known : paused[f]} IN
     ScheduleFolders(resumed, {f \in resumed : connected})

-----------------------------------------------------------------------------
(* A run. *)

IsNext(name, f) == up /\ posted # <<>> /\ Head(posted) = Call(name, f)

\* SyncEngine::startSync: the run may end before it began (no folder, no space, no journal).
EngineStart(f) ==
  /\ IsNext("startSync", f)
  /\ IF f \in running
       THEN posted' = Tail(posted) /\ UNCHANGED <<running, discovery>>
       ELSE \/ /\ posted' = Tail(posted)
               /\ running' = running \cup {f}
               /\ discovery' = [discovery EXCEPT ![f] = "active"]
            \/ /\ posted' = Append(Tail(posted), Call("syncFinished", f))
               /\ UNCHANGED <<running, discovery>>
  /\ UNCHANGED <<up, connected, forced, managerVars, propagator, questions, folderVars>>

\* DiscoveryPhase::fatalError.  That it may come again before the phase is deleted, and end the run
\* twice, is left out.
DiscoveryFails(f) ==
  /\ up /\ discovery[f] = "active"
  /\ Finalize(f, posted)
  /\ questions' = StaleQuestions({f})
  /\ UNCHANGED <<up, connected, forced, managerVars, folderVars>>

DeleteDiscovery(f) ==
  /\ IsNext("deleteDiscovery", f)
  /\ posted' = Tail(posted)
  /\ discovery' = [discovery EXCEPT ![f] = IF @ = "doomed" THEN "none" ELSE @]
  /\ UNCHANGED <<up, connected, forced, managerVars, running, propagator, questions, folderVars>>

\* slotDiscoveryFinished.  When everything is about to be removed (and the user wants to be asked),
\* slotAboutToRemoveAllFiles opens a dialog and pauses the folder; otherwise "finish" makes a propagator.
\* Slip: it does not return after it has asked.
PropagatesAtOnce(f) == [propagator EXCEPT ![f] = "working"]
WhileAsking(f) == propagator
DiscoveryFinishes(f) ==
  /\ up /\ discovery[f] = "active"
  /\ discovery' = [discovery EXCEPT ![f] = "over"]
  /\ \/ /\ propagator' = [propagator EXCEPT ![f] = "working"]
        /\ UNCHANGED <<paused, questions>>
     \/ /\ questions' = questions \cup {[folder |-> f, live |-> TRUE, oldPaused |-> paused[f]]}
        /\ paused' = [paused EXCEPT ![f] = TRUE]
        /\ propagator' = WhileAsking(f)
  /\ UNCHANGED <<up, connected, forced, managerVars, running, posted, existing, delayed, failing, etagJobs>>

\* The user's answer.  The callback knows the engine, not the run.  Afterwards the pause state is
\* what it was before the question, which may schedule the folder.
RestorePaused(q, asked) ==
  LET f == q.folder
      resumed == paused[f] /\ ~q.oldPaused
  IN  /\ paused' = [paused EXCEPT ![f] = q.oldPaused]
      /\ ScheduleFolders({g \in {f} : asked \/ resumed},
                         {g \in {f} : connected /\ (~paused[f] \/ ~q.oldPaused)})

MayAnswer(q) ==
  /\ up /\ q \in questions
  /\ "late answer" \notin Troubles => q.live

\* "Keep" ends the run, and schedules the folder.
AnswerKeep(q) ==
  /\ MayAnswer(q)
  /\ Finalize(q.folder, posted)
  /\ questions' = {IF r.folder = q.folder THEN [r EXCEPT !.live = FALSE] ELSE r : r \in questions \ {q}}
  /\ UNCHANGED <<up, connected, forced, syncEnabled, current, existing, delayed, failing, etagJobs>>
  /\ RestorePaused(q, TRUE)

\* "Remove": the run goes on, with whatever discovery the engine has; without one the client
\* reads a null pointer and is gone.
AnswerRemove(q) ==
  /\ MayAnswer(q)
  /\ questions' = questions \ {q}
  /\ UNCHANGED <<connected, forced, syncEnabled, current, running, discovery, posted>>
  /\ UNCHANGED <<existing, delayed, failing, etagJobs>>
  /\ IF discovery[q.folder] \in {"active", "over"}
       THEN /\ propagator' = [propagator EXCEPT ![q.folder] = "working"]
            /\ RestorePaused(q, FALSE)
            /\ UNCHANGED up
       ELSE /\ up' = FALSE
            /\ UNCHANGED <<propagator, paused, scheduled, startTimer>>

\* OwncloudPropagator::finished, which is a queued connection.
PropagatorEnds(f) ==
  /\ up /\ propagator[f] = "working"
  /\ propagator' = [propagator EXCEPT ![f] = "over"]
  /\ posted' = Append(posted, Call("propagationFinished", f))
  /\ UNCHANGED <<up, connected, forced, managerVars, running, discovery, questions, folderVars>>

\* slotPropagationFinished reads the propagator, and finalizes.
PropagationFinished(f) ==
  /\ IsNext("propagationFinished", f)
  /\ IF propagator[f] = "none"
       THEN up' = FALSE /\ UNCHANGED engineVars
       ELSE /\ Finalize(f, Tail(posted))
            /\ questions' = StaleQuestions({f})
            /\ UNCHANGED up
  /\ UNCHANGED <<connected, forced, managerVars, folderVars>>

\* Folder::slotSyncFinished.  A run of a paused folder without problems counts as failed.
SyncFinished(f) ==
  /\ IsNext("syncFinished", f)
  /\ delayed[f] < MaxDelayed
  /\ posted' = Tail(posted)
  /\ delayed' = [delayed EXCEPT ![f] = @ + 1]
  /\ \E errors, problems \in BOOLEAN :
       failing' = [failing EXCEPT ![f] =
         IF errors \/ (~problems /\ paused[f]) THEN Min({@ + 1, RetryLimit}) ELSE 0]
  /\ UNCHANGED <<up, connected, forced, managerVars, running, discovery, propagator, questions, existing, paused, etagJobs>>

\* Folder::slotEmitFinishedDelayed, and FolderMan::slotFolderSyncFinished; a folder that is leaving
\* is deleted then.
\* Slip: nobody listens to a folder that has been unloaded.
ClearedByKnown(f) == IF current = f /\ f \in Known THEN None ELSE current
ClearedBy(f) == IF current = f THEN None ELSE current
EmitFinishedDelayed(f) ==
  /\ up /\ delayed[f] > 0
  /\ current' = ClearedBy(f)
  /\ \/ /\ existing[f] = "known"
        /\ delayed' = [delayed EXCEPT ![f] = @ - 1]
        /\ UNCHANGED <<running, discovery, propagator, posted, questions, existing, failing, etagJobs>>
     \/ existing[f] = "leaving" /\ Delete(f)
  /\ startTimer' = Soon(scheduled, current', running)
  /\ UNCHANGED <<up, connected, forced, syncEnabled, scheduled, paused>>

-----------------------------------------------------------------------------
\* The user quits the client, or it crashes: all that is not in the settings is lost.
MemoryLost ==
  /\ connected' = FALSE
  /\ syncEnabled' = TRUE /\ scheduled' = <<>> /\ current' = None /\ startTimer' = FALSE
  /\ running' = {} /\ posted' = <<>> /\ questions' = {}
  /\ discovery' = [f \in Folders |-> "none"] /\ propagator' = [f \in Folders |-> "none"]
  /\ delayed' = [f \in Folders |-> 0] /\ failing' = [f \in Folders |-> 0]
  /\ etagJobs' = {}
  /\ UNCHANGED <<paused, forced>>

Stop ==
  /\ up
  /\ up' = FALSE
  /\ MemoryLost
  /\ UNCHANGED existing

\* Application starts: the folders of the settings are set up again.
Restart ==
  /\ ~up
  /\ up' = TRUE
  /\ MemoryLost
  /\ existing' = [f \in Folders |-> IF f \in Known THEN "known" ELSE "gone"]

Next ==
  \/ \E f \in Folders :
       \/ Schedule(f) \/ ScheduleByTime(f) \/ RunEtagJob(f) \/ EtagJobEnds(f)
       \/ ForceSync(f) \/ RemoveFolder(f) \/ TogglePause(f)
       \/ EngineStart(f) \/ DiscoveryFails(f) \/ DeleteDiscovery(f)
       \/ DiscoveryFinishes(f) \/ PropagatorEnds(f) \/ PropagationFinished(f)
       \/ SyncFinished(f) \/ EmitFinishedDelayed(f)
  \/ StartScheduledFolderSync
  \/ Connect \/ Disconnect \/ OpenWizard \/ EnableSync \/ PauseAll \/ ResumeAll
  \/ \E q \in questions : AnswerKeep(q) \/ AnswerRemove(q)
  \/ Stop \/ Restart

Spec == Init /\ [][Next]_vars

\* The event loop takes posted calls and timers, discovery and propagation end, the user answers
\* and does not close every wizard just to open the next one.  An etag is asked for every 30 s at
\* most, and the timer of ScheduleByTime, every 5 s, finds the time between two of these jobs.  A job
\* has a timeout, but not while it waits to be sent again: JobQueue::clear forgets it then, and the
\* pointer to it stays ("lost etag job").
HandlePosted ==
  \E f \in Folders : EngineStart(f) \/ DeleteDiscovery(f) \/ PropagationFinished(f) \/ SyncFinished(f)

FairSpec ==
  /\ Spec
  /\ SF_vars(StartScheduledFolderSync /\ syncEnabled)
  /\ WF_vars(EnableSync)
  /\ WF_vars(\E q \in questions : q.live /\ (AnswerKeep(q) \/ AnswerRemove(q)))
  /\ WF_vars(HandlePosted)
  /\ WF_vars(\E f \in Folders : DiscoveryFinishes(f) \/ DiscoveryFails(f))
  /\ WF_vars(\E f \in Folders : PropagatorEnds(f))
  /\ WF_vars(\E f \in Folders : EmitFinishedDelayed(f))
  /\ \A f \in Folders :
       /\ SF_vars(ScheduleByTime(f))
       /\ "lost etag job" \notin Troubles => WF_vars(EtagJobEnds(f))

-----------------------------------------------------------------------------
(* Properties. *)

\* At most one folder syncs: FolderMan starts a folder only when neither its marker nor any engine
\* says that one is running, and between the two something must hold the marker.
AtMostOneRun ==
  up => Cardinality(running \cup {f \in Folders : Call("startSync", f) \in ToSet(posted)}) <= 1

\* The end of a run of f is on its way to FolderMan.
Ending(f) == delayed[f] > 0 \/ Call("syncFinished", f) \in ToSet(posted)

\* _currentSyncFolder is cleared by the end of a run only: as long as it is set there is a run, or
\* the start or the end of one on its way ("We want to schedule the next folder once this is done").
MarkerIsReleased ==
  up /\ current # None =>
    current \in running \/ Ending(current) \/ Call("startSync", current) \in ToSet(posted)

\* No lost wakeup: when folders wait, syncing is enabled and nothing runs, the timer is active, or
\* the end of a run is going to start it.
QueueIsWatched ==
  up /\ scheduled # <<>> /\ syncEnabled /\ ~AnySyncRunning(current, running)
    => startTimer \/ \E f \in Folders : Ending(f)

\* "de-schedules folders of disconnected accounts": whoever asked for a sync, and by whatever way,
\* nothing is queued while the account is not connected.
OfflineQueueIsEmpty == up /\ ~connected => scheduled = <<>>

\* As long as the user is asked whether to remove all files nothing is removed: the run that asks
\* is under way and has no propagator, whatever answers to earlier questions come in.
QuestionHoldsRun ==
  \A q \in questions : up /\ q.live => q.folder \in running /\ propagator[q.folder] = "none"

\* A question about an ended run changes nothing: abort() ends a discovery "after ensuring it can't
\* finish and start the propagator".
StaleAnswersIgnored ==
  [][\A q \in questions : ~q.live /\ q \notin questions' /\ up =>
       up' /\ running' = running /\ propagator' = propagator]_vars

\* A scheduled folder is taken from the queue: it syncs, or cannot any more.  ("P leads to not P",
\* here and below, as "not P, again and again".)
QueueMoves == \A f \in Folders : []<>(f \notin Queued \/ ~up)

\* A folder whose run failed is tried again, unless it cannot sync: not even the etag jobs, which
\* keep the timer from it, do so for ever.
FailedIsRetried ==
  \A f \in Folders, n \in 1 .. RetryLimit - 1 :
    []<>(failing[f] # n \/ ~up \/ ~CanSync(f))

=============================================================================
