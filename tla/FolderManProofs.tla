---------------------------- MODULE FolderManProofs ----------------------------
(***************************************************************************)
(* For any number of folders and questions: nothing is removed as long as  *)
(* the user is asked about it, unless an answer comes after its run has    *)
(* ended ("late answer"), which the code does not survive.                 *)
(***************************************************************************)
EXTENDS FolderMan, TLAPS

Types ==
  /\ running \subseteq Folders
  /\ paused \in [Folders -> BOOLEAN]
  /\ discovery \in [Folders -> {"none", "active", "over", "doomed"}]
  /\ propagator \in [Folders -> {"none", "working", "over"}]
  /\ questions \subseteq Question

\* A question that counts holds its run between discovery and propagation.
Held == \A q \in questions :
  q.live => /\ q.folder \in running
            /\ discovery[q.folder] = "over" /\ propagator[q.folder] = "none"

\* A run asks once: an answer leaves no second question behind.
AskedOnce == \A q, r \in questions : q.live /\ r.live /\ q.folder = r.folder => q = r

\* Who discovers or propagates is running, and does the one before the other.
Phases == \A f \in Folders :
  /\ propagator[f] # "none" => f \in running
  /\ discovery[f] = "active" => f \in running /\ propagator[f] = "none"

IInv == Types /\ (up => Held /\ AskedOnce /\ Phases)

LEMMA InitIInv == Init => IInv
BY DEF Init, IInv, Types, Held, AskedOnce, Phases, Question

\* A question whose run ends is a question of no run.
LEMMA Staled ==
  ASSUME NEW S, Types
  PROVE  /\ StaleQuestions(S) \subseteq Question
         /\ \A q \in StaleQuestions(S) : q.live => q \in questions /\ q.folder \notin S
BY DEF StaleQuestions, Types, Question

\* Runs may end where they are, if what they asked goes with them.
LEMMA EndsKeep ==
  ASSUME IInv, up, NEW S, NEW c,
         running' = running \ S,
         discovery' = [f \in Folders |-> IF f \in S THEN c[f] ELSE discovery[f]],
         \A f \in Folders : c[f] \in {"none", "doomed"},
         propagator' = [f \in Folders |-> IF f \in S THEN "none" ELSE propagator[f]],
         questions' \subseteq Question,
         \A q \in questions' : q.live => q \in questions /\ q.folder \notin S,
         paused' \in [Folders -> BOOLEAN]
  PROVE  IInv'
<1>. USE DEF IInv
<1>1. Types'
  BY DEF Types
<1>2. Held'
  <2>. SUFFICES ASSUME NEW q \in questions', q.live
                PROVE  /\ q.folder \in running'
                       /\ discovery'[q.folder] = "over" /\ propagator'[q.folder] = "none"
    BY DEF Held
  <2>1. q \in questions /\ q.folder \notin S /\ q.folder \in Folders
    BY DEF Types, Question
  <2>2. QED
    BY <2>1 DEF Held
<1>3. AskedOnce'
  BY DEF AskedOnce
<1>4. Phases'
  BY DEF Phases, Types
<1>5. QED
  BY <1>1, <1>2, <1>3, <1>4

LEMMA TerminateKeeps ==
  ASSUME IInv, up, NEW S, TerminateSyncs(S), paused' \in [Folders -> BOOLEAN]
  PROVE  IInv'
<1>. DEFINE A == Aborted(S)
            c == [f \in Folders |-> "none"]
<1>1. A \subseteq Folders /\ \A f \in A : propagator[f] = "none"
  BY DEF Aborted, IInv, Types
<1>2. /\ running' = running \ A
      /\ discovery' = [f \in Folders |-> IF f \in A THEN "none" ELSE discovery[f]]
      /\ questions' = StaleQuestions(A) /\ propagator' = propagator
  BY DEF TerminateSyncs
<1>. HIDE DEF A
<1>3. propagator' = [f \in Folders |-> IF f \in A THEN "none" ELSE propagator[f]]
  BY <1>1, <1>2 DEF IInv, Types
<1>4. /\ questions' \subseteq Question
      /\ \A q \in questions' : q.live => q \in questions /\ q.folder \notin A
  BY <1>2, Staled DEF IInv
<1>5. discovery' = [f \in Folders |-> IF f \in A THEN c[f] ELSE discovery[f]]
  BY <1>2
<1>. HIDE DEF c
<1>6. \A f \in Folders : c[f] \in {"none", "doomed"}
  BY DEF c
<1>7. QED
  BY <1>2, <1>3, <1>4, <1>5, <1>6, EndsKeep

LEMMA FinalizeKeeps ==
  ASSUME IInv, up, NEW f \in Folders, NEW p, Finalize(f, p),
         questions' \subseteq Question,
         \A q \in questions' : q.live => q \in questions /\ q.folder # f,
         paused' \in [Folders -> BOOLEAN]
  PROVE  IInv'
<1>. DEFINE c == [g \in Folders |-> IF discovery[f] = "active" THEN "doomed" ELSE "none"]
<1>1. /\ running' = running \ {f}
      /\ discovery' = [g \in Folders |-> IF g \in {f} THEN c[g] ELSE discovery[g]]
      /\ propagator' = [g \in Folders |-> IF g \in {f} THEN "none" ELSE propagator[g]]
  BY DEF Finalize, IInv, Types
<1>2. \A g \in Folders : c[g] \in {"none", "doomed"}
  OBVIOUS
<1>. HIDE DEF c
<1>3. \A q \in questions' : q.live => q \in questions /\ q.folder \notin {f}
  OBVIOUS
<1>4. QED
  BY <1>1, <1>2, <1>3, EndsKeep

\* What leaves the runs alone.
LEMMA OthersKeep ==
  ASSUME IInv, UNCHANGED <<running, discovery, propagator, questions>>,
         paused' \in [Folders -> BOOLEAN], up' => up
  PROVE  IInv'
BY DEF IInv, Types, Held, AskedOnce, Phases

LEMMA ManagerKeeps ==
  ASSUME IInv,
         \/ \E f \in Folders :
              \/ Schedule(f) \/ ScheduleByTime(f) \/ RunEtagJob(f) \/ EtagJobEnds(f)
              \/ ForceSync(f) \/ RemoveFolder(f) \/ TogglePause(f)
         \/ StartScheduledFolderSync \/ Connect \/ Disconnect \/ OpenWizard \/ EnableSync
         \/ PauseAll \/ ResumeAll
  PROVE  IInv'
<1>0. paused \in [Folders -> BOOLEAN]
  BY DEF IInv, Types
<1>1. ASSUME NEW f \in Folders, Schedule(f) \/ ScheduleByTime(f) \/ RunEtagJob(f) \/ EtagJobEnds(f)
      PROVE  IInv'
  BY <1>0, <1>1, OthersKeep DEF Schedule, ScheduleByTime, RunEtagJob, EtagJobEnds, engineVars, folderVars
<1>2. ASSUME NEW f \in Folders, ForceSync(f) PROVE IInv'
  <2>1. up /\ TerminateSyncs(running \cap Known) /\ paused' = paused
    BY <1>2 DEF ForceSync, folderVars
  <2>2. QED
    BY <1>0, <2>1, TerminateKeeps
<1>3. ASSUME NEW f \in Folders, RemoveFolder(f) PROVE IInv'
  <2>1. up /\ paused' = [paused EXCEPT ![f] = TRUE]
    BY <1>3 DEF RemoveFolder
  <2>2. paused' \in [Folders -> BOOLEAN]
    BY <1>0, <2>1
  <2>3. CASE TerminateSyncs({f})
    BY <2>1, <2>2, <2>3, TerminateKeeps
  <2>4. CASE Delete(f)
    <3>. DEFINE c == [g \in Folders |-> "none"]
    <3>1. /\ running' = running \ {f}
          /\ discovery' = [g \in Folders |-> IF g \in {f} THEN c[g] ELSE discovery[g]]
          /\ propagator' = [g \in Folders |-> IF g \in {f} THEN "none" ELSE propagator[g]]
          /\ questions' = {q \in questions : q.folder # f}
      BY <2>4 DEF Delete, IInv, Types
    <3>2. \A g \in Folders : c[g] \in {"none", "doomed"}
      OBVIOUS
    <3>. HIDE DEF c
    <3>3. questions' \subseteq Question /\ \A q \in questions' : q.live => q \in questions /\ q.folder \notin {f}
      BY <3>1 DEF IInv, Types
    <3>4. QED
      BY <2>1, <2>2, <3>1, <3>2, <3>3, EndsKeep
  <2>5. QED
    BY <1>3, <2>3, <2>4 DEF RemoveFolder
<1>4. ASSUME NEW f \in Folders, TogglePause(f) PROVE IInv'
  <2>1. up /\ paused' = [paused EXCEPT ![f] = ~paused[f]]
    BY <1>4 DEF TogglePause
  <2>2. paused' \in [Folders -> BOOLEAN]
    BY <1>0, <2>1
  <2>3. TerminateSyncs({f}) \/ UNCHANGED <<running, discovery, propagator, questions>>
    BY <1>4 DEF TogglePause, engineVars
  <2>4. QED
    BY <2>1, <2>2, <2>3, TerminateKeeps, OthersKeep
<1>5. CASE StartScheduledFolderSync
  <2>1. UNCHANGED <<running, discovery, propagator, questions, paused, up>>
    BY <1>5 DEF StartScheduledFolderSync, folderVars
  <2>2. QED
    BY <1>0, <2>1, OthersKeep
<1>6. CASE Connect \/ OpenWizard \/ EnableSync
  BY <1>0, <1>6, OthersKeep DEF Connect, OpenWizard, EnableSync, engineVars, folderVars
<1>7. CASE Disconnect
  <2>1. up /\ TerminateSyncs(running \cap Known) /\ paused' = paused
    BY <1>7 DEF Disconnect, folderVars
  <2>2. QED
    BY <1>0, <2>1, TerminateKeeps
<1>8. CASE PauseAll
  <2>1. up /\ TerminateSyncs(running \cap Known)
    BY <1>8 DEF PauseAll
  <2>2. paused' = [f \in Folders |-> paused[f] \/ f \in Known]
    BY <1>8 DEF PauseAll
  <2>3. paused' \in [Folders -> BOOLEAN]
    BY <1>0, <2>2
  <2>4. QED
    BY <2>1, <2>3, TerminateKeeps
<1>9. CASE ResumeAll
  <2>1. paused' = [f \in Folders |-> paused[f] /\ f \notin Known] /\ up
    BY <1>9 DEF ResumeAll
  <2>2. paused' \in [Folders -> BOOLEAN]
    BY <1>0, <2>1
  <2>3. UNCHANGED <<running, discovery, propagator, questions>>
    BY <1>9 DEF ResumeAll, engineVars
  <2>4. QED
    BY <2>1, <2>2, <2>3, OthersKeep
<1>10. QED
  BY <1>1, <1>2, <1>3, <1>4, <1>5, <1>6, <1>7, <1>8, <1>9

LEMMA DiscoveryKeeps ==
  ASSUME IInv, NEW f \in Folders,
         EngineStart(f) \/ DiscoveryFails(f) \/ DeleteDiscovery(f) \/ DiscoveryFinishes(f)
  PROVE  IInv'
<1>0. paused \in [Folders -> BOOLEAN]
  BY DEF IInv, Types
<1>. USE DEF IInv
<1>1. CASE EngineStart(f)
  <2>1. /\ up' = up /\ up /\ paused' = paused
        /\ propagator' = propagator /\ questions' = questions
    BY <1>1 DEF EngineStart, IsNext, folderVars
  <2>2. CASE UNCHANGED <<running, discovery>>
    BY <1>0, <2>1, <2>2, OthersKeep
  <2>3. CASE /\ f \notin running
             /\ running' = running \cup {f}
             /\ discovery' = [discovery EXCEPT ![f] = "active"]
    <3>1. Types'
      BY <2>1, <2>3 DEF Types
    <3>2. Held' /\ AskedOnce'
      BY <2>1, <2>3 DEF Held, AskedOnce, Types, Question
    <3>3. Phases'
      BY <2>1, <2>3 DEF Phases, Types
    <3>4. QED
      BY <3>1, <3>2, <3>3
  <2>4. QED
    BY <1>1, <2>2, <2>3 DEF EngineStart
<1>2. CASE DiscoveryFails(f)
  <2>1. up /\ Finalize(f, posted) /\ questions' = StaleQuestions({f}) /\ paused' = paused
    BY <1>2 DEF DiscoveryFails, folderVars
  <2>2. questions' \subseteq Question /\ \A q \in questions' : q.live => q \in questions /\ q.folder # f
    BY <2>1, Staled
  <2>3. QED
    BY <1>0, <2>1, <2>2, FinalizeKeeps
<1>3. CASE DeleteDiscovery(f)
  <2>1. /\ up' = up /\ up
        /\ UNCHANGED <<running, propagator, questions, paused>>
        /\ discovery' = [discovery EXCEPT ![f] = IF discovery[f] = "doomed" THEN "none" ELSE discovery[f]]
    BY <1>3 DEF DeleteDiscovery, IsNext, folderVars
  <2>2. Types'
    BY <2>1 DEF Types
  <2>3. Held' /\ AskedOnce'
    BY <2>1 DEF Held, AskedOnce, Types, Question
  <2>4. Phases'
    BY <2>1 DEF Phases, Types
  <2>5. QED
    BY <2>2, <2>3, <2>4
<1>4. CASE DiscoveryFinishes(f)
  <2>1. /\ up /\ up' = up /\ discovery[f] = "active" /\ running' = running
        /\ discovery' = [discovery EXCEPT ![f] = "over"]
    BY <1>4 DEF DiscoveryFinishes
  <2>2. f \in running /\ propagator[f] = "none"
    BY <2>1 DEF Phases
  <2>3. \A q \in questions : q.live => q.folder # f
    BY <2>1 DEF Held
  <2>4. CASE propagator' = [propagator EXCEPT ![f] = "working"] /\ UNCHANGED <<paused, questions>>
    <3>1. Types'
      BY <2>1, <2>4 DEF Types
    <3>2. Held' /\ AskedOnce'
      BY <2>1, <2>3, <2>4 DEF Held, AskedOnce, Types, Question
    <3>3. Phases'
      BY <2>1, <2>2, <2>4 DEF Phases, Types
    <3>4. QED
      BY <3>1, <3>2, <3>3
  <2>5. CASE /\ questions' = questions \cup {[folder |-> f, live |-> TRUE, oldPaused |-> paused[f]]}
             /\ paused' = [paused EXCEPT ![f] = TRUE]
             /\ propagator' = propagator
    <3>. DEFINE n == [folder |-> f, live |-> TRUE, oldPaused |-> paused[f]]
    <3>1. n \in Question /\ n.folder = f
      BY <1>0 DEF Question
    <3>2. questions' = questions \cup {n}
      BY <2>5
    <3>. HIDE DEF n
    <3>3. Types'
      BY <1>0, <2>1, <2>5, <3>1, <3>2 DEF Types
    <3>4. Held'
      BY <2>1, <2>2, <2>5, <3>1, <3>2 DEF Held, Types, Question
    <3>5. AskedOnce'
      <4>. SUFFICES ASSUME NEW q \in questions', NEW r \in questions',
                           q.live, r.live, q.folder = r.folder
                    PROVE  q = r
        BY DEF AskedOnce
      <4>1. CASE q \in questions /\ r \in questions
        BY <2>1, <4>1 DEF AskedOnce
      <4>2. CASE q = n \/ r = n
        BY <2>3, <3>1, <3>2, <4>2
      <4>3. QED
        BY <3>2, <4>1, <4>2
    <3>6. Phases'
      BY <2>1, <2>2, <2>5 DEF Phases, Types
    <3>7. QED
      BY <3>3, <3>4, <3>5, <3>6
  <2>6. QED
    BY <1>4, <2>4, <2>5 DEF DiscoveryFinishes, WhileAsking
<1>5. QED
  BY <1>1, <1>2, <1>3, <1>4

LEMMA AnswersKeep ==
  ASSUME IInv, "late answer" \notin Troubles,
         NEW q \in questions, AnswerKeep(q) \/ AnswerRemove(q)
  PROVE  IInv'
<1>. USE DEF IInv
<1>0. q \in Question /\ q.live /\ up /\ q.folder \in Folders
  BY DEF AnswerKeep, AnswerRemove, MayAnswer, Types, Question
<1>. DEFINE f == q.folder
<1>1. /\ discovery[f] = "over" /\ f \in running /\ propagator[f] = "none"
      /\ \A r \in questions : r.live /\ r.folder = f => r = q
  BY <1>0 DEF Held, AskedOnce
<1>2. CASE AnswerKeep(q)
  <2>1. /\ Finalize(f, posted)
        /\ questions' = {IF r.folder = q.folder THEN [r EXCEPT !.live = FALSE] ELSE r : r \in questions \ {q}}
        /\ paused' = [paused EXCEPT ![f] = q.oldPaused]
    BY <1>2 DEF AnswerKeep, RestorePaused
  <2>2. paused' \in [Folders -> BOOLEAN]
    BY <1>0, <2>1 DEF Types, Question
  <2>3. questions' \subseteq Question /\ \A r \in questions' : r.live => r \in questions /\ r.folder # f
    BY <2>1 DEF Types, Question
  <2>4. QED
    BY <1>0, <2>1, <2>2, <2>3, FinalizeKeeps
<1>3. CASE AnswerRemove(q)
  <2>1. /\ questions' = questions \ {q}
        /\ UNCHANGED <<running, discovery>>
        /\ propagator' = [propagator EXCEPT ![f] = "working"]
        /\ paused' = [paused EXCEPT ![f] = q.oldPaused]
        /\ up' = up
    BY <1>1, <1>3 DEF AnswerRemove, RestorePaused
  <2>2. Types'
    BY <1>0, <2>1 DEF Types, Question
  <2>3. Held'
    BY <1>0, <1>1, <2>1 DEF Held, Types, Question
  <2>4. AskedOnce'
    BY <1>0, <2>1 DEF AskedOnce
  <2>5. Phases'
    BY <1>0, <1>1, <2>1 DEF Phases, Types
  <2>6. QED
    BY <2>2, <2>3, <2>4, <2>5
<1>4. QED
  BY <1>2, <1>3

LEMMA RunEndsKeep ==
  ASSUME IInv, NEW f \in Folders,
         PropagatorEnds(f) \/ PropagationFinished(f) \/ SyncFinished(f) \/ EmitFinishedDelayed(f)
  PROVE  IInv'
<1>0. paused \in [Folders -> BOOLEAN]
  BY DEF IInv, Types
<1>. USE DEF IInv
<1>1. CASE PropagatorEnds(f)
  <2>1. /\ up /\ up' = up /\ propagator[f] = "working"
        /\ propagator' = [propagator EXCEPT ![f] = "over"]
        /\ UNCHANGED <<running, discovery, questions, paused>>
    BY <1>1 DEF PropagatorEnds, folderVars
  <2>2. \A q \in questions : q.live => q.folder # f
    BY <2>1 DEF Held
  <2>3. Types'
    BY <2>1 DEF Types
  <2>4. Held' /\ AskedOnce'
    BY <2>1, <2>2 DEF Held, AskedOnce, Types, Question
  <2>5. Phases'
    BY <2>1 DEF Phases, Types
  <2>6. QED
    BY <2>3, <2>4, <2>5
<1>2. CASE PropagationFinished(f)
  <2>1. up /\ paused' = paused
    BY <1>2 DEF PropagationFinished, IsNext, folderVars
  <2>2. CASE propagator[f] = "none"
    BY <1>0, <1>2, <2>1, <2>2, OthersKeep DEF PropagationFinished, engineVars
  <2>3. CASE propagator[f] # "none"
    <3>1. Finalize(f, Tail(posted)) /\ questions' = StaleQuestions({f})
      BY <1>2, <2>3 DEF PropagationFinished
    <3>2. questions' \subseteq Question /\ \A q \in questions' : q.live => q \in questions /\ q.folder # f
      BY <3>1, Staled
    <3>3. QED
      BY <1>0, <2>1, <3>1, <3>2, FinalizeKeeps
  <2>4. QED
    BY <2>2, <2>3
<1>3. CASE SyncFinished(f)
  BY <1>0, <1>3, OthersKeep DEF SyncFinished
<1>4. CASE EmitFinishedDelayed(f)
  <2>1. up /\ up' = up /\ paused' = paused
    BY <1>4 DEF EmitFinishedDelayed
  <2>2. CASE UNCHANGED <<running, discovery, propagator, questions>>
    BY <1>0, <2>1, <2>2, OthersKeep
  <2>3. CASE Delete(f)
    <3>. DEFINE c == [g \in Folders |-> "none"]
    <3>1. /\ running' = running \ {f}
          /\ discovery' = [g \in Folders |-> IF g \in {f} THEN c[g] ELSE discovery[g]]
          /\ propagator' = [g \in Folders |-> IF g \in {f} THEN "none" ELSE propagator[g]]
          /\ questions' = {q \in questions : q.folder # f}
      BY <2>3 DEF Delete, Types
    <3>2. \A g \in Folders : c[g] \in {"none", "doomed"}
      OBVIOUS
    <3>. HIDE DEF c
    <3>3. questions' \subseteq Question /\ \A q \in questions' : q.live => q \in questions /\ q.folder \notin {f}
      BY <3>1 DEF Types
    <3>4. QED
      BY <1>0, <2>1, <3>1, <3>2, <3>3, EndsKeep
  <2>4. QED
    BY <1>4, <2>2, <2>3 DEF EmitFinishedDelayed
<1>5. QED
  BY <1>1, <1>2, <1>3, <1>4

LEMMA RestartKeeps == IInv /\ (Stop \/ Restart) => IInv'
<1>. SUFFICES ASSUME IInv, Stop \/ Restart PROVE IInv'
  OBVIOUS
<1>0. paused \in [Folders -> BOOLEAN]
  BY DEF IInv, Types
<1>1. /\ running' = {} /\ questions' = {} /\ paused' = paused
      /\ discovery' = [f \in Folders |-> "none"] /\ propagator' = [f \in Folders |-> "none"]
  BY DEF Stop, Restart, MemoryLost
<1>2. QED
  BY <1>0, <1>1 DEF IInv, Types, Held, AskedOnce, Phases, Question

\* As long as the user is asked, the run that asks is under way and removes nothing.
THEOREM NothingRemovedUnasked ==
  ASSUME "late answer" \notin Troubles
  PROVE  Spec => []QuestionHoldsRun
<1>1. Init => IInv
  BY InitIInv
<1>2. IInv /\ [Next]_vars => IInv'
  <2>. SUFFICES ASSUME IInv, [Next]_vars PROVE IInv'
    OBVIOUS
  <2>1. CASE UNCHANGED vars
    BY <2>1 DEF vars, engineVars, folderVars, IInv, Types, Held, AskedOnce, Phases
  <2>2. CASE Next
    BY <2>2, ManagerKeeps, DiscoveryKeeps, AnswersKeep, RunEndsKeep, RestartKeeps DEF Next
  <2>3. QED
    BY <2>1, <2>2
<1>3. IInv => QuestionHoldsRun
  BY DEF IInv, Held, QuestionHoldsRun
<1>4. QED
  BY <1>1, <1>2, <1>3, PTL DEF Spec
=============================================================================
