----------------------------- MODULE FolderManRuns -----------------------------
(***************************************************************************)
(* For any number of folders.  Whatever the user does, the state keeps its *)
(* types and nothing is queued without a connection.  As long as the user  *)
(* answers in time, at most one folder syncs and no folder is forgotten in *)
(* the queue; if, besides, no current folder is removed while its engine   *)
(* does not run, its marker is released.  A run goes through five stages,  *)
(* and everything that is posted or delayed belongs to the current folder  *)
(* and its stage.                                                          *)
(***************************************************************************)
EXTENDS FolderManProofs, FiniteSetTheorems, SequenceTheorems

-----------------------------------------------------------------------------
(* The stages, and the inductive invariant. *)

\* The user answers a question while the run that asks is under way; the user may also remove a
\* current folder whose engine does not run.
AnsweredInTime == "late answer" \notin Troubles
RemovedInGaps  == "removed in a gap" \in Troubles

\* One end of a run of c waits for its 200 ms, and none of any other folder.
DelayedFor(c) == \A f \in Folders : delayed[f] = IF f = c THEN 1 ELSE 0

\* No run; the start of an engine is posted; the engine runs; its end is posted; it is told to
\* FolderMan after a moment.  A folder that leaves is past the point where its run could ask.
NoRun    == current = None /\ running = {} /\ posted = <<>> /\ DelayedFor(None)
Starting ==
  /\ current # None /\ current \in Known /\ running = {} /\ DelayedFor(None)
  /\ posted = <<Call("startSync", current)>>
Running  ==
  /\ current # None /\ running = {current} /\ DelayedFor(None)
  /\ posted = <<>> \/ (posted = <<Call("propagationFinished", current)>> /\ propagator[current] = "over")
  /\ propagator[current] = "none" => current \in Known /\ discovery[current] # "none"
Ended    ==
  /\ current # None /\ running = {} /\ DelayedFor(None)
  /\ \/ posted = <<Call("syncFinished", current)>>
     \/ posted = <<Call("deleteDiscovery", current), Call("syncFinished", current)>>
Told     == current # None /\ running = {} /\ DelayedFor(current) /\ posted = <<>>
\* A current folder that is removed between two of these takes with it what would release the marker.
Orphaned ==
  RemovedInGaps /\ current # None /\ running = {} /\ DelayedFor(None) /\ posted = <<>>
OneRun   == NoRun \/ Starting \/ Running \/ Ended \/ Told \/ Orphaned

\* The queue has no folder twice, and a timer if there is nothing else to start it.
Distinct(q) == \A i, j \in DOMAIN q : q[i] = q[j] => i = j
Watched == scheduled # <<>> /\ syncEnabled /\ current = None => startTimer
Offline == ~connected => scheduled = <<>>

Typed ==
  /\ {up, connected, syncEnabled, startTimer} \subseteq BOOLEAN
  /\ existing \in [Folders -> {"known", "leaving", "gone"}]
  /\ scheduled \in Seq(Known) /\ Distinct(scheduled)
  /\ current \in Folders \cup {None}
  /\ delayed \in [Folders -> 0 .. MaxDelayed]
  /\ failing \in [Folders -> 0 .. RetryLimit]
  /\ forced \in 0 .. MaxForced

\* What may be posted.
Calls == [call : {"startSync", "deleteDiscovery", "propagationFinished", "syncFinished"},
          folder : Folders]

\* A folder that is not configured any more is paused, and who asks about it has found it so.
UnknownPaused == \A f \in Folders :
  existing[f] # "known" => paused[f] /\ \A q \in questions : q.folder = f => q.oldPaused

\* What holds whatever the user does, and what needs answers in time.
WInv == Types /\ Typed /\ etagJobs \subseteq Folders /\ posted \in Seq(Calls) /\ UnknownPaused /\ (up => Offline)
QInv == WInv /\ IInv /\ (up => OneRun /\ Watched)

-----------------------------------------------------------------------------
(* Sequences. *)

\* SetToSeq lists a finite set, each element once.
LEMMA ListOf ==
  ASSUME NEW S, IsFiniteSet(S)
  PROVE  /\ SetToSeq(S) \in Seq(S)
         /\ DOMAIN SetToSeq(S) = 1 .. Len(SetToSeq(S))
         /\ \A i, j \in DOMAIN SetToSeq(S) : SetToSeq(S)[i] = SetToSeq(S)[j] => i = j
         /\ Len(SetToSeq(S)) = Cardinality(S)
<1>. DEFINE n == Cardinality(S)
            s == SetToSeq(S)
<1>1. n \in Nat /\ ExistsBijection(1 .. n, S)
  BY FS_CardinalityType
<1>2. PICK b \in Bijection(1 .. n, S) : TRUE
  BY <1>1 DEF ExistsBijection
<1>3. b \in [1 .. n -> S] /\ IsInjective(b)
  BY <1>2 DEF Bijection, Injection
<1>4. s \in [1 .. n -> S] /\ IsInjective(s)
  BY <1>3 DEF SetToSeq
<1>. HIDE DEF s, n
<1>5. s \in Seq(S)
  BY <1>1, <1>4, SeqDef
<1>6. Len(s) = n /\ DOMAIN s = 1 .. n
  BY <1>1, <1>4, <1>5, LenProperties
<1>7. QED
  BY <1>4, <1>5, <1>6 DEF s, n, IsInjective

LEMMA ListOfNone == SetToSeq({}) = <<>>
<1>1. SetToSeq({}) \in Seq({}) /\ Len(SetToSeq({})) = 0
  BY ListOf, FS_EmptySet
<1>2. QED
  BY <1>1, EmptySeq

LEMMA ListOfOne == ASSUME NEW x PROVE SetToSeq({x}) = <<x>>
<1>1. SetToSeq({x}) \in Seq({x}) /\ Len(SetToSeq({x})) = 1
  BY ListOf, FS_Singleton
<1>2. SetToSeq({x})[1] = x
  BY <1>1, ElementOfSeq
<1>3. <<x>> \in Seq({x}) /\ Len(<<x>>) = 1 /\ <<x>>[1] = x
  OBVIOUS
<1>4. QED
  BY <1>1, <1>2, <1>3, SeqEqual

\* Short sequences: what is posted never gets longer.
LEMMA Posting ==
  ASSUME NEW x, NEW y
  PROVE  /\ Append(<<>>, x) = <<x>>
         /\ <<>> \o <<x>> = <<x>> /\ <<x>> \o <<y>> = <<x, y>> /\ <<>> \o <<>> = <<>>
         /\ <<x>> \o <<>> = <<x>>
         /\ Head(<<x>>) = x /\ Tail(<<x>>) = <<>>
         /\ Head(<<x, y>>) = x /\ Tail(<<x, y>>) = <<y>>
         /\ <<x>> # <<>> /\ <<x, y>> # <<>>
<1>. DEFINE S == {x, y}
<1>1. <<>> \in Seq(S) /\ <<x>> \in Seq(S) /\ <<y>> \in Seq(S) /\ <<x, y>> \in Seq(S)
  OBVIOUS
<1>2. Len(<<x>>) = 1 /\ Len(<<y>>) = 1 /\ Len(<<x, y>>) = 2 /\ <<x>>[1] = x /\ <<y>>[1] = y
      /\ <<x, y>>[1] = x /\ <<x, y>>[2] = y
  OBVIOUS
<1>3. <<>> \o <<x>> = <<x>> /\ <<>> \o <<>> = <<>> /\ <<x>> \o <<>> = <<x>>
  BY <1>1, ConcatEmptySeq
<1>4. <<x>> \o <<y>> = <<x, y>>
  <2>1. <<x>> \o <<y>> \in Seq(S) /\ Len(<<x>> \o <<y>>) = 2
        /\ (<<x>> \o <<y>>)[1] = x /\ (<<x>> \o <<y>>)[2] = y
    BY <1>1, <1>2, ConcatProperties
  <2>. DEFINE a == <<x>> \o <<y>>
              b == <<x, y>>
  <2>2. /\ a \in Seq(S) /\ b \in Seq(S) /\ Len(a) = 2 /\ Len(b) = 2
        /\ a[1] = b[1] /\ a[2] = b[2]
    BY <1>1, <1>2, <2>1
  <2>. HIDE DEF a, b
  <2>3. \A i \in 1 .. Len(a) : a[i] = b[i]
    BY <2>2
  <2>4. a = b
    BY <2>2, <2>3, SeqEqual
  <2>5. QED
    BY <2>4 DEF a, b
<1>5. Append(<<>>, x) = <<x>>
  BY <1>1, <1>3, AppendIsConcat
<1>6. Head(<<x>>) = x /\ Tail(<<x>>) = <<>>
  <2>1. <<x>> # <<>>
    BY <1>1, <1>2, EmptySeq
  <2>2. Tail(<<x>>) \in Seq(S) /\ Len(Tail(<<x>>)) = 0
    BY <1>1, <1>2, <2>1, HeadTailProperties
  <2>3. QED
    BY <1>2, <2>2, EmptySeq
<1>7. Head(<<x, y>>) = x /\ Tail(<<x, y>>) = <<y>>
  <2>1. <<x, y>> # <<>>
    BY <1>1, <1>2, EmptySeq
  <2>2. Tail(<<x, y>>) \in Seq(S) /\ Len(Tail(<<x, y>>)) = 1 /\ Tail(<<x, y>>)[1] = y
    BY <1>1, <1>2, <2>1, HeadTailProperties
  <2>3. Tail(<<x, y>>) = <<y>>
    BY <1>1, <1>2, <2>2, SeqEqual
  <2>4. QED
    BY <1>2, <2>3
<1>8. <<x>> # <<>> /\ <<x, y>> # <<>>
  BY <1>1, <1>2, EmptySeq
<1>9. QED
  BY <1>3, <1>4, <1>5, <1>6, <1>7, <1>8

LEMMA LeastOf ==
  ASSUME NEW S \in SUBSET Nat, S # {}
  PROVE  Min(S) \in S /\ \A y \in S : Min(S) <= y
<1>. DEFINE R == OpToRel(<, Nat)
<1>1. IsWellFoundedOn(R, Nat)
  BY NatLessThanWellFounded
<1>2. \A x, y \in Nat : y < x => <<y, x>> \in R
  BY DEF OpToRel
<1>. HIDE DEF R
<1>3. PICK x \in S : \A y \in S : ~ (<<y, x>> \in R)
  BY <1>1, WFMin
<1>4. \A y \in S : ~ (y < x)
  BY <1>2, <1>3
<1>5. \A y \in S : x =< y
  BY <1>4
<1>6. /\ Min(S) = CHOOSE z \in S : \A y \in S : z =< y
      /\ \E z \in S : \A y \in S : z =< y
  BY <1>5 DEF Min
<1>7. QED
  BY <1>6

-----------------------------------------------------------------------------
(* The stages of a run. *)

LEMMA PostedCalls == Typed /\ OneRun => posted \in Seq(Calls)
<1>. SUFFICES ASSUME Typed, OneRun PROVE posted \in Seq(Calls)
  OBVIOUS
<1>1. <<>> \in Seq(Calls)
  OBVIOUS
<1>2. CASE current \in Folders
  <2>1. \A name \in {"startSync", "deleteDiscovery", "propagationFinished", "syncFinished"} :
           Call(name, current) \in Calls
    BY <1>2 DEF Call, Calls
  <2>2. \A x, y \in Calls : <<x>> \in Seq(Calls) /\ <<x, y>> \in Seq(Calls)
    OBVIOUS
  <2>3. QED
    BY <1>1, <2>1, <2>2 DEF OneRun, NoRun, Starting, Running, Ended, Told, Orphaned
<1>3. CASE current = None
  BY <1>1, <1>3 DEF OneRun, NoRun, Starting, Running, Ended, Told, Orphaned
<1>4. QED
  BY <1>2, <1>3 DEF Typed

\* Nothing is left of calls that are all of one folder, and everything of those of others.
LEMMA NoneLeft ==
  ASSUME NEW f, \A i \in DOMAIN posted : posted[i].folder = f
  PROVE  WithoutCallsOf(f) = <<>>
<1>. DEFINE kept == {i \in DOMAIN posted : posted[i].folder # f}
<1>1. kept = {} /\ Cardinality(kept) = 0
  BY FS_EmptySet
<1>. HIDE DEF kept
<1>2. 1 .. Cardinality(kept) = {}
  BY <1>1
<1>3. QED
  BY <1>2 DEF WithoutCallsOf, kept

LEMMA AllLeft ==
  ASSUME NEW f, posted \in Seq(Calls), \A i \in DOMAIN posted : posted[i].folder # f
  PROVE  WithoutCallsOf(f) = posted
<1>. DEFINE n == Len(posted)
            kept == {i \in DOMAIN posted : posted[i].folder # f}
            nth(k) == CHOOSE i \in kept : Cardinality({j \in kept : j <= i}) = k
<1>1. n \in Nat /\ DOMAIN posted = 1 .. n /\ posted \in [1 .. n -> Calls]
  BY LenProperties
<1>2. kept = 1 .. n
  BY <1>1
<1>3. WithoutCallsOf(f) = [k \in 1 .. Cardinality(kept) |-> posted[nth(k)]]
  BY DEF WithoutCallsOf
<1>. HIDE DEF n, kept
<1>4. \A m \in Nat : Cardinality(1 .. m) = m
  BY FS_Interval
<1>5. ASSUME NEW i \in kept PROVE Cardinality({j \in kept : j <= i}) = i
  <2>1. {j \in kept : j <= i} = 1 .. i /\ i \in Nat
    BY <1>1, <1>2
  <2>2. QED
    BY <1>4, <2>1
<1>6. \A k \in kept : nth(k) = k
  <2>. SUFFICES ASSUME NEW k \in kept PROVE nth(k) = k
    OBVIOUS
  <2>1. nth(k) \in kept /\ Cardinality({j \in kept : j <= nth(k)}) = k
    BY <1>5
  <2>. HIDE DEF nth
  <2>2. QED
    BY <1>5, <2>1
<1>. HIDE DEF nth
<1>7. WithoutCallsOf(f) = [k \in 1 .. n |-> posted[k]]
  BY <1>1, <1>2, <1>3, <1>4, <1>6
<1>8. QED
  BY <1>1, <1>7

\* What does not touch them.
LEMMA SameStage ==
  ASSUME OneRun, Typed, UNCHANGED <<current, running, posted, delayed, existing>>,
         \A f \in Folders :
           /\ propagator[f] = "over" => propagator'[f] = "over"
           /\ propagator'[f] = "none" => propagator[f] = "none"
           /\ discovery[f] # "none" => discovery'[f] # "none"
  PROVE  OneRun'
BY DEF OneRun, NoRun, Starting, Running, Ended, Told, Orphaned, DelayedFor, Typed, Known

\* A run that is terminated, if there is one, ends; any other is left alone.  A folder that leaves
\* is terminated.
LEMMA TerminatedStage ==
  ASSUME IInv, Typed, up, OneRun, NEW S, TerminateSyncs(S), UNCHANGED <<current, delayed>>,
         \A f \in Known : f \notin Known' => f \in S \cap running
  PROVE  OneRun'
<1>. DEFINE A == Aborted(S)
<1>1. /\ A \subseteq running /\ \A f \in A : propagator[f] = "none"
      /\ running' = running \ A /\ propagator' = propagator
      /\ posted' = posted \o SetToSeq({Call("syncFinished", f) : f \in A})
      /\ discovery' = [f \in Folders |-> IF f \in A THEN "none" ELSE discovery[f]]
      /\ \A f \in S \cap running : propagator[f] = "none" /\ discovery[f] # "none" => f \in A
  BY DEF TerminateSyncs, Aborted
<1>. HIDE DEF A
<1>2. CASE A = {}
  <2>1. {Call("syncFinished", f) : f \in A} = {}
    BY <1>2
  <2>2. posted' = posted \o <<>>
    BY <1>1, <2>1, ListOfNone
  <2>3. posted' = posted
    BY <2>2, Posting DEF OneRun, NoRun, Starting, Running, Ended, Told, Orphaned
  <2>4. UNCHANGED <<running, posted, propagator>> /\ \A f \in Folders : discovery'[f] = discovery[f]
    BY <1>1, <1>2, <2>3
  <2>5. NoRun \/ Ended \/ Told \/ Orphaned => OneRun'
    BY <2>4 DEF OneRun, NoRun, Ended, Told, Orphaned, DelayedFor
  <2>6. Starting => Starting'
    BY <2>4 DEF Starting, DelayedFor
  <2>7. Running => Running'
    <3>. SUFFICES ASSUME Running PROVE Running'
      OBVIOUS
    <3>1. ASSUME propagator[current] = "none" PROVE current \in Known' /\ discovery'[current] # "none"
      <4>1. /\ current \in Known /\ current \in Folders /\ current \in running
            /\ discovery[current] # "none"
        BY <3>1 DEF Running, Known
      <4>2. current \notin S
        BY <1>1, <1>2, <3>1, <4>1
      <4>3. QED
        BY <2>4, <4>1, <4>2
    <3>2. QED
      BY <2>4, <3>1 DEF Running, DelayedFor
  <2>8. QED
    BY <2>5, <2>6, <2>7 DEF OneRun
<1>3. CASE A # {}
  <2>1. Running /\ A = {current}
    <3>1. running # {}
      BY <1>1, <1>3
    <3>2. Running
      BY <3>1 DEF OneRun, NoRun, Starting, Ended, Told, Orphaned
    <3>3. running = {current}
      BY <3>2 DEF Running
    <3>4. QED
      BY <1>1, <1>3, <3>2, <3>3
  <2>2. posted = <<>>
    BY <1>1, <2>1 DEF Running
  <2>3. {Call("syncFinished", f) : f \in A} = {Call("syncFinished", current)}
    BY <2>1
  <2>4. posted' = <<Call("syncFinished", current)>>
    BY <1>1, <2>2, <2>3, ListOfOne, Posting
  <2>5. Ended'
    BY <1>1, <2>1, <2>4 DEF Running, Ended, DelayedFor, Call
  <2>6. QED
    BY <2>5 DEF OneRun
<1>4. QED
  BY <1>2, <1>3

\* The end of a run, which has nothing posted any more but what has just been taken.
LEMMA FinalizedStage ==
  ASSUME OneRun, NEW f \in running, Finalize(f, <<>>), UNCHANGED <<current, delayed>>
  PROVE  OneRun'
<1>1. Running /\ f = current
  BY DEF OneRun, NoRun, Starting, Running, Ended, Told, Orphaned
<1>2. /\ running' = {}
      /\ \/ posted' = <<>> \o <<>> \o <<Call("syncFinished", current)>>
         \/ posted' = <<>> \o <<Call("deleteDiscovery", current)>> \o <<Call("syncFinished", current)>>
  BY <1>1 DEF Finalize, Running
<1>3. \/ posted' = <<Call("syncFinished", current)>>
      \/ posted' = <<Call("deleteDiscovery", current), Call("syncFinished", current)>>
  BY <1>2, Posting
<1>4. Ended'
  BY <1>1, <1>2, <1>3 DEF Running, Ended, DelayedFor, Call
<1>5. QED
  BY <1>4 DEF OneRun

LEMMA ManagerStage ==
  ASSUME AnsweredInTime, IInv, Typed, OneRun,
         \/ \E f \in Folders :
              \/ Schedule(f) \/ ScheduleByTime(f) \/ RunEtagJob(f) \/ EtagJobEnds(f)
              \/ ForceSync(f) \/ RemoveFolder(f) \/ TogglePause(f)
         \/ StartScheduledFolderSync \/ Connect \/ Disconnect \/ OpenWizard \/ EnableSync
         \/ PauseAll \/ ResumeAll
  PROVE  OneRun'
<1>1. ASSUME NEW f \in Folders, Schedule(f) \/ ScheduleByTime(f) \/ RunEtagJob(f) \/ EtagJobEnds(f)
      PROVE  OneRun'
  BY <1>1, SameStage DEF Schedule, ScheduleByTime, RunEtagJob, EtagJobEnds, managerVars, engineVars, folderVars
<1>2. ASSUME NEW f \in Folders, ForceSync(f) PROVE OneRun'
  <2>1. up /\ TerminateSyncs(running \cap Known) /\ UNCHANGED <<current, delayed, existing>>
    BY <1>2 DEF ForceSync, folderVars
  <2>2. QED
    BY <2>1, TerminatedStage DEF Known
<1>3. ASSUME NEW f \in Folders, RemoveFolder(f) PROVE OneRun'
  <2>1. up /\ current' = current /\ f # None
        /\ (~RemovedInGaps => (f = current => f \in running))
    BY <1>3, FoldersAssumption DEF RemoveFolder, RemovedInGaps
  <2>2. CASE /\ f \in running /\ TerminateSyncs({f}) /\ delayed' = delayed
             /\ existing' = [existing EXCEPT ![f] = "leaving"]
    <3>1. \A g \in Known : g \notin Known' => g \in {f} \cap running
      BY <2>2 DEF Known, Typed
    <3>2. QED
      BY <2>1, <2>2, <3>1, TerminatedStage
  <2>3. CASE f \notin running /\ Delete(f)
    <3>1. /\ running' = running \ {f} /\ posted' = WithoutCallsOf(f)
          /\ delayed' = [delayed EXCEPT ![f] = 0]
          /\ propagator' = [propagator EXCEPT ![f] = "none"]
          /\ discovery' = [discovery EXCEPT ![f] = "none"]
          /\ existing' = [existing EXCEPT ![f] = "gone"]
      BY <2>3 DEF Delete
    <3>2. running' = running
      BY <2>3, <3>1
    <3>3. CASE f # current
      <4>1. current \in Known => current \in Known'
        BY <3>1, <3>3 DEF Known, Typed
      <4>2. \A i \in DOMAIN posted : posted[i].folder # f
        BY <3>3 DEF OneRun, NoRun, Starting, Running, Ended, Told, Orphaned, Call
      <4>3. posted' = posted
        BY <3>1, <4>2, PostedCalls, AllLeft
      <4>4. QED
        BY <2>1, <3>1, <3>2, <3>3, <4>1, <4>3
          DEF OneRun, NoRun, Starting, Running, Ended, Told, Orphaned, DelayedFor, Call, Typed, IInv, Types
    <3>4. CASE f = current
      <4>1. running = {}
        BY <2>3, <3>4 DEF OneRun, NoRun, Starting, Running, Ended, Told, Orphaned
      <4>2. posted' = <<>>
        <5>1. \A i \in DOMAIN posted : posted[i].folder = f
          BY <3>4 DEF OneRun, NoRun, Starting, Running, Ended, Told, Orphaned, Call
        <5>2. QED
          BY <3>1, <5>1, NoneLeft
      <4>3. \A g \in Folders : delayed'[g] = 0
        <5>1. \A g \in Folders \ {f} : delayed[g] = 0
          BY <2>1, <3>4, FoldersAssumption
            DEF OneRun, NoRun, Starting, Running, Ended, Told, Orphaned, DelayedFor
        <5>2. QED
          BY <3>1, <5>1 DEF Typed
      <4>4. Orphaned'
        <5>1. RemovedInGaps /\ RemovedInGaps' = RemovedInGaps
          BY <2>1, <2>3, <3>4 DEF RemovedInGaps
        <5>2. DelayedFor(None)'
          BY <4>3, FoldersAssumption DEF DelayedFor
        <5>3. QED
          BY <2>1, <3>2, <3>4, <4>1, <4>2, <5>1, <5>2 DEF Orphaned
      <4>5. QED
        BY <4>4 DEF OneRun
    <3>5. QED
      BY <3>3, <3>4
  <2>4. QED
    BY <1>3, <2>2, <2>3 DEF RemoveFolder
<1>4. ASSUME NEW f \in Folders, TogglePause(f) PROVE OneRun'
  <2>1. up /\ UNCHANGED <<current, delayed, existing>>
    BY <1>4 DEF TogglePause
  <2>2. TerminateSyncs({f}) \/ UNCHANGED <<running, posted, propagator, discovery>>
    BY <1>4 DEF TogglePause, engineVars
  <2>3. Known' = Known
    BY <2>1 DEF Known
  <2>4. QED
    BY <2>1, <2>2, <2>3, TerminatedStage, SameStage
<1>5. CASE StartScheduledFolderSync
  <2>1. UNCHANGED <<running, propagator, discovery, delayed, existing>>
    BY <1>5 DEF StartScheduledFolderSync, folderVars
  <2>2. CASE UNCHANGED <<current, posted>>
    BY <2>1, <2>2, SameStage
  <2>3. CASE ~UNCHANGED <<current, posted>>
    <3>. DEFINE ready == {i \in DOMAIN scheduled : CanSync(scheduled[i])}
                f     == scheduled[Min(ready)]
    <3>1. /\ ~AnySyncRunning(current, running) /\ ready # {}
          /\ current' = f
          /\ \E call \in {"startSync", "syncFinished"} : posted' = Append(posted, Call(call, f))
      BY <1>5, <2>3 DEF StartScheduledFolderSync
    <3>2. NoRun
      BY <3>1 DEF AnySyncRunning, OneRun, NoRun, Starting, Running, Ended, Told, Orphaned
    <3>3. f \in Known
      <4>1. scheduled \in Seq(Known)
        BY DEF Typed
      <4>2. ready \subseteq Nat /\ DOMAIN scheduled = 1 .. Len(scheduled)
        BY <4>1, LenProperties
      <4>3. Min(ready) \in ready
        BY <3>1, <4>2, LeastOf
      <4>4. QED
        BY <4>1, <4>2, <4>3, ElementOfSeq
    <3>. HIDE DEF f
    <3>4. current' \in Known' /\ current' # None
      BY <2>1, <3>1, <3>3, FoldersAssumption DEF Known
    <3>5. \E call \in {"startSync", "syncFinished"} : posted' = <<Call(call, f)>>
      BY <3>1, <3>2, Posting DEF NoRun
    <3>6. Starting' \/ Ended'
      BY <2>1, <3>1, <3>2, <3>4, <3>5 DEF NoRun, Starting, Ended, DelayedFor, Call
    <3>7. QED
      BY <3>6 DEF OneRun
  <2>4. QED
    BY <2>2, <2>3
<1>6. CASE Connect \/ OpenWizard \/ EnableSync
  BY <1>6, SameStage DEF Connect, OpenWizard, EnableSync, engineVars, folderVars
<1>7. CASE Disconnect
  <2>1. up /\ TerminateSyncs(running \cap Known) /\ UNCHANGED <<current, delayed, existing>>
    BY <1>7 DEF Disconnect, folderVars
  <2>2. QED
    BY <2>1, TerminatedStage DEF Known
<1>8. CASE PauseAll
  <2>1. up /\ TerminateSyncs(running \cap Known) /\ UNCHANGED <<current, delayed, existing>>
    BY <1>8 DEF PauseAll, managerVars
  <2>2. QED
    BY <2>1, TerminatedStage DEF Known
<1>9. CASE ResumeAll
  BY <1>9, SameStage DEF ResumeAll, engineVars
<1>10. QED
  BY <1>1, <1>2, <1>3, <1>4, <1>5, <1>6, <1>7, <1>8, <1>9

LEMMA DiscoveryStage ==
  ASSUME IInv, Typed, OneRun, NEW f \in Folders,
         EngineStart(f) \/ DiscoveryFails(f) \/ DeleteDiscovery(f) \/ DiscoveryFinishes(f)
  PROVE  OneRun'
<1>1. CASE EngineStart(f)
  <2>1. /\ posted # <<>> /\ Head(posted) = Call("startSync", f)
        /\ UNCHANGED <<current, delayed, propagator, existing>>
    BY <1>1 DEF EngineStart, IsNext, managerVars, folderVars
  <2>2. Starting /\ f = current /\ current \in Known /\ current # None
    <3>1. Starting /\ f = current
      BY <2>1, Posting DEF OneRun, NoRun, Starting, Running, Ended, Told, Orphaned, Call
    <3>2. QED
      BY <3>1 DEF Starting
  <2>3. Tail(posted) = <<>> /\ f \notin running
    BY <2>2, Posting DEF Starting
  <2>4. CASE /\ posted' = Tail(posted) /\ running' = running \cup {f}
             /\ discovery' = [discovery EXCEPT ![f] = "active"]
    <3>1. discovery'[current'] # "none" /\ current' \in Known'
      BY <2>1, <2>2, <2>4 DEF IInv, Types, Known
    <3>2. Running'
      BY <2>1, <2>2, <2>3, <2>4, <3>1 DEF Starting, Running, DelayedFor
    <3>3. QED
      BY <3>2 DEF OneRun
  <2>5. CASE posted' = Append(Tail(posted), Call("syncFinished", f)) /\ running' = running
    <3>1. posted' = <<Call("syncFinished", f)>>
      BY <2>3, <2>5, Posting
    <3>2. Ended'
      BY <2>1, <2>2, <2>5, <3>1 DEF Starting, Ended, DelayedFor, Call
    <3>3. QED
      BY <3>2 DEF OneRun
  <2>6. QED
    BY <1>1, <2>3, <2>4, <2>5 DEF EngineStart
<1>2. CASE DiscoveryFails(f)
  <2>1. up /\ discovery[f] = "active" /\ Finalize(f, posted) /\ UNCHANGED <<current, delayed>>
    BY <1>2 DEF DiscoveryFails, managerVars, folderVars
  <2>2. f \in running /\ propagator[f] = "none"
    BY <2>1 DEF IInv, Phases
  <2>3. posted = <<>>
    BY <2>2 DEF OneRun, NoRun, Starting, Running, Ended, Told, Orphaned
  <2>4. QED
    BY <2>1, <2>2, <2>3, FinalizedStage
<1>3. CASE DeleteDiscovery(f)
  <2>1. /\ posted # <<>> /\ Head(posted) = Call("deleteDiscovery", f) /\ posted' = Tail(posted)
        /\ UNCHANGED <<current, delayed, running>>
    BY <1>3 DEF DeleteDiscovery, IsNext, managerVars, folderVars
  <2>2. Ended /\ posted = <<Call("deleteDiscovery", current), Call("syncFinished", current)>>
    BY <2>1, Posting DEF OneRun, NoRun, Starting, Running, Ended, Told, Orphaned, Call
  <2>3. posted' = <<Call("syncFinished", current)>>
    BY <2>1, <2>2, Posting
  <2>4. Ended'
    BY <2>1, <2>2, <2>3 DEF Ended, DelayedFor, Call
  <2>5. QED
    BY <2>4 DEF OneRun
<1>4. CASE DiscoveryFinishes(f)
  <2>1. /\ up /\ discovery[f] = "active"
        /\ UNCHANGED <<current, delayed, running, posted, existing>>
        /\ discovery' = [discovery EXCEPT ![f] = "over"]
        /\ propagator' = [propagator EXCEPT ![f] = "working"] \/ propagator' = propagator
    BY <1>4 DEF DiscoveryFinishes, managerVars, WhileAsking
  <2>2. /\ propagator[f] = "none" /\ propagator \in [Folders -> {"none", "working", "over"}]
        /\ discovery \in [Folders -> {"none", "active", "over", "doomed"}]
    BY <2>1 DEF IInv, Phases, Types
  <2>3. QED
    BY <2>1, <2>2, SameStage
<1>5. QED
  BY <1>1, <1>2, <1>3, <1>4

LEMMA AnswerStage ==
  ASSUME AnsweredInTime, IInv, Typed, OneRun, NEW q \in questions, AnswerKeep(q) \/ AnswerRemove(q)
  PROVE  OneRun'
<1>. DEFINE f == q.folder
<1>1. q.live /\ up /\ f \in Folders
  BY DEF AnswerKeep, AnswerRemove, MayAnswer, AnsweredInTime, IInv, Types, Question
<1>2. discovery[f] = "over" /\ f \in running /\ propagator[f] = "none"
  BY <1>1 DEF IInv, Held
<1>3. UNCHANGED <<current, delayed, existing>>
  BY DEF AnswerKeep, AnswerRemove
<1>4. CASE AnswerKeep(q)
  <2>1. posted = <<>>
    BY <1>2 DEF OneRun, NoRun, Starting, Running, Ended, Told, Orphaned
  <2>2. Finalize(f, <<>>)
    BY <1>4, <2>1 DEF AnswerKeep
  <2>3. QED
    BY <1>2, <1>3, <2>2, FinalizedStage
<1>5. CASE AnswerRemove(q)
  <2>1. UNCHANGED <<running, posted, discovery>> /\ propagator' = [propagator EXCEPT ![f] = "working"]
    BY <1>2, <1>5 DEF AnswerRemove
  <2>2. propagator \in [Folders -> {"none", "working", "over"}]
    BY DEF IInv, Types
  <2>3. QED
    BY <1>2, <1>3, <2>1, <2>2, SameStage
<1>6. QED
  BY <1>4, <1>5

LEMMA RunEndStage ==
  ASSUME IInv, Typed, OneRun, NEW f \in Folders,
         PropagatorEnds(f) \/ PropagationFinished(f) \/ SyncFinished(f) \/ EmitFinishedDelayed(f)
  PROVE  up' = up /\ OneRun'
<1>1. CASE PropagatorEnds(f)
  <2>1. /\ up /\ up' = up /\ propagator[f] = "working"
        /\ propagator' = [propagator EXCEPT ![f] = "over"]
        /\ posted' = Append(posted, Call("propagationFinished", f))
        /\ UNCHANGED <<current, running, delayed>>
    BY <1>1 DEF PropagatorEnds, managerVars, folderVars
  <2>2. f \in running
    BY <2>1 DEF IInv, Phases
  <2>3. Running /\ f = current /\ posted = <<>>
    BY <2>1, <2>2 DEF OneRun, NoRun, Starting, Running, Ended, Told, Orphaned
  <2>4. posted' = <<Call("propagationFinished", f)>>
    BY <2>1, <2>3, Posting
  <2>5. propagator'[f] = "over"
    BY <2>1 DEF IInv, Types
  <2>6. Running'
    BY <2>1, <2>3, <2>4, <2>5 DEF Running, DelayedFor, Call
  <2>7. QED
    BY <2>1, <2>6 DEF OneRun
<1>2. CASE PropagationFinished(f)
  <2>1. posted # <<>> /\ Head(posted) = Call("propagationFinished", f) /\ UNCHANGED <<current, delayed>>
    BY <1>2 DEF PropagationFinished, IsNext, managerVars, folderVars
  <2>2. /\ f = current /\ f \in running /\ propagator[f] = "over"
        /\ posted = <<Call("propagationFinished", current)>>
    BY <2>1, Posting DEF OneRun, NoRun, Starting, Running, Ended, Told, Orphaned, Call
  <2>3. Tail(posted) = <<>>
    BY <2>2, Posting
  <2>4. Finalize(f, <<>>) /\ up' = up
    BY <1>2, <2>2, <2>3 DEF PropagationFinished
  <2>5. QED
    BY <2>1, <2>2, <2>4, FinalizedStage
<1>3. CASE SyncFinished(f)
  <2>1. /\ posted # <<>> /\ Head(posted) = Call("syncFinished", f) /\ posted' = Tail(posted)
        /\ delayed' = [delayed EXCEPT ![f] = delayed[f] + 1]
        /\ UNCHANGED <<up, current, running>>
    BY <1>3 DEF SyncFinished, IsNext, managerVars
  <2>2. Ended /\ f = current /\ posted = <<Call("syncFinished", current)>>
    BY <2>1, Posting DEF OneRun, NoRun, Starting, Running, Ended, Told, Orphaned, Call
  <2>3. posted' = <<>>
    BY <2>1, <2>2, Posting
  <2>4. \A g \in Folders : delayed'[g] = IF g = current THEN 1 ELSE 0
    <3>1. \A g \in Folders : delayed[g] = 0
      BY <2>2, FoldersAssumption DEF Ended, DelayedFor
    <3>2. delayed \in [Folders -> 0 .. MaxDelayed]
      BY DEF Typed
    <3>3. QED
      BY <2>1, <2>2, <3>1, <3>2
  <2>5. Told'
    BY <2>1, <2>2, <2>3, <2>4 DEF Ended, Told, DelayedFor
  <2>6. QED
    BY <2>1, <2>5 DEF OneRun
<1>4. CASE EmitFinishedDelayed(f)
  <2>1. delayed[f] > 0 /\ current' = ClearedBy(f) /\ up' = up
    BY <1>4 DEF EmitFinishedDelayed
  <2>2. Told /\ f = current
    <3>1. DelayedFor(None) => delayed[f] = 0
      BY FoldersAssumption DEF DelayedFor
    <3>2. Told
      BY <2>1, <3>1 DEF OneRun, NoRun, Starting, Running, Ended, Orphaned
    <3>3. delayed[f] = IF f = current THEN 1 ELSE 0
      BY <3>2 DEF Told, DelayedFor
    <3>4. QED
      BY <2>1, <3>2, <3>3
  <2>3. current' = None
    BY <2>1, <2>2 DEF ClearedBy
  <2>4. /\ \A g \in Folders : delayed[g] = IF g = f THEN 1 ELSE 0
        /\ delayed \in [Folders -> 0 .. MaxDelayed] /\ None \notin Folders
    BY <2>2, FoldersAssumption DEF Told, DelayedFor, Typed
  <2>5. CASE delayed' = [delayed EXCEPT ![f] = delayed[f] - 1] /\ UNCHANGED <<running, posted>>
    <3>0. \A g \in Folders : delayed'[g] = 0
      BY <2>4, <2>5
    <3>1. NoRun'
      BY <2>2, <2>3, <2>5, <3>0, <2>4 DEF Told, NoRun, DelayedFor
    <3>2. QED
      BY <2>1, <3>1 DEF OneRun
  <2>6. CASE Delete(f)
    <3>1. /\ running' = running \ {f} /\ posted' = WithoutCallsOf(f)
          /\ delayed' = [delayed EXCEPT ![f] = 0]
      BY <2>6 DEF Delete
    <3>2. posted' = <<>>
      BY <2>2, <3>1, NoneLeft DEF Told
    <3>0. \A g \in Folders : delayed'[g] = 0
      BY <2>4, <3>1
    <3>3. NoRun'
      BY <2>2, <2>3, <3>0, <3>1, <3>2, <2>4 DEF Told, NoRun, DelayedFor
    <3>4. QED
      BY <2>1, <3>3 DEF OneRun
  <2>7. QED
    BY <1>4, <2>5, <2>6 DEF EmitFinishedDelayed
<1>5. QED
  BY <1>1, <1>2, <1>3, <1>4

-----------------------------------------------------------------------------
(* The queue. *)

\* What joins a queue stands in it once.
LEMMA Joining ==
  ASSUME NEW S, NEW q \in Seq(S), Distinct(q), NEW N \in SUBSET S, IsFiniteSet(N),
         N \cap ToSet(q) = {}
  PROVE  LET r == q \o SetToSeq(N) IN
         /\ r \in Seq(S) /\ Distinct(r)
         /\ N = {} => r = q
         /\ r # q => ToSet(r) \cap N # {}
<1>. DEFINE l == SetToSeq(N)
            r == q \o l
<1>1. /\ l \in Seq(N) /\ DOMAIN l = 1 .. Len(l) /\ Distinct(l)
  BY ListOf DEF Distinct
<1>2. l \in Seq(S)
  BY <1>1, SeqMonotonic
<1>3. N = {} => l = <<>>
  BY ListOfNone
<1>. HIDE DEF l
<1>4. /\ r \in Seq(S) /\ Len(r) = Len(q) + Len(l)
      /\ \A i \in 1 .. Len(q) + Len(l) : r[i] = IF i <= Len(q) THEN q[i] ELSE l[i - Len(q)]
  BY <1>2, ConcatProperties
<1>5. q \o <<>> = q
  BY ConcatEmptySeq
<1>. HIDE DEF r
<1>6. /\ Len(q) \in Nat /\ Len(l) \in Nat
      /\ DOMAIN q = 1 .. Len(q) /\ DOMAIN r = 1 .. Len(q) + Len(l)
  BY <1>2, <1>4, LenProperties
<1>7. \A i \in DOMAIN l : l[i] \in N
  BY <1>1, ElementOfSeq
<1>8. \A i \in DOMAIN q : q[i] \notin N
  BY DEF ToSet
<1>9. Distinct(r)
  <2>. SUFFICES ASSUME NEW i \in DOMAIN r, NEW j \in DOMAIN r, r[i] = r[j] PROVE i = j
    BY DEF Distinct
  <2>1. CASE i <= Len(q) /\ j <= Len(q)
    BY <1>4, <1>6, <2>1 DEF Distinct
  <2>2. CASE i > Len(q) /\ j > Len(q)
    <3>1. l[i - Len(q)] = l[j - Len(q)] /\ i - Len(q) \in DOMAIN l /\ j - Len(q) \in DOMAIN l
      BY <1>1, <1>4, <1>6, <2>2
    <3>2. i - Len(q) = j - Len(q)
      BY <1>1, <3>1 DEF Distinct
    <3>3. QED
      BY <1>6, <3>2
  <2>3. CASE i <= Len(q) /\ j > Len(q)
    <3>1. r[i] = q[i] /\ i \in DOMAIN q /\ r[j] = l[j - Len(q)] /\ j - Len(q) \in DOMAIN l
      BY <1>1, <1>4, <1>6, <2>3
    <3>2. QED
      BY <1>7, <1>8, <3>1
  <2>4. CASE i > Len(q) /\ j <= Len(q)
    <3>1. r[j] = q[j] /\ j \in DOMAIN q /\ r[i] = l[i - Len(q)] /\ i - Len(q) \in DOMAIN l
      BY <1>1, <1>4, <1>6, <2>4
    <3>2. QED
      BY <1>7, <1>8, <3>1
  <2>5. QED
    BY <1>6, <2>1, <2>2, <2>3, <2>4
<1>10. ASSUME r # q PROVE ToSet(r) \cap N # {}
  <2>1. l # <<>>
    BY <1>5, <1>10 DEF r
  <2>2. Len(l) > 0
    BY <1>2, <2>1, EmptySeq
  <2>3. Len(q) + 1 \in DOMAIN r /\ r[Len(q) + 1] = l[1] /\ 1 \in DOMAIN l
    BY <1>1, <1>4, <1>6, <2>2
  <2>4. QED
    BY <1>7, <2>3 DEF ToSet
<1>11. QED
  BY <1>3, <1>4, <1>5, <1>9, <1>10 DEF r, l

\* Who leaves a queue is not in it any more.
LEMMA Leaving ==
  ASSUME NEW S, NEW q \in Seq(S), Distinct(q), NEW f
  PROVE  LET r == RemoveFirst(q, f) IN
         /\ r \in Seq(S) /\ Distinct(r) /\ f \notin ToSet(r)
         /\ q = <<>> => r = <<>>
<1>. DEFINE r == RemoveFirst(q, f)
            I == {i \in 1 .. Len(q) : q[i] = f}
<1>1. Len(q) \in Nat /\ DOMAIN q = 1 .. Len(q) /\ \A i \in DOMAIN q : q[i] \in S
  BY LenProperties, ElementOfSeq
<1>2. CASE I = {}
  <2>1. r = q
    BY <1>2 DEF RemoveFirst
  <2>2. QED
    BY <1>1, <1>2, <2>1 DEF ToSet
<1>3. CASE I # {}
  <2>. DEFINE k == Min(I)
              a == SubSeq(q, 1, k - 1)
              b == SubSeq(q, k + 1, Len(q))
  <2>1. k \in 1 .. Len(q) /\ q[k] = f
    <3>1. I \in SUBSET Nat
      BY <1>1
    <3>2. k \in I
      BY <1>3, <3>1, LeastOf
    <3>3. QED
      BY <3>2
  <2>2. r = a \o b
    BY <1>3 DEF RemoveFirst, SelectInSeq, RemoveAt
  <2>. HIDE DEF k
  <2>3. a \in Seq(S) /\ Len(a) = k - 1 /\ \A i \in 1 .. k - 1 : a[i] = q[i]
    <3>1. \A i \in 1 .. k - 1 : q[i] \in S
      BY <1>1, <2>1
    <3>2. QED
      BY <1>1, <2>1, <3>1, SubSeqProperties
  <2>4. b \in Seq(S) /\ Len(b) = Len(q) - k /\ \A i \in 1 .. Len(q) - k : b[i] = q[k + i]
    <3>1. \A i \in k + 1 .. Len(q) : q[i] \in S
      BY <1>1, <2>1
    <3>2. /\ b \in Seq(S)
          /\ Len(b) = IF k + 1 <= Len(q) THEN Len(q) - (k + 1) + 1 ELSE 0
          /\ \A i \in 1 .. Len(q) - (k + 1) + 1 : b[i] = q[k + 1 + i - 1]
      <4>1. k + 1 \in Int /\ Len(q) \in Int
        BY <1>1, <2>1
      <4>2. QED
        BY <3>1, <4>1, SubSeqProperties
    <3>. HIDE DEF a, b, r, I
    <3>3. Len(b) = Len(q) - k
      <4>1. \A n \in Nat : \A m \in 1 .. n :
              (IF m + 1 <= n THEN n - (m + 1) + 1 ELSE 0) = n - m
        OBVIOUS
      <4>2. Len(q) \in Nat /\ k \in 1 .. Len(q)
        BY <1>1, <2>1
      <4>3. QED
        BY <3>2, <4>1, <4>2
    <3>4. ASSUME NEW i \in 1 .. Len(q) - k PROVE b[i] = q[k + i]
      <4>1. i \in 1 .. Len(q) - (k + 1) + 1 /\ k + 1 + i - 1 = k + i
        BY <1>1, <2>1
      <4>2. b[i] = q[k + 1 + i - 1]
        BY <3>2, <4>1
      <4>3. QED
        BY <4>1, <4>2
    <3>5. QED
      BY <3>2, <3>3, <3>4
  <2>. HIDE DEF a, b, r
  <2>5. /\ r \in Seq(S) /\ Len(r) = Len(q) - 1
        /\ \A i \in 1 .. Len(q) - 1 : r[i] = IF i < k THEN q[i] ELSE q[i + 1]
    <3>1. /\ r \in Seq(S) /\ Len(r) = Len(a) + Len(b)
          /\ \A i \in 1 .. Len(a) + Len(b) : r[i] = IF i <= Len(a) THEN a[i] ELSE b[i - Len(a)]
      BY <2>2, <2>3, <2>4, ConcatProperties
    <3>2. Len(r) = Len(q) - 1
      BY <1>1, <2>1, <2>3, <2>4, <3>1
    <3>3. ASSUME NEW i \in 1 .. Len(q) - 1 PROVE r[i] = IF i < k THEN q[i] ELSE q[i + 1]
      <4>1. CASE i < k
        <5>1. i \in 1 .. k - 1 /\ i \in 1 .. Len(a) + Len(b) /\ i <= Len(a)
          BY <1>1, <2>1, <2>3, <2>4, <4>1
        <5>2. r[i] = a[i]
          BY <3>1, <5>1
        <5>3. a[i] = q[i]
          BY <2>3, <5>1
        <5>4. QED
          BY <4>1, <5>2, <5>3
      <4>2. CASE ~(i < k)
        <5>1. i - Len(a) \in 1 .. Len(q) - k /\ k + (i - Len(a)) = i + 1 /\ ~(i <= Len(a))
          BY <1>1, <2>1, <2>3, <4>2
        <5>2. i \in 1 .. Len(a) + Len(b)
          BY <1>1, <2>1, <2>3, <2>4
        <5>3. r[i] = b[i - Len(a)]
          BY <3>1, <5>1, <5>2
        <5>4. b[i - Len(a)] = q[k + (i - Len(a))]
          BY <2>4, <5>1
        <5>5. QED
          BY <4>2, <5>1, <5>3, <5>4
      <4>3. QED
        BY <4>1, <4>2
    <3>4. QED
      BY <3>1, <3>2, <3>3
  <2>6. DOMAIN r = 1 .. Len(q) - 1
    BY <2>5, LenProperties
  <2>7. Distinct(r)
    <3>. SUFFICES ASSUME NEW i \in DOMAIN r, NEW j \in DOMAIN r, r[i] = r[j] PROVE i = j
      BY DEF Distinct
    <3>. DEFINE at(x) == IF x < k THEN x ELSE x + 1
    <3>1. ASSUME NEW x \in DOMAIN r PROVE at(x) \in DOMAIN q /\ r[x] = q[at(x)]
      BY <1>1, <2>1, <2>5, <2>6
    <3>2. at(i) \in DOMAIN q /\ at(j) \in DOMAIN q /\ q[at(i)] = q[at(j)]
      BY <3>1
    <3>. HIDE DEF at
    <3>3. at(i) = at(j)
      BY <3>2 DEF Distinct
    <3>4. QED
      BY <1>1, <2>1, <2>6, <3>3 DEF at
  <2>8. f \notin ToSet(r)
    <3>1. ASSUME NEW i \in DOMAIN r PROVE r[i] # f
      <4>. DEFINE x == IF i < k THEN i ELSE i + 1
      <4>1. x \in DOMAIN q /\ r[i] = q[x] /\ x # k
        BY <1>1, <2>1, <2>5, <2>6
      <4>. HIDE DEF x
      <4>2. k \in DOMAIN q
        BY <1>1, <2>1
      <4>3. QED
        BY <2>1, <4>1, <4>2 DEF Distinct
    <3>2. QED
      BY <3>1 DEF ToSet
  <2>9. q # <<>>
    BY <1>1, <2>1, EmptySeq
  <2>10. QED
    BY <2>5, <2>7, <2>8, <2>9 DEF r
<1>4. QED
  BY <1>2, <1>3

\* Who comes first stands before all others.
LEMMA First ==
  ASSUME NEW S, NEW q \in Seq(S), Distinct(q), NEW f \in S, f \notin ToSet(q)
  PROVE  <<f>> \o q \in Seq(S) /\ Distinct(<<f>> \o q)
<1>. DEFINE r == <<f>> \o q
<1>1. <<f>> \in Seq(S) /\ Len(<<f>>) = 1 /\ <<f>>[1] = f
  OBVIOUS
<1>2. /\ r \in Seq(S) /\ Len(r) = 1 + Len(q)
      /\ \A i \in 1 .. 1 + Len(q) : r[i] = IF i <= 1 THEN <<f>>[i] ELSE q[i - 1]
  BY <1>1, ConcatProperties
<1>. HIDE DEF r
<1>3. Len(q) \in Nat /\ DOMAIN q = 1 .. Len(q) /\ DOMAIN r = 1 .. 1 + Len(q)
  BY <1>2, LenProperties
<1>4. \A i \in DOMAIN q : q[i] # f
  BY DEF ToSet
<1>5. Distinct(r)
  <2>. SUFFICES ASSUME NEW i \in DOMAIN r, NEW j \in DOMAIN r, r[i] = r[j] PROVE i = j
    BY DEF Distinct
  <2>0. \A x \in DOMAIN r : x # 1 => x - 1 \in DOMAIN q /\ r[x] = q[x - 1] /\ r[x] # f
    <3>1. ASSUME NEW x \in DOMAIN r, x # 1 PROVE x - 1 \in DOMAIN q /\ r[x] = q[x - 1]
      BY <1>2, <1>3, <3>1
    <3>2. QED
      BY <1>4, <3>1
  <2>1. CASE i = 1 \/ j = 1
    <3>1. r[1] = f
      BY <1>1, <1>2, <1>3
    <3>2. QED
      BY <2>0, <2>1, <3>1
  <2>2. CASE i # 1 /\ j # 1
    <3>1. q[i - 1] = q[j - 1] /\ i - 1 \in DOMAIN q /\ j - 1 \in DOMAIN q
      BY <2>0, <2>2
    <3>2. i - 1 = j - 1
      BY <3>1 DEF Distinct
    <3>3. QED
      BY <1>3, <3>2
  <2>3. QED
    BY <2>1, <2>2
<1>6. QED
  BY <1>2, <1>5 DEF r

\* The rest of a queue.
LEMMA Rest ==
  ASSUME NEW S, NEW q \in Seq(S), Distinct(q), NEW m \in DOMAIN q
  PROVE  SubSeq(q, m + 1, Len(q)) \in Seq(S) /\ Distinct(SubSeq(q, m + 1, Len(q)))
<1>. DEFINE r == SubSeq(q, m + 1, Len(q))
<1>1. Len(q) \in Nat /\ DOMAIN q = 1 .. Len(q) /\ \A i \in DOMAIN q : q[i] \in S
  BY LenProperties, ElementOfSeq
<1>2. /\ r \in Seq(S) /\ Len(r) = Len(q) - m
      /\ \A i \in 1 .. Len(q) - m : r[i] = q[m + i]
  <2>1. \A i \in m + 1 .. Len(q) : q[i] \in S
    BY <1>1
  <2>2. m + 1 \in Int /\ Len(q) \in Int
    BY <1>1
  <2>3. /\ r \in Seq(S)
        /\ Len(r) = IF m + 1 <= Len(q) THEN Len(q) - (m + 1) + 1 ELSE 0
        /\ \A i \in 1 .. Len(q) - (m + 1) + 1 : r[i] = q[m + 1 + i - 1]
    BY <2>1, <2>2, SubSeqProperties
  <2>. HIDE DEF r
  <2>4. Len(r) = Len(q) - m
    BY <1>1, <2>3
  <2>5. ASSUME NEW i \in 1 .. Len(q) - m PROVE r[i] = q[m + i]
    <3>1. i \in 1 .. Len(q) - (m + 1) + 1 /\ m + 1 + i - 1 = m + i
      BY <1>1
    <3>2. r[i] = q[m + 1 + i - 1]
      BY <2>3, <3>1
    <3>3. QED
      BY <3>1, <3>2
  <2>6. QED
    BY <2>3, <2>4, <2>5
<1>. HIDE DEF r
<1>3. DOMAIN r = 1 .. Len(q) - m
  BY <1>2, LenProperties
<1>4. Distinct(r)
  <2>. SUFFICES ASSUME NEW i \in DOMAIN r, NEW j \in DOMAIN r, r[i] = r[j] PROVE i = j
    BY DEF Distinct
  <2>1. m + i \in DOMAIN q /\ m + j \in DOMAIN q /\ q[m + i] = q[m + j]
    BY <1>1, <1>2, <1>3
  <2>2. m + i = m + j
    BY <2>1 DEF Distinct
  <2>3. QED
    BY <1>1, <1>3, <2>2
<1>5. QED
  BY <1>2, <1>4 DEF r


\* FolderMan::scheduleFolder: the queue stays a queue, and the timer is armed for it.
LEMMA Scheduling ==
  ASSUME Typed, NEW asked, NEW able, asked \cap able \subseteq Known, ScheduleFolders(asked, able)
  PROVE  /\ scheduled' \in Seq(Known) /\ Distinct(scheduled') /\ startTimer' \in BOOLEAN
         /\ asked \cap able = {} => scheduled' = scheduled
         /\ current = None /\ running' = {} /\ (scheduled # <<>> => startTimer)
              => (scheduled' # <<>> => startTimer')
<1>. DEFINE N == (asked \cap able) \ Queued
            q == scheduled \o SetToSeq(N)
<1>1. /\ scheduled' = q
      /\ startTimer' = IF asked \cap ToSet(q) = {} THEN startTimer ELSE Soon(q, current, running')
  BY DEF ScheduleFolders, NewlyQueued
<1>2. IsFiniteSet(N) /\ N \in SUBSET Known /\ N \subseteq asked /\ N \cap ToSet(scheduled) = {}
  <2>1. N \in SUBSET Folders /\ IsFiniteSet(Folders)
    BY FoldersAssumption DEF Known
  <2>2. QED
    BY <2>1, FS_Subset DEF Queued
<1>3. startTimer \in BOOLEAN /\ scheduled \in Seq(Known) /\ Distinct(scheduled)
  BY DEF Typed
<1>4. asked \cap able = {} => N = {}
  OBVIOUS
<1>. HIDE DEF N
<1>5. /\ q \in Seq(Known) /\ Distinct(q) /\ (N = {} => q = scheduled)
      /\ q # scheduled => ToSet(q) \cap N # {}
  BY <1>2, <1>3, Joining
<1>. HIDE DEF q
<1>6. startTimer' \in BOOLEAN
  BY <1>1, <1>3 DEF Soon, AnySyncRunning
<1>7. ASSUME current = None, running' = {}, scheduled # <<>> => startTimer, scheduled' # <<>>
      PROVE  startTimer'
  <2>1. CASE q = scheduled
    BY <1>1, <1>7, <2>1 DEF Soon
  <2>2. CASE q # scheduled
    BY <1>1, <1>2, <1>5, <1>7, <2>2 DEF Soon, AnySyncRunning
  <2>3. QED
    BY <2>1, <2>2
<1>8. QED
  BY <1>1, <1>4, <1>5, <1>6, <1>7

\* Who joins a queue, or was in it already, is in it.
LEMMA Joined ==
  ASSUME NEW S, NEW q \in Seq(S), NEW x \in S
  PROVE  x \in ToSet(q \o SetToSeq({x} \ ToSet(q)))
<1>. DEFINE N == {x} \ ToSet(q)
            l == SetToSeq(N)
            r == q \o l
<1>1. CASE x \in ToSet(q)
  <2>1. N = {}
    BY <1>1
  <2>. HIDE DEF N
  <2>2. l = <<>>
    BY <2>1, ListOfNone
  <2>3. r = q
    BY <2>2, ConcatEmptySeq
  <2>4. QED
    BY <1>1, <2>3 DEF r, l, N
<1>2. CASE x \notin ToSet(q)
  <2>1. N = {x}
    BY <1>2
  <2>. HIDE DEF N
  <2>2. l = <<x>>
    BY <2>1, ListOfOne
  <2>3. l \in Seq(S) /\ Len(l) = 1 /\ l[1] = x
    BY <2>2
  <2>. HIDE DEF l
  <2>4. /\ r \in Seq(S) /\ Len(r) = Len(q) + Len(l)
        /\ \A i \in 1 .. Len(q) + Len(l) : r[i] = IF i <= Len(q) THEN q[i] ELSE l[i - Len(q)]
    BY <2>3, ConcatProperties
  <2>. HIDE DEF r
  <2>5. Len(q) \in Nat /\ DOMAIN r = 1 .. Len(q) + 1
    BY <2>3, <2>4, LenProperties
  <2>6. Len(q) + 1 \in DOMAIN r /\ r[Len(q) + 1] = x
    BY <2>3, <2>4, <2>5
  <2>7. QED
    BY <2>6 DEF ToSet, r, l, N
<1>3. QED
  BY <1>1, <1>2

\* A folder that is scheduled, and can sync, is in the queue.
LEMMA Asking ==
  ASSUME Typed, NEW f \in Known, ScheduleFolders({f}, {f})
  PROVE  {f} \cap ToSet(scheduled') # {}
<1>1. scheduled' = scheduled \o SetToSeq({f} \ ToSet(scheduled)) /\ scheduled \in Seq(Known)
  BY DEF ScheduleFolders, NewlyQueued, Queued, Typed
<1>2. QED
  BY <1>1, Joined

-----------------------------------------------------------------------------
(* The queue is watched. *)

\* What only changes who waits, and the timer.
LEMMA Requeued ==
  ASSUME Typed, scheduled' \in Seq(Known), Distinct(scheduled'), startTimer' \in BOOLEAN,
         connected' \in BOOLEAN, syncEnabled' \in BOOLEAN, forced' \in 0 .. MaxForced,
         UNCHANGED <<up, existing, current, delayed, failing>>
  PROVE  Typed'
BY DEF Typed, Known

\* What leaves the queue and its watchers alone.
LEMMA SameQueue ==
  ASSUME UNCHANGED <<scheduled, syncEnabled, current, startTimer, connected>>
  PROVE  (Watched => Watched') /\ (Offline => Offline')
BY DEF Watched, Offline

\* A request, of whatever kind.
LEMMA Requested ==
  ASSUME Typed, Offline, NEW asked, NEW able, asked \cap able \subseteq Known,
         ScheduleFolders(asked, able), running' \subseteq running,
         ~connected' => asked \cap able = {} /\ ~connected,
         connected' \in BOOLEAN, forced' \in 0 .. MaxForced,
         UNCHANGED <<up, syncEnabled, existing, current, delayed, failing>>
  PROVE  Typed' /\ Offline' /\ (OneRun /\ Watched => Watched')
<1>1. /\ scheduled' \in Seq(Known) /\ Distinct(scheduled') /\ startTimer' \in BOOLEAN
      /\ asked \cap able = {} => scheduled' = scheduled
      /\ current = None /\ running' = {} /\ (scheduled # <<>> => startTimer)
           => (scheduled' # <<>> => startTimer')
  BY Scheduling
<1>2. Typed'
  <2>1. syncEnabled' \in BOOLEAN
    BY DEF Typed
  <2>2. QED
    BY <1>1, <2>1, Requeued
<1>3. ASSUME OneRun, Watched PROVE Watched'
  <2>1. current = None => running' = {}
    BY <1>3 DEF OneRun, NoRun, Starting, Running, Ended, Told, Orphaned
  <2>2. QED
    BY <1>1, <1>3, <2>1 DEF Watched
<1>4. Offline'
  BY <1>1 DEF Offline
<1>5. QED
  BY <1>2, <1>3, <1>4

\* The user's "sync now" comes before all others.
LEMMA ForceQueue ==
  ASSUME Typed, Offline, NEW f \in Folders, ForceSync(f)
  PROVE  Typed' /\ Offline' /\ (OneRun /\ Watched => Watched')
<1>. DEFINE again == {g \in running \cap Known : CanSync(g)}
            q     == scheduled \o SetToSeq(again \ Queued)
            front == IF CanSync(f) THEN <<f>> \o RemoveFirst(q, f) ELSE q
<1>1. /\ scheduled' = front /\ f \in Known /\ TerminateSyncs(running \cap Known)
      /\ startTimer' = IF CanSync(f) \/ running \cap ToSet(q) # {}
                         THEN Soon(front, current, running')
                         ELSE startTimer
      /\ UNCHANGED <<up, connected, syncEnabled, current, existing, delayed, failing>>
      /\ forced < MaxForced /\ forced' = forced + 1
  BY DEF ForceSync, folderVars
<1>2. /\ startTimer \in BOOLEAN /\ scheduled \in Seq(Known) /\ Distinct(scheduled)
      /\ connected \in BOOLEAN /\ syncEnabled \in BOOLEAN /\ forced \in 0 .. MaxForced
  BY DEF Typed
<1>3. /\ IsFiniteSet(again \ Queued) /\ again \ Queued \in SUBSET Known
      /\ (again \ Queued) \cap ToSet(scheduled) = {}
  <2>1. again \ Queued \in SUBSET Folders /\ IsFiniteSet(Folders)
    BY FoldersAssumption DEF Known
  <2>2. QED
    BY <2>1, FS_Subset DEF Queued
<1>4. again # {} => connected /\ running # {}
  BY DEF CanSync
<1>. HIDE DEF again
<1>5. q \in Seq(Known) /\ Distinct(q) /\ (again = {} => q = scheduled)
  BY <1>2, <1>3, Joining
<1>. HIDE DEF q
<1>6. /\ RemoveFirst(q, f) \in Seq(Known) /\ Distinct(RemoveFirst(q, f))
      /\ f \notin ToSet(RemoveFirst(q, f))
  BY <1>5, Leaving
<1>7. <<f>> \o RemoveFirst(q, f) \in Seq(Known) /\ Distinct(<<f>> \o RemoveFirst(q, f))
  BY <1>1, <1>6, First
<1>8. front \in Seq(Known) /\ Distinct(front)
  BY <1>5, <1>7
<1>9. ~CanSync(f) => front = q
  OBVIOUS
<1>. HIDE DEF front
<1>10. startTimer' \in BOOLEAN
  BY <1>1, <1>2 DEF Soon, AnySyncRunning
<1>11. Typed'
  <2>1. forced' \in 0 .. MaxForced
    <3>1. forced < MaxForced /\ forced' = forced + 1 /\ forced \in 0 .. MaxForced
      BY <1>1, <1>2
    <3>2. MaxForced \in Nat
      BY FoldersAssumption
    <3>3. QED
      BY <3>1, <3>2
  <2>2. QED
    BY <1>1, <1>2, <1>8, <1>10, <2>1, Requeued
<1>12. ASSUME OneRun, Watched PROVE Watched'
  <2>. SUFFICES ASSUME scheduled' # <<>>, syncEnabled, current = None PROVE startTimer'
    BY <1>1 DEF Watched
  <2>1. running = {}
    BY <1>12 DEF OneRun, NoRun, Starting, Running, Ended, Told, Orphaned
  <2>2. running' = {}
    BY <1>1, <2>1 DEF TerminateSyncs
  <2>3. Soon(front, current, running')
    BY <1>1, <2>2 DEF Soon, AnySyncRunning
  <2>4. CASE CanSync(f)
    BY <1>1, <2>3, <2>4
  <2>5. CASE ~CanSync(f)
    <3>1. scheduled' = scheduled /\ running \cap ToSet(q) = {}
      BY <1>1, <1>4, <1>5, <1>9, <2>1, <2>5
    <3>2. QED
      BY <1>1, <1>12, <2>5, <3>1 DEF Watched
  <2>6. QED
    BY <2>4, <2>5
<1>13. Offline'
  <2>1. ~connected => ~CanSync(f) /\ again = {}
    BY <1>4 DEF CanSync
  <2>2. QED
    BY <1>1, <1>5, <1>9, <2>1 DEF Offline
<1>14. QED
  BY <1>11, <1>12, <1>13

LEMMA ManagerQueue ==
  ASSUME Typed, Offline,
         \/ \E f \in Folders :
              \/ Schedule(f) \/ ScheduleByTime(f) \/ RunEtagJob(f) \/ EtagJobEnds(f)
              \/ ForceSync(f) \/ RemoveFolder(f) \/ TogglePause(f)
         \/ StartScheduledFolderSync \/ Connect \/ Disconnect \/ OpenWizard \/ EnableSync
         \/ PauseAll \/ ResumeAll
  PROVE  Typed' /\ Offline' /\ (OneRun /\ Watched => Watched')
<1>0. /\ startTimer \in BOOLEAN /\ scheduled \in Seq(Known) /\ Distinct(scheduled)
      /\ connected \in BOOLEAN /\ syncEnabled \in BOOLEAN /\ forced \in 0 .. MaxForced
  BY DEF Typed
<1>1. ASSUME NEW f \in Folders, Schedule(f) PROVE Typed' /\ Offline' /\ (OneRun /\ Watched => Watched')
  <2>. DEFINE able == {g \in Known : CanSync(g)}
  <2>1. /\ ScheduleFolders({f}, able) /\ running' = running
        /\ UNCHANGED <<up, connected, forced, syncEnabled, existing, current, delayed, failing>>
    BY <1>1 DEF Schedule, engineVars, folderVars
  <2>2. able \subseteq Known /\ (~connected => able = {})
    BY DEF CanSync
  <2>. HIDE DEF able
  <2>3. QED
    BY <1>0, <2>1, <2>2, Requested
<1>2. ASSUME NEW f \in Folders, ScheduleByTime(f) PROVE Typed' /\ Offline' /\ (OneRun /\ Watched => Watched')
  <2>1. /\ ScheduleFolders({f}, {f}) /\ running' = running /\ f \in Known /\ connected
        /\ UNCHANGED <<up, connected, forced, syncEnabled, existing, current, delayed, failing>>
    BY <1>2 DEF ScheduleByTime, CanSync, engineVars, folderVars
  <2>2. QED
    BY <1>0, <2>1, Requested
<1>3. ASSUME NEW f \in Folders, ForceSync(f) PROVE Typed' /\ Offline' /\ (OneRun /\ Watched => Watched')
  BY <1>3, ForceQueue
<1>4. ASSUME NEW f \in Folders, RemoveFolder(f) PROVE Typed' /\ Offline' /\ (OneRun /\ Watched => Watched')
  <2>1. /\ scheduled' = RemoveFirst(scheduled, f)
        /\ \/ existing' = [existing EXCEPT ![f] = "leaving"] /\ UNCHANGED <<delayed, failing>>
           \/ /\ existing' = [existing EXCEPT ![f] = "gone"]
              /\ delayed' = [delayed EXCEPT ![f] = 0] /\ failing' = [failing EXCEPT ![f] = 0]
        /\ UNCHANGED <<up, connected, forced, syncEnabled, current, startTimer>>
    BY <1>4 DEF RemoveFolder, Delete
  <2>2. /\ scheduled' \in Seq(Known) /\ Distinct(scheduled') /\ f \notin ToSet(scheduled')
        /\ scheduled = <<>> => scheduled' = <<>>
    BY <1>0, <2>1, Leaving
  <2>3. /\ existing \in [Folders -> {"known", "leaving", "gone"}]
        /\ delayed \in [Folders -> 0 .. MaxDelayed] /\ failing \in [Folders -> 0 .. RetryLimit]
        /\ MaxDelayed \in Nat /\ RetryLimit \in Nat
    BY FoldersAssumption DEF Typed
  <2>4. existing' \in [Folders -> {"known", "leaving", "gone"}] /\ Known \ {f} \subseteq Known'
    BY <2>1, <2>3 DEF Known
  <2>5. scheduled' \in Seq(Known')
    <3>1. \A i \in 1 .. Len(scheduled') : scheduled'[i] \in Known /\ scheduled'[i] # f
      BY <2>2, ElementOfSeq, LenProperties DEF ToSet
    <3>2. \A i \in 1 .. Len(scheduled') : scheduled'[i] \in Known'
      BY <2>4, <3>1
    <3>3. QED
      BY <2>2, <3>2, SeqDef, LenProperties
  <2>6. delayed' \in [Folders -> 0 .. MaxDelayed] /\ failing' \in [Folders -> 0 .. RetryLimit]
    BY <2>1, <2>3
  <2>7. Typed'
    BY <2>1, <2>2, <2>4, <2>5, <2>6 DEF Typed
  <2>8. QED
    BY <2>1, <2>2, <2>7 DEF Watched, Offline
<1>5. ASSUME NEW f \in Folders, TogglePause(f) PROVE Typed' /\ Offline' /\ (OneRun /\ Watched => Watched')
  <2>1. /\ f \in Known /\ running' \subseteq running
        /\ UNCHANGED <<up, connected, forced, syncEnabled, current, existing, delayed, failing>>
    BY <1>5 DEF TogglePause, TerminateSyncs, engineVars
  <2>2. CASE ScheduleFolders({f}, {g \in {f} : connected})
    BY <1>0, <2>1, <2>2, Requested
  <2>3. CASE UNCHANGED <<scheduled, startTimer>>
    BY <1>0, <2>1, <2>3, Requeued, SameQueue
  <2>4. QED
    BY <1>5, <2>2, <2>3 DEF TogglePause
<1>6. CASE StartScheduledFolderSync
  <2>1. /\ startTimer' = FALSE
        /\ UNCHANGED <<up, connected, forced, syncEnabled, running, existing, delayed, failing>>
    BY <1>6 DEF StartScheduledFolderSync, folderVars
  <2>2. OneRun /\ current = None => running = {}
    BY DEF OneRun, NoRun, Starting, Running, Ended, Told, Orphaned
  <2>3. CASE AnySyncRunning(current, running) \/ ~syncEnabled
    <3>1. UNCHANGED <<scheduled, current>>
      BY <1>6, <2>3 DEF StartScheduledFolderSync
    <3>2. OneRun => ~(syncEnabled /\ current = None)
      BY <2>2, <2>3 DEF AnySyncRunning
    <3>3. Typed'
      BY <1>0, <2>1, <3>1, Requeued
    <3>4. QED
      BY <2>1, <3>1, <3>2, <3>3 DEF Watched, Offline
  <2>4. CASE ~AnySyncRunning(current, running) /\ syncEnabled
    <3>. DEFINE ready == {i \in DOMAIN scheduled : CanSync(scheduled[i])}
    <3>1. CASE ready = {}
      <4>1. scheduled' = <<>> /\ current' = current
        BY <1>6, <2>4, <3>1 DEF StartScheduledFolderSync
      <4>2. <<>> \in Seq(Known) /\ Distinct(<<>>)
        BY DEF Distinct
      <4>3. Typed'
        BY <1>0, <2>1, <4>1, <4>2, Requeued
      <4>4. QED
        BY <2>1, <4>1, <4>3 DEF Watched, Offline
    <3>2. CASE ready # {}
      <4>. DEFINE m == Min(ready)
      <4>1. current' = scheduled[m] /\ scheduled' = SubSeq(scheduled, m + 1, Len(scheduled))
        BY <1>6, <2>4, <3>2 DEF StartScheduledFolderSync
      <4>2. m \in DOMAIN scheduled /\ CanSync(scheduled[m])
        <5>1. ready \in SUBSET Nat
          BY <1>0, LenProperties
        <5>2. m \in ready
          BY <3>2, <5>1, LeastOf
        <5>3. QED
          BY <5>2
      <4>. HIDE DEF m, ready
      <4>3. current' \in Known
        BY <1>0, <4>1, <4>2, ElementOfSeq, LenProperties
      <4>4. current' \in Folders /\ current' # None
        BY <4>3, FoldersAssumption DEF Known
      <4>5. scheduled' \in Seq(Known) /\ Distinct(scheduled')
        BY <1>0, <4>1, <4>2, Rest
      <4>6. Typed'
        BY <2>1, <4>4, <4>5 DEF Typed, Known
      <4>7. connected'
        BY <2>1, <4>2 DEF CanSync
      <4>8. QED
        BY <4>4, <4>6, <4>7 DEF Watched, Offline
    <3>3. QED
      BY <3>1, <3>2
  <2>5. QED
    BY <2>3, <2>4
<1>7. CASE Connect
  <2>. DEFINE able == {f \in Known : ~paused[f]}
  <2>1. /\ ScheduleFolders(able, able) /\ running' = running /\ connected' = TRUE
        /\ UNCHANGED <<up, forced, syncEnabled, existing, current, delayed, failing>>
    BY <1>7 DEF Connect, engineVars, folderVars
  <2>2. able \cap able \subseteq Known
    OBVIOUS
  <2>. HIDE DEF able
  <2>3. QED
    BY <1>0, <2>1, <2>2, Requested
<1>8. CASE Disconnect
  <2>1. /\ connected' = FALSE /\ scheduled' = <<>>
        /\ UNCHANGED <<up, forced, syncEnabled, current, startTimer, existing, delayed, failing>>
    BY <1>8 DEF Disconnect, folderVars
  <2>2. <<>> \in Seq(Known) /\ Distinct(<<>>)
    BY DEF Distinct
  <2>3. Typed'
    BY <1>0, <2>1, <2>2, Requeued
  <2>4. QED
    BY <2>1, <2>3 DEF Watched, Offline
<1>9. CASE OpenWizard
  <2>1. /\ syncEnabled' = FALSE
        /\ UNCHANGED <<up, connected, forced, scheduled, current, startTimer, existing, delayed, failing>>
    BY <1>9 DEF OpenWizard, folderVars
  <2>2. Typed'
    BY <1>0, <2>1, Requeued
  <2>3. QED
    BY <2>1, <2>2 DEF Watched, Offline
<1>10. CASE EnableSync
  <2>1. /\ syncEnabled' = TRUE /\ startTimer' = Soon(scheduled, current, running)
        /\ UNCHANGED <<up, connected, forced, scheduled, current, existing, delayed, failing>>
    BY <1>10 DEF EnableSync, TimerOnEnabling, folderVars
  <2>2. OneRun /\ current = None => running = {}
    BY DEF OneRun, NoRun, Starting, Running, Ended, Told, Orphaned
  <2>3. startTimer' \in BOOLEAN
    BY <1>0, <2>1 DEF Soon, AnySyncRunning
  <2>4. Typed'
    BY <1>0, <2>1, <2>3, Requeued
  <2>5. OneRun /\ current = None /\ scheduled # <<>> => startTimer'
    BY <2>1, <2>2 DEF Soon, AnySyncRunning
  <2>6. QED
    BY <2>1, <2>4, <2>5 DEF Watched, Offline
<1>11. CASE PauseAll
  <2>1. UNCHANGED <<up, connected, forced, scheduled, syncEnabled, current, startTimer, existing, delayed, failing>>
    BY <1>11 DEF PauseAll, managerVars
  <2>2. QED
    BY <1>0, <2>1, Requeued, SameQueue
<1>12. CASE ResumeAll
  <2>. DEFINE resumed == {f \in Known : paused[f]}
              able == {f \in resumed : connected}
  <2>1. /\ ScheduleFolders(resumed, able) /\ running' = running
        /\ UNCHANGED <<up, connected, forced, syncEnabled, existing, current, delayed, failing>>
    BY <1>12 DEF ResumeAll, engineVars
  <2>2. resumed \cap able \subseteq Known /\ (~connected => able = {})
    OBVIOUS
  <2>. HIDE DEF resumed, able
  <2>3. QED
    BY <1>0, <2>1, <2>2, Requested
<1>13. ASSUME NEW f \in Folders, RunEtagJob(f) PROVE Typed' /\ Offline' /\ (OneRun /\ Watched => Watched')
  <2>1. UNCHANGED <<up, connected, forced, scheduled, syncEnabled, current, startTimer, existing, delayed, failing>>
    BY <1>13 DEF RunEtagJob, managerVars
  <2>2. QED
    BY <1>0, <2>1, Requeued, SameQueue
<1>14. ASSUME NEW f \in Folders, EtagJobEnds(f) PROVE Typed' /\ Offline' /\ (OneRun /\ Watched => Watched')
  <2>1. /\ running' = running
        /\ UNCHANGED <<up, connected, forced, current, existing, delayed, failing>>
    BY <1>14 DEF EtagJobEnds, engineVars
  <2>2. OneRun /\ current = None => running = {}
    BY DEF OneRun, NoRun, Starting, Running, Ended, Told, Orphaned
  <2>3. CASE UNCHANGED <<syncEnabled, scheduled, startTimer>>
    BY <1>0, <2>1, <2>3, Requeued, SameQueue
  <2>4. CASE /\ syncEnabled' = TRUE /\ scheduled' = scheduled
             /\ startTimer' = IF syncEnabled THEN startTimer ELSE TimerOnEnabling
    <3>1. startTimer' \in BOOLEAN
      BY <1>0, <2>4 DEF TimerOnEnabling, Soon, AnySyncRunning
    <3>2. Typed'
      BY <1>0, <2>1, <2>4, <3>1, Requeued
    <3>3. OneRun /\ Watched /\ current = None /\ scheduled # <<>> => startTimer'
      BY <2>2, <2>4 DEF TimerOnEnabling, Soon, AnySyncRunning, Watched
    <3>4. QED
      BY <2>1, <2>4, <3>2, <3>3 DEF Watched, Offline
  <2>5. CASE syncEnabled' = TRUE /\ f \in Known /\ CanSync(f) /\ ScheduleFolders({f}, {f})
    <3>1. /\ scheduled' \in Seq(Known) /\ Distinct(scheduled') /\ startTimer' \in BOOLEAN
          /\ {f} \cap ToSet(scheduled') # {}
      <4>1. ScheduleFolders({f}, {f}) /\ {f} \cap {f} \subseteq Known
        BY <2>5
      <4>2. scheduled' \in Seq(Known) /\ Distinct(scheduled') /\ startTimer' \in BOOLEAN
        BY <4>1, Scheduling
      <4>3. QED
        BY <2>5, <4>2, Asking
    <3>2. startTimer' = Soon(scheduled', current, running')
      BY <2>5, <3>1 DEF ScheduleFolders
    <3>3. Typed'
      BY <1>0, <2>1, <2>5, <3>1, Requeued
    <3>4. connected
      BY <2>5 DEF CanSync
    <3>5. OneRun /\ current = None /\ scheduled' # <<>> => startTimer'
      BY <2>1, <2>2, <3>2 DEF Soon, AnySyncRunning
    <3>6. QED
      BY <2>1, <2>5, <3>3, <3>4, <3>5 DEF Watched, Offline
  <2>6. QED
    BY <1>14, <2>3, <2>4, <2>5 DEF EtagJobEnds
<1>15. QED
  BY <1>1, <1>2, <1>3, <1>4, <1>5, <1>6, <1>7, <1>8, <1>9, <1>10, <1>11, <1>12, <1>13, <1>14

LEMMA RunQueue ==
  ASSUME Types, UnknownPaused, Typed, Offline,
         \/ \E f \in Folders :
              \/ EngineStart(f) \/ DiscoveryFails(f) \/ DeleteDiscovery(f) \/ DiscoveryFinishes(f)
              \/ PropagatorEnds(f) \/ PropagationFinished(f) \/ SyncFinished(f) \/ EmitFinishedDelayed(f)
         \/ \E q \in questions : AnswerKeep(q) \/ AnswerRemove(q)
  PROVE  Typed' /\ Offline' /\ (OneRun /\ Watched => Watched')
<1>0. /\ startTimer \in BOOLEAN /\ scheduled \in Seq(Known) /\ Distinct(scheduled)
      /\ connected \in BOOLEAN /\ syncEnabled \in BOOLEAN /\ forced \in 0 .. MaxForced
      /\ delayed \in [Folders -> 0 .. MaxDelayed] /\ failing \in [Folders -> 0 .. RetryLimit]
      /\ existing \in [Folders -> {"known", "leaving", "gone"}] /\ up \in BOOLEAN
      /\ current \in Folders \cup {None}
  BY DEF Typed
<1>1. ASSUME UNCHANGED <<connected, forced, scheduled, syncEnabled, current, startTimer>>,
             UNCHANGED <<existing, delayed, failing>>, up' \in BOOLEAN
      PROVE  Typed' /\ Offline' /\ (OneRun /\ Watched => Watched')
  <2>1. Typed'
    BY <1>0, <1>1 DEF Typed, Known
  <2>2. QED
    BY <1>1, <2>1, SameQueue
<1>2. ASSUME NEW f \in Folders,
             \/ EngineStart(f) \/ DiscoveryFails(f) \/ DeleteDiscovery(f) \/ DiscoveryFinishes(f)
             \/ PropagatorEnds(f)
      PROVE  Typed' /\ Offline' /\ (OneRun /\ Watched => Watched')
  BY <1>0, <1>1, <1>2
    DEF EngineStart, DiscoveryFails, DeleteDiscovery, DiscoveryFinishes, PropagatorEnds,
        managerVars, folderVars
<1>3. ASSUME NEW f \in Folders, PropagationFinished(f) PROVE Typed' /\ Offline' /\ (OneRun /\ Watched => Watched')
  <2>1. up' \in BOOLEAN
    BY <1>0, <1>3 DEF PropagationFinished
  <2>2. QED
    BY <1>1, <1>3, <2>1 DEF PropagationFinished, managerVars, folderVars
<1>4. ASSUME NEW f \in Folders, SyncFinished(f) PROVE Typed' /\ Offline' /\ (OneRun /\ Watched => Watched')
  <2>1. /\ delayed[f] < MaxDelayed /\ delayed' = [delayed EXCEPT ![f] = delayed[f] + 1]
        /\ UNCHANGED <<up, connected, forced, scheduled, syncEnabled, current, startTimer, existing>>
    BY <1>4 DEF SyncFinished, managerVars
  <2>2. PICK errors \in BOOLEAN, problems \in BOOLEAN :
          failing' = [failing EXCEPT ![f] =
            IF errors \/ (~problems /\ paused[f]) THEN Min({failing[f] + 1, RetryLimit}) ELSE 0]
    BY <1>4 DEF SyncFinished
  <2>3. MaxDelayed \in Nat /\ RetryLimit \in Nat
    BY FoldersAssumption
  <2>4. Min({failing[f] + 1, RetryLimit}) \in 0 .. RetryLimit
    <3>. DEFINE S == {failing[f] + 1, RetryLimit}
    <3>1. failing[f] \in 0 .. RetryLimit
      BY <1>0
    <3>2. S \in SUBSET Nat /\ S # {}
      BY <2>3, <3>1
    <3>. HIDE DEF S
    <3>3. Min(S) \in S
      BY <3>2, LeastOf
    <3>4. Min(S) = failing[f] + 1 \/ Min(S) = RetryLimit
      BY <3>3 DEF S
    <3>5. CASE failing[f] = RetryLimit
      <4>1. Min(S) = RetryLimit
        <5>1. \A y \in S : Min(S) <= y
          BY <3>2, LeastOf
        <5>2. Min(S) <= RetryLimit
          BY <5>1 DEF S
        <5>3. QED
          BY <2>3, <3>4, <3>5, <5>2
      <4>2. QED
        BY <2>3, <4>1 DEF S
    <3>6. CASE failing[f] # RetryLimit
      BY <2>3, <3>1, <3>4, <3>6 DEF S
    <3>7. QED
      BY <3>5, <3>6
  <2>5. failing' \in [Folders -> 0 .. RetryLimit]
    BY <1>0, <2>2, <2>3, <2>4
  <2>6. delayed' \in [Folders -> 0 .. MaxDelayed]
    BY <1>0, <2>1, <2>3
  <2>7. Typed'
    BY <1>0, <2>1, <2>5, <2>6 DEF Typed, Known
  <2>8. QED
    BY <2>1, <2>7, SameQueue
<1>5. ASSUME NEW f \in Folders, EmitFinishedDelayed(f) PROVE Typed' /\ Offline' /\ (OneRun /\ Watched => Watched')
  <2>1. /\ delayed[f] > 0 /\ current' = ClearedBy(f)
        /\ startTimer' = Soon(scheduled, current', running)
        /\ UNCHANGED <<up, connected, forced, syncEnabled, scheduled>>
    BY <1>5 DEF EmitFinishedDelayed
  <2>2. \/ delayed' = [delayed EXCEPT ![f] = delayed[f] - 1] /\ UNCHANGED <<existing, failing>>
        \/ /\ existing[f] = "leaving" /\ existing' = [existing EXCEPT ![f] = "gone"]
           /\ delayed' = [delayed EXCEPT ![f] = 0] /\ failing' = [failing EXCEPT ![f] = 0]
    BY <1>5 DEF EmitFinishedDelayed, Delete
  <2>3. MaxDelayed \in Nat /\ RetryLimit \in Nat
    BY FoldersAssumption
  <2>4. delayed' \in [Folders -> 0 .. MaxDelayed]
    <3>1. delayed[f] - 1 \in 0 .. MaxDelayed /\ 0 \in 0 .. MaxDelayed
      BY <1>0, <2>1, <2>3
    <3>2. QED
      BY <1>0, <2>2, <3>1
  <2>5. failing' \in [Folders -> 0 .. RetryLimit]
    BY <1>0, <2>2, <2>3
  <2>6. existing' \in [Folders -> {"known", "leaving", "gone"}] /\ Known' = Known
    BY <1>0, <2>2 DEF Known
  <2>7. startTimer' \in BOOLEAN /\ current' \in Folders \cup {None}
    BY <1>0, <2>1 DEF Soon, AnySyncRunning, ClearedBy
  <2>8. Typed'
    BY <1>0, <2>1, <2>4, <2>5, <2>6, <2>7 DEF Typed
  <2>9. OneRun => running = {}
    <3>1. f # None
      BY FoldersAssumption
    <3>2. delayed[f] # 0
      BY <2>1
    <3>3. ~DelayedFor(None)
      BY <3>1, <3>2 DEF DelayedFor
    <3>4. QED
      BY <3>3 DEF OneRun, NoRun, Starting, Running, Ended, Told, Orphaned
  <2>10. OneRun /\ current' = None /\ scheduled # <<>> => startTimer'
    BY <2>1, <2>9 DEF Soon, AnySyncRunning
  <2>11. QED
    BY <2>1, <2>8, <2>10 DEF Watched, Offline
<1>6. ASSUME NEW q \in questions, AnswerKeep(q) \/ AnswerRemove(q)
      PROVE  Typed' /\ Offline' /\ (OneRun /\ Watched => Watched')
  <2>. DEFINE f == q.folder
  <2>1. f \in Folders /\ (f \notin Known => paused[f] /\ q.oldPaused)
    BY DEF Types, Question, UnknownPaused, Known
  <2>2. CASE UNCHANGED <<connected, forced, scheduled, syncEnabled, current, startTimer>>
             /\ UNCHANGED <<existing, delayed, failing>> /\ up' \in BOOLEAN
    BY <1>1, <2>2
  <2>3. CASE /\ \E asked \in BOOLEAN : RestorePaused(q, asked)
             /\ UNCHANGED <<up, connected, forced, syncEnabled, current, existing, delayed, failing>>
             /\ running' \subseteq running
    <3>1. PICK asked, able : /\ ScheduleFolders(asked, able) /\ asked \subseteq {f} /\ able \subseteq {f}
                             /\ ~connected => able = {}
                             /\ paused[f] /\ q.oldPaused => able = {}
      BY <2>3 DEF RestorePaused
    <3>2. asked \cap able \subseteq Known
      BY <2>1, <3>1
    <3>. HIDE DEF f
    <3>3. QED
      BY <1>0, <2>3, <3>1, <3>2, Requested
  <2>4. QED
    BY <1>6, <2>2, <2>3 DEF AnswerKeep, AnswerRemove, Finalize
<1>7. QED
  BY <1>2, <1>3, <1>4, <1>5, <1>6

-----------------------------------------------------------------------------
(* What holds whatever the user does. *)

\* Whatever ends or is deleted, and whatever is asked, the engines' state stays of its type.
LEMMA EndedTypes ==
  ASSUME Types, NEW f \in Folders, NEW p, Finalize(f, p)
  PROVE  /\ running' \subseteq Folders
         /\ discovery' \in [Folders -> {"none", "active", "over", "doomed"}]
         /\ propagator' \in [Folders -> {"none", "working", "over"}]
BY DEF Finalize, Types

LEMMA TerminatedTypes ==
  ASSUME Types, NEW S, TerminateSyncs(S), paused' \in [Folders -> BOOLEAN]
  PROVE  Types'
<1>1. StaleQuestions(Aborted(S)) \subseteq Question
  BY Staled
<1>2. QED
  BY <1>1 DEF TerminateSyncs, Types

LEMMA DeletedTypes ==
  ASSUME Types, NEW f \in Folders, Delete(f), paused' \in [Folders -> BOOLEAN]
  PROVE  Types'
BY DEF Delete, Types

LEMMA SameTypes ==
  ASSUME Types, UNCHANGED <<running, discovery, propagator, questions>>, paused' \in [Folders -> BOOLEAN]
  PROVE  Types'
BY DEF Types

LEMMA TypesNext == ASSUME Types, Next PROVE Types'
<1>0. paused \in [Folders -> BOOLEAN]
  BY DEF Types
<1>1. ASSUME NEW f \in Folders, Schedule(f) \/ ScheduleByTime(f) \/ RunEtagJob(f) \/ EtagJobEnds(f)
      PROVE  Types'
  BY <1>0, <1>1, SameTypes DEF Schedule, ScheduleByTime, RunEtagJob, EtagJobEnds, engineVars, folderVars
<1>2. ASSUME NEW f \in Folders, ForceSync(f) PROVE Types'
  <2>1. TerminateSyncs(running \cap Known) /\ paused' = paused
    BY <1>2 DEF ForceSync, folderVars
  <2>2. QED
    BY <1>0, <2>1, TerminatedTypes
<1>3. ASSUME NEW f \in Folders, RemoveFolder(f) PROVE Types'
  <2>1. paused' = [paused EXCEPT ![f] = TRUE]
    BY <1>3 DEF RemoveFolder
  <2>2. paused' \in [Folders -> BOOLEAN]
    BY <1>0, <2>1
  <2>3. CASE TerminateSyncs({f})
    BY <2>2, <2>3, TerminatedTypes
  <2>4. CASE Delete(f)
    BY <2>2, <2>4, DeletedTypes
  <2>5. QED
    BY <1>3, <2>3, <2>4 DEF RemoveFolder
<1>4. ASSUME NEW f \in Folders, TogglePause(f) PROVE Types'
  <2>1. /\ paused' = [paused EXCEPT ![f] = ~paused[f]]
        /\ TerminateSyncs({f}) \/ UNCHANGED <<running, discovery, propagator, questions>>
    BY <1>4 DEF TogglePause, engineVars
  <2>2. paused' \in [Folders -> BOOLEAN]
    BY <1>0, <2>1
  <2>3. QED
    BY <2>1, <2>2, TerminatedTypes, SameTypes
<1>5. ASSUME NEW f \in Folders, EngineStart(f) PROVE Types'
  <2>1. /\ UNCHANGED <<paused, propagator, questions>>
        /\ \/ UNCHANGED <<running, discovery>>
           \/ running' = running \cup {f} /\ discovery' = [discovery EXCEPT ![f] = "active"]
    BY <1>5 DEF EngineStart, folderVars
  <2>2. QED
    BY <2>1 DEF Types
<1>6. ASSUME NEW f \in Folders, DiscoveryFails(f) PROVE Types'
  <2>1. Finalize(f, posted) /\ questions' = StaleQuestions({f}) /\ paused' = paused
    BY <1>6 DEF DiscoveryFails, folderVars
  <2>2. QED
    BY <1>0, <2>1, EndedTypes, Staled DEF Types
<1>7. ASSUME NEW f \in Folders, DeleteDiscovery(f) PROVE Types'
  <2>1. /\ UNCHANGED <<running, propagator, questions, paused>>
        /\ discovery' = [discovery EXCEPT ![f] = IF discovery[f] = "doomed" THEN "none" ELSE discovery[f]]
    BY <1>7 DEF DeleteDiscovery, folderVars
  <2>2. QED
    BY <2>1 DEF Types
<1>8. ASSUME NEW f \in Folders, DiscoveryFinishes(f) PROVE Types'
  <2>. DEFINE n == [folder |-> f, live |-> TRUE, oldPaused |-> paused[f]]
  <2>1. n \in Question
    BY <1>0 DEF Question
  <2>2. /\ running' = running /\ discovery' = [discovery EXCEPT ![f] = "over"]
        /\ \/ propagator' = [propagator EXCEPT ![f] = "working"] /\ UNCHANGED <<paused, questions>>
           \/ /\ questions' = questions \cup {n} /\ paused' = [paused EXCEPT ![f] = TRUE]
              /\ propagator' = propagator
    BY <1>8 DEF DiscoveryFinishes, WhileAsking
  <2>. HIDE DEF n
  <2>3. QED
    BY <2>1, <2>2 DEF Types
<1>9. ASSUME NEW f \in Folders, PropagatorEnds(f) PROVE Types'
  <2>1. /\ UNCHANGED <<running, discovery, questions, paused>>
        /\ propagator' = [propagator EXCEPT ![f] = "over"]
    BY <1>9 DEF PropagatorEnds, folderVars
  <2>2. QED
    BY <2>1 DEF Types
<1>10. ASSUME NEW f \in Folders, PropagationFinished(f) PROVE Types'
  <2>1. /\ paused' = paused
        /\ \/ UNCHANGED <<running, discovery, propagator, questions>>
           \/ Finalize(f, Tail(posted)) /\ questions' = StaleQuestions({f})
    BY <1>10 DEF PropagationFinished, engineVars, folderVars
  <2>2. QED
    BY <1>0, <2>1, EndedTypes, SameTypes, Staled DEF Types
<1>11. ASSUME NEW f \in Folders, SyncFinished(f) PROVE Types'
  BY <1>0, <1>11, SameTypes DEF SyncFinished
<1>12. ASSUME NEW f \in Folders, EmitFinishedDelayed(f) PROVE Types'
  BY <1>0, <1>12, SameTypes, DeletedTypes DEF EmitFinishedDelayed
<1>13. CASE StartScheduledFolderSync \/ Connect \/ OpenWizard \/ EnableSync
  BY <1>0, <1>13, SameTypes
    DEF StartScheduledFolderSync, Connect, OpenWizard, EnableSync, engineVars, folderVars
<1>14. CASE Disconnect
  <2>1. TerminateSyncs(running \cap Known) /\ paused' = paused
    BY <1>14 DEF Disconnect, folderVars
  <2>2. QED
    BY <1>0, <2>1, TerminatedTypes
<1>15. CASE PauseAll \/ ResumeAll
  <2>1. /\ \/ paused' = [f \in Folders |-> paused[f] \/ f \in Known]
           \/ paused' = [f \in Folders |-> paused[f] /\ f \notin Known]
        /\ \/ TerminateSyncs(running \cap Known)
           \/ UNCHANGED <<running, discovery, propagator, questions>>
    BY <1>15 DEF PauseAll, ResumeAll, engineVars
  <2>2. paused' \in [Folders -> BOOLEAN]
    BY <1>0, <2>1
  <2>3. QED
    BY <2>1, <2>2, TerminatedTypes, SameTypes
<1>16. ASSUME NEW q \in questions, AnswerKeep(q) PROVE Types'
  <2>1. q \in Question /\ q.folder \in Folders /\ q.oldPaused \in BOOLEAN
    BY DEF Types, Question
  <2>2. /\ Finalize(q.folder, posted) /\ paused' = [paused EXCEPT ![q.folder] = q.oldPaused]
        /\ questions' = {IF r.folder = q.folder THEN [r EXCEPT !.live = FALSE] ELSE r : r \in questions \ {q}}
    BY <1>16 DEF AnswerKeep, RestorePaused
  <2>3. questions' \subseteq Question
    BY <2>2 DEF Types, Question
  <2>4. paused' \in [Folders -> BOOLEAN]
    BY <1>0, <2>1, <2>2
  <2>5. QED
    BY <2>1, <2>2, <2>3, <2>4, EndedTypes DEF Types
<1>17. ASSUME NEW q \in questions, AnswerRemove(q) PROVE Types'
  <2>1. q.folder \in Folders /\ q.oldPaused \in BOOLEAN
    BY DEF Types, Question
  <2>2. /\ questions' = questions \ {q} /\ UNCHANGED <<running, discovery>>
        /\ \/ UNCHANGED <<propagator, paused>>
           \/ /\ propagator' = [propagator EXCEPT ![q.folder] = "working"]
              /\ paused' = [paused EXCEPT ![q.folder] = q.oldPaused]
    BY <1>17 DEF AnswerRemove, RestorePaused
  <2>3. QED
    BY <2>1, <2>2 DEF Types
<1>18. CASE Stop \/ Restart
  BY <1>0, <1>18 DEF Stop, Restart, MemoryLost, Types
<1>19. QED
  BY <1>1, <1>2, <1>3, <1>4, <1>5, <1>6, <1>7, <1>8, <1>9, <1>10, <1>11, <1>12, <1>13, <1>14, <1>15,
     <1>16, <1>17, <1>18 DEF Next

\* A folder may only be removed when no question is open, and nobody resumes it or asks about it
\* in any other state.
LEMMA UnknownPausedNext == ASSUME Types, Typed, UnknownPaused, Next PROVE UnknownPaused'
<1>0. /\ paused \in [Folders -> BOOLEAN] /\ questions \subseteq Question
      /\ existing \in [Folders -> {"known", "leaving", "gone"}]
  BY DEF Types, Typed
<1>1. ASSUME NEW S, questions' = StaleQuestions(S), paused' = paused, existing' = existing
      PROVE  UnknownPaused'
  <2>1. \A q \in questions' : \E r \in questions : q.folder = r.folder /\ q.oldPaused = r.oldPaused
    BY <1>0, <1>1 DEF StaleQuestions, Question
  <2>2. QED
    BY <1>1, <2>1 DEF UnknownPaused
<1>2. ASSUME UNCHANGED <<questions, paused, existing>> PROVE UnknownPaused'
  BY <1>2 DEF UnknownPaused
<1>3. ASSUME NEW f \in Folders, RemoveFolder(f) PROVE UnknownPaused'
  <2>1. /\ questions = {} /\ paused' = [paused EXCEPT ![f] = TRUE]
        /\ \E e \in {"leaving", "gone"} : existing' = [existing EXCEPT ![f] = e]
        /\ questions' = StaleQuestions(Aborted({f})) \/ questions' = {q \in questions : q.folder # f}
    <3>0. SettingsReachable /\ paused' = [paused EXCEPT ![f] = TRUE]
      BY <1>3 DEF RemoveFolder
    <3>1. questions = {} /\ paused' = [paused EXCEPT ![f] = TRUE]
      BY <3>0 DEF SettingsReachable
    <3>2. CASE TerminateSyncs({f}) /\ existing' = [existing EXCEPT ![f] = "leaving"]
      BY <3>1, <3>2 DEF TerminateSyncs
    <3>3. CASE Delete(f)
      BY <3>1, <3>3 DEF Delete
    <3>4. QED
      BY <1>3, <3>2, <3>3 DEF RemoveFolder
  <2>2. questions' = {}
    BY <2>1 DEF StaleQuestions
  <2>3. QED
    BY <1>0, <2>1, <2>2 DEF UnknownPaused
<1>4. ASSUME NEW f \in Folders, TogglePause(f) PROVE UnknownPaused'
  <2>1. /\ questions = {} /\ f \in Known /\ paused' = [paused EXCEPT ![f] = ~paused[f]]
        /\ existing' = existing
        /\ questions' = StaleQuestions(Aborted({f})) \/ questions' = questions
    BY <1>4 DEF TogglePause, SettingsReachable, TerminateSyncs, engineVars
  <2>2. questions' = {}
    BY <2>1 DEF StaleQuestions
  <2>3. QED
    BY <1>0, <2>1, <2>2 DEF UnknownPaused, Known
<1>5. CASE PauseAll
  <2>1. /\ paused' = [f \in Folders |-> paused[f] \/ f \in Known] /\ existing' = existing
        /\ questions' = StaleQuestions(Aborted(running \cap Known))
    BY <1>5 DEF PauseAll, TerminateSyncs
  <2>2. \A q \in questions' : \E r \in questions : q.folder = r.folder /\ q.oldPaused = r.oldPaused
    BY <1>0, <2>1 DEF StaleQuestions, Question
  <2>3. ASSUME NEW f \in Folders, paused[f] PROVE paused'[f]
    <3>1. paused'[f] = (paused[f] \/ f \in Known)
      BY <2>1
    <3>2. QED
      BY <2>3, <3>1
  <2>4. existing' = existing
    BY <2>1
  <2>5. QED
    BY <2>2, <2>3, <2>4 DEF UnknownPaused
<1>6. CASE ResumeAll
  BY <1>6 DEF ResumeAll, UnknownPaused, Known, engineVars
<1>7. ASSUME NEW f \in Folders, DiscoveryFinishes(f) PROVE UnknownPaused'
  <2>. DEFINE n == [folder |-> f, live |-> TRUE, oldPaused |-> paused[f]]
  <2>1. /\ existing' = existing
        /\ \/ UNCHANGED <<paused, questions>>
           \/ questions' = questions \cup {n} /\ paused' = [paused EXCEPT ![f] = TRUE]
    BY <1>7 DEF DiscoveryFinishes
  <2>2. n.folder = f /\ n.oldPaused = paused[f]
    OBVIOUS
  <2>. HIDE DEF n
  <2>3. QED
    BY <1>0, <2>1, <2>2 DEF UnknownPaused
<1>8. ASSUME NEW q \in questions, AnswerKeep(q) \/ AnswerRemove(q) PROVE UnknownPaused'
  <2>1. /\ existing' = existing
        /\ paused' = paused \/ paused' = [paused EXCEPT ![q.folder] = q.oldPaused]
        /\ \/ questions' = questions \ {q}
           \/ questions' = {IF r.folder = q.folder THEN [r EXCEPT !.live = FALSE] ELSE r : r \in questions \ {q}}
    BY <1>8 DEF AnswerKeep, AnswerRemove, RestorePaused
  <2>2. \A p \in questions' : \E r \in questions : p.folder = r.folder /\ p.oldPaused = r.oldPaused
    BY <1>0, <2>1 DEF Question
  <2>3. QED
    BY <1>0, <2>1, <2>2 DEF UnknownPaused
<1>9. ASSUME NEW f \in Folders, EmitFinishedDelayed(f) PROVE UnknownPaused'
  <2>1. /\ paused' = paused /\ questions' \subseteq questions
        /\ \/ existing' = existing
           \/ existing[f] = "leaving" /\ existing' = [existing EXCEPT ![f] = "gone"]
    BY <1>9 DEF EmitFinishedDelayed, Delete
  <2>2. QED
    BY <1>0, <2>1 DEF UnknownPaused
<1>10. CASE Stop \/ Restart
  <2>1. /\ paused' = paused /\ questions' = {}
        /\ \/ existing' = existing
           \/ existing' = [f \in Folders |-> IF f \in Known THEN "known" ELSE "gone"]
    BY <1>10 DEF Stop, Restart, MemoryLost
  <2>2. QED
    BY <2>1 DEF UnknownPaused, Known
<1>11. ASSUME NEW f \in Folders,
              \/ Schedule(f) \/ ScheduleByTime(f) \/ RunEtagJob(f) \/ EtagJobEnds(f)
              \/ EngineStart(f) \/ DeleteDiscovery(f) \/ PropagatorEnds(f) \/ SyncFinished(f)
       PROVE  UnknownPaused'
  BY <1>2, <1>11
    DEF Schedule, ScheduleByTime, RunEtagJob, EtagJobEnds, EngineStart, DeleteDiscovery, PropagatorEnds, SyncFinished,
        engineVars, folderVars
<1>12. ASSUME NEW f \in Folders, ForceSync(f) \/ DiscoveryFails(f) \/ PropagationFinished(f)
       PROVE  UnknownPaused'
  BY <1>1, <1>2, <1>12
    DEF ForceSync, DiscoveryFails, PropagationFinished, TerminateSyncs, engineVars, folderVars
<1>13. CASE StartScheduledFolderSync \/ Connect \/ OpenWizard \/ EnableSync
  BY <1>2, <1>13
    DEF StartScheduledFolderSync, Connect, OpenWizard, EnableSync, engineVars, folderVars
<1>14. CASE Disconnect
  BY <1>1, <1>14 DEF Disconnect, TerminateSyncs, folderVars
<1>15. QED
  BY <1>3, <1>4, <1>5, <1>6, <1>7, <1>8, <1>9, <1>10, <1>11, <1>12, <1>13, <1>14 DEF Next

\* Some calls are left of those that are posted, in their order.
LEMMA SomeLeft ==
  ASSUME NEW f, posted \in Seq(Calls)
  PROVE  WithoutCallsOf(f) \in Seq(Calls)
<1>. DEFINE n == Len(posted)
            kept == {i \in DOMAIN posted : posted[i].folder # f}
            upto(i) == {j \in kept : j <= i}
            nth(k) == CHOOSE i \in kept : Cardinality(upto(i)) = k
<1>1. n \in Nat /\ DOMAIN posted = 1 .. n /\ posted \in [1 .. n -> Calls]
  BY LenProperties
<1>2. WithoutCallsOf(f) = [k \in 1 .. Cardinality(kept) |-> posted[nth(k)]]
  BY DEF WithoutCallsOf
<1>3. kept \subseteq 1 .. n
  BY <1>1
<1>. HIDE DEF kept
<1>4. IsFiniteSet(1 .. n)
  BY <1>1, FS_Interval
<1>5. IsFiniteSet(kept) /\ Cardinality(kept) \in Nat
  BY <1>3, <1>4, FS_Subset, FS_CardinalityType
<1>6. \A i : IsFiniteSet(upto(i)) /\ Cardinality(upto(i)) \in Nat
  <2>. SUFFICES ASSUME NEW i PROVE IsFiniteSet(upto(i)) /\ Cardinality(upto(i)) \in Nat
    OBVIOUS
  <2>1. upto(i) \subseteq kept
    OBVIOUS
  <2>2. QED
    BY <1>5, <2>1, FS_Subset, FS_CardinalityType
<1>7. ASSUME NEW k \in 1 .. Cardinality(kept) PROVE nth(k) \in kept
  <2>. DEFINE S == {i \in 1 .. n : Cardinality(upto(i)) >= k}
              m == Min(S)
  <2>1. k \in Nat /\ k >= 1 /\ k <= Cardinality(kept)
    BY <1>5
  <2>2. n \in S
    <3>1. kept # {}
      BY <2>1, FS_EmptySet
    <3>2. PICK j \in 1 .. n : TRUE
      BY <1>3, <3>1
    <3>3. n \in 1 .. n
      BY <1>1, <3>2
    <3>4. \A i \in kept : i <= n
      BY <1>1, <1>3
    <3>5. upto(n) = kept
      BY <3>4
    <3>6. QED
      BY <1>5, <2>1, <3>3, <3>5
  <2>3. m \in S /\ \A y \in S : m <= y
    <3>1. S \in SUBSET Nat
      OBVIOUS
    <3>. HIDE DEF S
    <3>2. QED
      BY <2>2, <3>1, LeastOf
  <2>. HIDE DEF m
  <2>4. m \in 1 .. n /\ Cardinality(upto(m)) >= k
    BY <2>3
  <2>5. Cardinality(upto(m - 1)) < k
    <3>1. CASE m = 1
      <4>1. \A j \in kept : ~(j <= m - 1)
        BY <1>1, <1>3, <3>1
      <4>2. upto(m - 1) = {}
        BY <4>1
      <4>3. Cardinality(upto(m - 1)) = 0
        BY <4>2, FS_EmptySet
      <4>. HIDE DEF upto, S
      <4>4. QED
        BY <2>1, <4>3
    <3>2. CASE m # 1
      <4>1. m - 1 \in 1 .. n /\ ~(m <= m - 1)
        BY <1>1, <2>4, <3>2
      <4>2. m - 1 \notin S
        BY <2>3, <4>1
      <4>3. ~(Cardinality(upto(m - 1)) >= k)
        BY <4>1, <4>2
      <4>4. Cardinality(upto(m - 1)) \in Nat
        BY <1>6
      <4>. HIDE DEF upto, S
      <4>5. QED
        BY <2>1, <4>3, <4>4
    <3>3. QED
      BY <3>1, <3>2
  <2>6. m \in kept /\ upto(m) = upto(m - 1) \cup {m} /\ m \notin upto(m - 1)
    <3>1. \A j \in kept : j <= m <=> j <= m - 1 \/ j = m
      BY <1>1, <1>3, <2>4
    <3>2. ~(m <= m - 1) /\ m <= m
      BY <2>4
    <3>3. m \notin kept => upto(m) = upto(m - 1)
      BY <3>1
    <3>4. upto(m) # upto(m - 1)
      <4>1. Cardinality(upto(m - 1)) \in Nat
        BY <1>6
      <4>. HIDE DEF upto, S
      <4>2. QED
        BY <2>1, <2>4, <2>5, <4>1
    <3>5. m \in kept
      BY <3>3, <3>4
    <3>6. QED
      BY <3>1, <3>2, <3>5
  <2>7. Cardinality(upto(m)) = Cardinality(upto(m - 1)) + 1
    <3>. DEFINE U == upto(m - 1)
    <3>1. IsFiniteSet(U) /\ upto(m) = U \cup {m} /\ m \notin U
      BY <1>6, <2>6
    <3>. HIDE DEF U
    <3>2. Cardinality(U \cup {m}) = Cardinality(U) + 1
      BY <3>1, FS_AddElement
    <3>3. QED
      BY <3>1, <3>2 DEF U
  <2>8. Cardinality(upto(m)) = k
    <3>1. Cardinality(upto(m - 1)) \in Nat
      BY <1>6
    <3>. HIDE DEF upto, S
    <3>2. QED
      BY <2>1, <2>4, <2>5, <2>7, <3>1
  <2>9. QED
    BY <2>6, <2>8
<1>. HIDE DEF nth
<1>8. [k \in 1 .. Cardinality(kept) |-> posted[nth(k)]] \in [1 .. Cardinality(kept) -> Calls]
  BY <1>1, <1>3, <1>7
<1>9. QED
  BY <1>2, <1>5, <1>8, SeqDef

LEMMA TerminatedPosted ==
  ASSUME Types, posted \in Seq(Calls), NEW S, TerminateSyncs(S)
  PROVE  posted' \in Seq(Calls)
<1>. DEFINE A == Aborted(S)
            E == {Call("syncFinished", f) : f \in A}
<1>1. A \subseteq Folders /\ IsFiniteSet(A)
  BY FoldersAssumption, FS_Subset DEF Aborted, Types
<1>2. posted' = posted \o SetToSeq(E)
  BY DEF TerminateSyncs
<1>. HIDE DEF A
<1>3. IsFiniteSet(E)
  <2>. DEFINE g == [f \in A |-> Call("syncFinished", f)]
  <2>1. g \in Surjection(A, E)
    BY DEF Surjection
  <2>2. QED
    BY <1>1, <2>1, FS_Surjection DEF ExistsSurjection
<1>4. E \subseteq Calls
  BY <1>1 DEF Call, Calls
<1>. HIDE DEF E
<1>5. SetToSeq(E) \in Seq(Calls)
  BY <1>3, <1>4, ListOf, SeqMonotonic
<1>6. QED
  BY <1>2, <1>5, ConcatProperties

LEMMA EndedPosted ==
  ASSUME NEW f \in Folders, NEW p \in Seq(Calls), Finalize(f, p)
  PROVE  posted' \in Seq(Calls)
<1>. DEFINE d == IF discovery[f] = "active" THEN <<Call("deleteDiscovery", f)>> ELSE <<>>
            e == <<Call("syncFinished", f)>>
<1>1. posted' = p \o d \o e
  BY DEF Finalize
<1>2. Call("deleteDiscovery", f) \in Calls /\ Call("syncFinished", f) \in Calls
  BY DEF Call, Calls
<1>3. \A x \in Calls : <<x>> \in Seq(Calls)
  OBVIOUS
<1>4. d \in Seq(Calls) /\ e \in Seq(Calls)
  BY <1>2, <1>3
<1>. HIDE DEF d, e
<1>5. p \o d \in Seq(Calls)
  BY <1>4, ConcatProperties
<1>6. QED
  BY <1>1, <1>4, <1>5, ConcatProperties

LEMMA PostedNext == ASSUME Types, Typed, posted \in Seq(Calls), Next PROVE posted' \in Seq(Calls)
<1>0. \A name \in {"startSync", "deleteDiscovery", "propagationFinished", "syncFinished"}, f \in Folders :
        Call(name, f) \in Calls
  BY DEF Call, Calls
<1>1. \A x \in Calls : Append(posted, x) \in Seq(Calls)
  BY AppendProperties
<1>2. posted # <<>> => Tail(posted) \in Seq(Calls)
  BY HeadTailProperties
<1>3. ASSUME posted # <<>>, NEW x \in Calls PROVE Append(Tail(posted), x) \in Seq(Calls)
  BY <1>2, <1>3, AppendProperties
<1>4. <<>> \in Seq(Calls)
  OBVIOUS
<1>5. ASSUME NEW f \in Folders, ForceSync(f) \/ TogglePause(f) PROVE posted' \in Seq(Calls)
  <2>1. (\E S : TerminateSyncs(S)) \/ posted' = posted
    BY <1>5 DEF ForceSync, TogglePause, engineVars
  <2>2. QED
    BY <2>1, TerminatedPosted
<1>6. ASSUME NEW f \in Folders, RemoveFolder(f) PROVE posted' \in Seq(Calls)
  <2>1. CASE TerminateSyncs({f})
    BY <2>1, TerminatedPosted
  <2>2. CASE Delete(f)
    BY <2>2, SomeLeft DEF Delete
  <2>3. QED
    BY <1>6, <2>1, <2>2 DEF RemoveFolder
<1>7. CASE Disconnect \/ PauseAll
  <2>1. \E S : TerminateSyncs(S)
    BY <1>7 DEF Disconnect, PauseAll
  <2>2. QED
    BY <2>1, TerminatedPosted
<1>8. ASSUME NEW f \in Folders, EngineStart(f) PROVE posted' \in Seq(Calls)
  <2>1. /\ posted # <<>>
        /\ posted' = Tail(posted) \/ posted' = Append(Tail(posted), Call("syncFinished", f))
    BY <1>8 DEF EngineStart, IsNext
  <2>2. QED
    BY <1>0, <1>2, <1>3, <2>1
<1>9. ASSUME NEW f \in Folders, DiscoveryFails(f) PROVE posted' \in Seq(Calls)
  BY <1>9, EndedPosted DEF DiscoveryFails
<1>10. ASSUME NEW f \in Folders, DeleteDiscovery(f) \/ SyncFinished(f) PROVE posted' \in Seq(Calls)
  BY <1>2, <1>10 DEF DeleteDiscovery, SyncFinished, IsNext
<1>11. ASSUME NEW f \in Folders, PropagatorEnds(f) PROVE posted' \in Seq(Calls)
  BY <1>0, <1>1, <1>11 DEF PropagatorEnds
<1>12. ASSUME NEW f \in Folders, PropagationFinished(f) PROVE posted' \in Seq(Calls)
  <2>1. posted # <<>> /\ (Finalize(f, Tail(posted)) \/ posted' = posted)
    BY <1>12 DEF PropagationFinished, IsNext, engineVars
  <2>2. QED
    BY <1>2, <2>1, EndedPosted
<1>13. ASSUME NEW f \in Folders, EmitFinishedDelayed(f) PROVE posted' \in Seq(Calls)
  <2>1. CASE Delete(f)
    BY <2>1, SomeLeft DEF Delete
  <2>2. QED
    BY <1>13, <2>1 DEF EmitFinishedDelayed
<1>14. CASE StartScheduledFolderSync
  <2>. DEFINE f == scheduled[Min({i \in DOMAIN scheduled : CanSync(scheduled[i])})]
  <2>1. CASE posted' = posted
    BY <2>1
  <2>2. CASE posted' # posted
    <3>. DEFINE ready == {i \in DOMAIN scheduled : CanSync(scheduled[i])}
    <3>1. /\ ready # {} /\ \E call \in {"startSync", "syncFinished"} : posted' = Append(posted, Call(call, f))
      BY <1>14, <2>2 DEF StartScheduledFolderSync
    <3>2. scheduled \in Seq(Known) /\ ready \in SUBSET Nat
      BY LenProperties DEF Typed
    <3>3. Min(ready) \in ready
      BY <3>1, <3>2, LeastOf
    <3>4. f \in Folders
      BY <3>2, <3>3, ElementOfSeq DEF Known
    <3>. HIDE DEF f
    <3>5. QED
      BY <1>0, <1>1, <3>1, <3>4
  <2>3. QED
    BY <2>1, <2>2
<1>15. ASSUME NEW q \in questions, AnswerKeep(q) \/ AnswerRemove(q) PROVE posted' \in Seq(Calls)
  <2>1. q.folder \in Folders
    BY DEF Types, Question
  <2>2. Finalize(q.folder, posted) \/ posted' = posted
    BY <1>15 DEF AnswerKeep, AnswerRemove
  <2>3. QED
    BY <2>1, <2>2, EndedPosted
<1>16. CASE Stop \/ Restart
  BY <1>4, <1>16 DEF Stop, Restart, MemoryLost
<1>17. CASE Connect \/ OpenWizard \/ EnableSync \/ ResumeAll
  BY <1>17 DEF Connect, OpenWizard, EnableSync, ResumeAll, engineVars
<1>18. ASSUME NEW f \in Folders,
              Schedule(f) \/ ScheduleByTime(f) \/ RunEtagJob(f) \/ EtagJobEnds(f) \/ DiscoveryFinishes(f)
       PROVE  posted' \in Seq(Calls)
  BY <1>18 DEF Schedule, ScheduleByTime, RunEtagJob, EtagJobEnds, DiscoveryFinishes, engineVars
<1>19. QED
  BY <1>5, <1>6, <1>7, <1>8, <1>9, <1>10, <1>11, <1>12, <1>13, <1>14, <1>15, <1>16, <1>17, <1>18 DEF Next

\* Only a folder asks for its etag.
LEMMA EtagsNext == ASSUME etagJobs \subseteq Folders, Next PROVE etagJobs' \subseteq Folders
<1>1. ASSUME NEW f \in Folders,
             Schedule(f) \/ ScheduleByTime(f) \/ RunEtagJob(f) \/ EtagJobEnds(f) \/ ForceSync(f)
      PROVE  etagJobs' \subseteq Folders
  BY <1>1 DEF Schedule, ScheduleByTime, RunEtagJob, EtagJobEnds, ForceSync, folderVars
<1>2. ASSUME NEW f \in Folders, RemoveFolder(f) \/ TogglePause(f) \/ EmitFinishedDelayed(f)
      PROVE  etagJobs' \subseteq Folders
  BY <1>2 DEF RemoveFolder, TogglePause, EmitFinishedDelayed, Delete
<1>3. ASSUME NEW f \in Folders,
             EngineStart(f) \/ DiscoveryFails(f) \/ DeleteDiscovery(f) \/ DiscoveryFinishes(f)
      PROVE  etagJobs' \subseteq Folders
  BY <1>3 DEF EngineStart, DiscoveryFails, DeleteDiscovery, DiscoveryFinishes, folderVars
<1>4. ASSUME NEW f \in Folders, PropagatorEnds(f) \/ PropagationFinished(f) \/ SyncFinished(f)
      PROVE  etagJobs' \subseteq Folders
  BY <1>4 DEF PropagatorEnds, PropagationFinished, SyncFinished, folderVars
<1>5. CASE StartScheduledFolderSync \/ Connect \/ Disconnect \/ OpenWizard \/ EnableSync
  BY <1>5 DEF StartScheduledFolderSync, Connect, Disconnect, OpenWizard, EnableSync, folderVars
<1>6. CASE PauseAll \/ ResumeAll \/ Stop \/ Restart
  BY <1>6 DEF PauseAll, ResumeAll, Stop, Restart, MemoryLost
<1>7. ASSUME NEW q \in questions, AnswerKeep(q) \/ AnswerRemove(q) PROVE etagJobs' \subseteq Folders
  BY <1>7 DEF AnswerKeep, AnswerRemove
<1>8. QED
  BY <1>1, <1>2, <1>3, <1>4, <1>5, <1>6, <1>7 DEF Next

-----------------------------------------------------------------------------
(* The inductive invariant, and what follows from it. *)

LEMMA InitWInv == Init => WInv
<1>. SUFFICES ASSUME Init PROVE WInv
  OBVIOUS
<1>1. Typed
  <2>1. <<>> \in Seq(Known) /\ Distinct(<<>>)
    BY DEF Distinct
  <2>2. 0 \in 0 .. MaxDelayed /\ 0 \in 0 .. RetryLimit /\ 0 \in 0 .. MaxForced
    <3>1. MaxDelayed \in Nat /\ RetryLimit \in Nat /\ MaxForced \in Nat
      BY FoldersAssumption
    <3>2. QED
      BY <3>1
  <2>3. /\ existing \in [Folders -> {"known", "leaving", "gone"}]
        /\ delayed \in [Folders -> 0 .. MaxDelayed] /\ failing \in [Folders -> 0 .. RetryLimit]
    BY <2>2 DEF Init
  <2>4. QED
    BY <2>1, <2>2, <2>3 DEF Init, Typed
<1>2. posted \in Seq(Calls)
  BY DEF Init
<1>3. Types /\ UnknownPaused /\ Offline /\ etagJobs \subseteq Folders
  BY DEF Init, Types, UnknownPaused, Offline
<1>4. QED
  BY <1>1, <1>2, <1>3 DEF WInv

LEMMA NextWInv == ASSUME WInv, [Next]_vars PROVE WInv'
<1>1. CASE UNCHANGED vars
  BY <1>1 DEF WInv, vars, managerVars, engineVars, folderVars, Types, Typed, Known, UnknownPaused, Offline, Calls
<1>2. CASE Next
  <2>1. /\ Types /\ Typed /\ posted \in Seq(Calls) /\ UnknownPaused /\ (up => Offline)
        /\ etagJobs \subseteq Folders
    BY DEF WInv
  <2>2. Types' /\ UnknownPaused' /\ posted' \in Seq(Calls) /\ etagJobs' \subseteq Folders
    BY <1>2, <2>1, TypesNext, UnknownPausedNext, PostedNext, EtagsNext
  <2>3. Calls' = Calls
    BY DEF Calls
  <2>4. CASE Stop \/ Restart
    <3>1. /\ up' \in BOOLEAN /\ connected' = FALSE /\ syncEnabled' = TRUE /\ scheduled' = <<>>
          /\ current' = None /\ startTimer' = FALSE /\ forced' = forced
          /\ delayed' = [f \in Folders |-> 0] /\ failing' = [f \in Folders |-> 0]
          /\ \/ existing' = existing
             \/ existing' = [f \in Folders |-> IF f \in Known THEN "known" ELSE "gone"]
      BY <2>4 DEF Stop, Restart, MemoryLost
    <3>2. <<>> \in Seq(Known') /\ Distinct(<<>>)
      BY DEF Distinct
    <3>3. forced \in 0 .. MaxForced /\ existing \in [Folders -> {"known", "leaving", "gone"}]
      BY <2>1 DEF Typed
    <3>4. 0 \in 0 .. MaxDelayed /\ 0 \in 0 .. RetryLimit
      <4>1. MaxDelayed \in Nat /\ RetryLimit \in Nat
        BY FoldersAssumption
      <4>2. QED
        BY <4>1
    <3>5. /\ existing' \in [Folders -> {"known", "leaving", "gone"}]
          /\ delayed' \in [Folders -> 0 .. MaxDelayed] /\ failing' \in [Folders -> 0 .. RetryLimit]
      BY <3>1, <3>3, <3>4
    <3>6. Typed'
      BY <3>1, <3>2, <3>3, <3>5 DEF Typed
    <3>7. Offline'
      BY <3>1 DEF Offline
    <3>8. QED
      BY <2>2, <2>3, <3>6, <3>7 DEF WInv
  <2>6. CASE ~Stop /\ ~Restart
    <3>1. up
      BY <1>2, <2>6
        DEF Next, Schedule, ScheduleByTime, RunEtagJob, EtagJobEnds, ForceSync, RemoveFolder, TogglePause, EngineStart, DiscoveryFails,
            DeleteDiscovery, DiscoveryFinishes, PropagatorEnds, PropagationFinished, SyncFinished,
            EmitFinishedDelayed, StartScheduledFolderSync, Connect, Disconnect, OpenWizard, EnableSync,
            PauseAll, ResumeAll, IsNext, AnswerKeep, AnswerRemove, MayAnswer
    <3>2. Typed' /\ Offline'
      BY <1>2, <2>1, <2>6, <3>1, ManagerQueue, RunQueue DEF Next
    <3>3. QED
      BY <2>2, <2>3, <3>2 DEF WInv
  <2>7. QED
    BY <2>4, <2>6
<1>3. QED
  BY <1>1, <1>2

LEMMA InitQInv == Init => QInv
<1>. SUFFICES ASSUME Init PROVE QInv
  OBVIOUS
<1>1. OneRun
  BY FoldersAssumption DEF Init, OneRun, NoRun, DelayedFor
<1>2. Watched
  BY DEF Init, Watched
<1>3. QED
  BY <1>1, <1>2, InitWInv, InitIInv DEF QInv

LEMMA NextQInv == ASSUME AnsweredInTime, QInv, [Next]_vars PROVE QInv'
<1>0. WInv'
  BY NextWInv DEF QInv
<1>1. IInv'
  <2>1. CASE UNCHANGED vars
    BY <2>1 DEF QInv, vars, engineVars, folderVars, IInv, Types, Held, AskedOnce, Phases
  <2>2. CASE Next
    BY <2>2, ManagerKeeps, DiscoveryKeeps, AnswersKeep, RunEndsKeep, RestartKeeps
      DEF Next, QInv, AnsweredInTime
  <2>3. QED
    BY <2>1, <2>2
<1>. DEFINE Manager ==
       \/ \E f \in Folders :
            \/ Schedule(f) \/ ScheduleByTime(f) \/ RunEtagJob(f) \/ EtagJobEnds(f)
            \/ ForceSync(f) \/ RemoveFolder(f) \/ TogglePause(f)
       \/ StartScheduledFolderSync \/ Connect \/ Disconnect \/ OpenWizard \/ EnableSync
       \/ PauseAll \/ ResumeAll
     Run ==
       \/ \E f \in Folders :
            \/ EngineStart(f) \/ DiscoveryFails(f) \/ DeleteDiscovery(f) \/ DiscoveryFinishes(f)
            \/ PropagatorEnds(f) \/ PropagationFinished(f) \/ SyncFinished(f) \/ EmitFinishedDelayed(f)
       \/ \E q \in questions : AnswerKeep(q) \/ AnswerRemove(q)
<1>2. CASE Manager
  <2>1. up
    BY <1>2 DEF Schedule, ScheduleByTime, RunEtagJob, EtagJobEnds, ForceSync, RemoveFolder, TogglePause,
        StartScheduledFolderSync, Connect, Disconnect, OpenWizard, EnableSync, PauseAll, ResumeAll
  <2>2. IInv /\ Typed /\ OneRun /\ Watched /\ Offline
    BY <2>1 DEF QInv, WInv
  <2>3. OneRun' /\ Watched'
    BY <1>2, <2>2, ManagerStage, ManagerQueue
  <2>4. QED
    BY <1>0, <1>1, <2>3 DEF QInv
<1>3. CASE Run
  <2>1. up
    BY <1>3 DEF EngineStart, DiscoveryFails, DeleteDiscovery, DiscoveryFinishes, PropagatorEnds,
        PropagationFinished, SyncFinished, EmitFinishedDelayed, IsNext, AnswerKeep, AnswerRemove, MayAnswer
  <2>2. IInv /\ Typed /\ Types /\ UnknownPaused /\ OneRun /\ Watched /\ Offline
    BY <2>1 DEF QInv, WInv
  <2>3. Watched'
    BY <1>3, <2>2, RunQueue
  <2>4. OneRun'
    BY <1>3, <2>2, DiscoveryStage, AnswerStage, RunEndStage
  <2>5. QED
    BY <1>0, <1>1, <2>3, <2>4 DEF QInv
<1>4. CASE Stop
  BY <1>0, <1>1, <1>4 DEF QInv, Stop
<1>5. CASE Restart
  <2>1. OneRun'
    BY <1>5, FoldersAssumption DEF Restart, MemoryLost, OneRun, NoRun, DelayedFor
  <2>2. Watched'
    BY <1>5 DEF Restart, MemoryLost, Watched
  <2>3. QED
    BY <1>0, <1>1, <2>1, <2>2 DEF QInv
<1>6. CASE UNCHANGED vars
  BY <1>0, <1>1, <1>6
    DEF QInv, vars, managerVars, engineVars, folderVars, Known, OneRun, NoRun, Starting, Running,
        Ended, Told, Orphaned, DelayedFor, Watched
<1>7. QED
  BY <1>2, <1>3, <1>4, <1>5, <1>6 DEF Next

\* The invariants of every execution.
LEMMA Always == Spec => []WInv
<1>1. WInv /\ [Next]_vars => WInv'
  BY NextWInv
<1>2. QED
  BY <1>1, InitWInv, PTL DEF Spec

LEMMA Invariant == ASSUME AnsweredInTime PROVE Spec => []QInv
<1>1. Init => QInv
  BY InitQInv
<1>2. QInv /\ [Next]_vars => QInv'
  BY NextQInv
<1>3. QED
  BY <1>1, <1>2, PTL DEF Spec

LEMMA InShort ==
  ASSUME NEW x, NEW y
  PROVE  ToSet(<<>>) = {} /\ ToSet(<<x>>) = {x} /\ ToSet(<<x, y>>) = {x, y}
<1>1. ToSet(<<>>) = {}
  BY DEF ToSet
<1>2. ToSet(<<x>>) = {x}
  BY DEF ToSet
<1>3. ToSet(<<x, y>>) = {x, y}
  BY DEF ToSet
<1>4. QED
  BY <1>1, <1>2, <1>3

\* A queue without repetition is as long as it has members.
LEMMA Counted ==
  ASSUME NEW S, NEW q \in Seq(S), Distinct(q)
  PROVE  Len(q) = Cardinality(ToSet(q))
<1>1. Len(q) \in Nat /\ DOMAIN q = 1 .. Len(q) /\ q \in [1 .. Len(q) -> S]
  BY LenProperties
<1>2. q \in [1 .. Len(q) -> ToSet(q)]
  BY <1>1 DEF ToSet
<1>3. q \in Bijection(1 .. Len(q), ToSet(q))
  BY <1>1, <1>2 DEF Distinct, ToSet, Bijection, Injection, Surjection, IsInjective
<1>4. ExistsBijection(1 .. Len(q), ToSet(q))
  BY <1>3 DEF ExistsBijection
<1>5. QED
  BY <1>1, <1>4, FS_CountingElements

\* The state of FolderMan, its folders and their engines is always of its type: in particular
\* _scheduledFolders holds only folders that are configured, and none of them twice.
THEOREM FoldersTyped == Spec => []TypeOK
<1>1. WInv => TypeOK
  <2>. SUFFICES ASSUME WInv PROVE TypeOK
    OBVIOUS
  <2>1. Len(scheduled) = Cardinality(Queued)
    BY Counted DEF WInv, Typed, Queued
  <2>2. posted \in Seq([call : {"startSync", "deleteDiscovery", "propagationFinished", "syncFinished"},
                       folder : Folders])
    BY DEF WInv, Calls
  <2>3. QED
    BY <2>1, <2>2 DEF WInv, TypeOK, Typed, Types
<1>2. QED
  BY <1>1, Always, PTL

\* At most one folder syncs: slotStartScheduledFolderSync never starts an engine while another
\* runs or its start is posted, whatever is scheduled, paused, resumed, terminated or removed.
THEOREM OneRunAtMost == ASSUME AnsweredInTime PROVE Spec => []AtMostOneRun
<1>1. QInv => AtMostOneRun
  <2>. DEFINE R == running \cup {f \in Folders : Call("startSync", f) \in ToSet(posted)}
  <2>. SUFFICES ASSUME QInv, up PROVE Cardinality(R) <= 1
    BY DEF AtMostOneRun
  <2>1. R \subseteq {current}
    <3>1. running \subseteq {current}
      BY DEF QInv, OneRun, NoRun, Starting, Running, Ended, Told, Orphaned
    <3>2. \A c \in ToSet(posted) : c.call = "startSync" => c.folder = current
      <4>1. \/ posted = <<>> \/ \E name : posted = <<Call(name, current)>>
            \/ posted = <<Call("deleteDiscovery", current), Call("syncFinished", current)>>
        BY DEF QInv, OneRun, NoRun, Starting, Running, Ended, Told, Orphaned
      <4>2. \A c \in ToSet(posted) : \E name : c = Call(name, current)
        <5>1. CASE posted = <<>>
          BY <5>1, InShort
        <5>2. ASSUME NEW name, posted = <<Call(name, current)>>
              PROVE  ToSet(posted) = {Call(name, current)}
          BY <5>2, InShort
        <5>3. ASSUME posted = <<Call("deleteDiscovery", current), Call("syncFinished", current)>>
              PROVE  ToSet(posted) = {Call("deleteDiscovery", current), Call("syncFinished", current)}
          BY <5>3, InShort
        <5>4. QED
          BY <4>1, <5>1, <5>2, <5>3
      <4>3. QED
        BY <4>2 DEF Call
    <3>3. \A f : Call("startSync", f).call = "startSync" /\ Call("startSync", f).folder = f
      BY DEF Call
    <3>4. QED
      BY <3>1, <3>2, <3>3
  <2>. HIDE DEF R
  <2>2. IsFiniteSet({current}) /\ Cardinality({current}) = 1
    BY FS_Singleton
  <2>3. Cardinality(R) <= Cardinality({current})
    BY <2>1, <2>2, FS_Subset
  <2>4. QED
    BY <2>2, <2>3
<1>2. QED
  BY <1>1, Invariant, PTL

\* _currentSyncFolder is never left behind: as long as it is set, its run, the start of its run or
\* the end of its run is under way, and the end clears it.
THEOREM MarkerReleased == ASSUME Troubles = {} PROVE Spec => []MarkerIsReleased
<1>1. QInv => MarkerIsReleased
  <2>. SUFFICES ASSUME QInv, up, current # None
                PROVE  current \in running \/ Ending(current) \/ Call("startSync", current) \in ToSet(posted)
    BY DEF MarkerIsReleased
  <2>1. CASE Starting
    BY <2>1, InShort DEF Starting
  <2>2. CASE Running
    BY <2>2 DEF Running
  <2>3. CASE Ended
    <3>. DEFINE c(name) == Call(name, current)
    <3>1. posted = <<c("syncFinished")>> \/ posted = <<c("deleteDiscovery"), c("syncFinished")>>
      BY <2>3 DEF Ended
    <3>. DEFINE x == c("deleteDiscovery")
                y == c("syncFinished")
    <3>0. ToSet(<<y>>) = {y} /\ ToSet(<<x, y>>) = {x, y}
      BY InShort
    <3>. HIDE DEF c
    <3>2. y \in ToSet(posted)
      BY <3>0, <3>1
    <3>3. QED
      BY <3>2 DEF Ending, c
  <2>4. CASE Told
    <3>1. current \in Folders
      BY DEF QInv, WInv, Typed
    <3>2. delayed[current] = 1
      BY <2>4, <3>1 DEF Told, DelayedFor
    <3>3. QED
      BY <3>2 DEF Ending
  <2>5. ~Orphaned
    BY DEF Orphaned, RemovedInGaps
  <2>6. QED
    BY <2>1, <2>2, <2>3, <2>4, <2>5 DEF QInv, OneRun, NoRun
<1>2. AnsweredInTime
  BY DEF AnsweredInTime
<1>3. QED
  BY <1>1, <1>2, Invariant, PTL

\* No lost wakeup: when a folder waits in _scheduledFolders, nothing runs and syncing is enabled,
\* _startScheduledSyncTimer is active or the end of a run is going to start it.
THEOREM QueueWatched == ASSUME AnsweredInTime PROVE Spec => []QueueIsWatched
<1>1. QInv => QueueIsWatched
  BY DEF QInv, QueueIsWatched, Watched, AnySyncRunning
<1>2. QED
  BY <1>1, Invariant, PTL

\* While the account is not connected nothing is in _scheduledFolders: slotAccountStateChanged
\* clears it, and scheduleFolder, scheduleFolderNext and the retries add nothing to it.
THEOREM OfflineNothingWaits == Spec => []OfflineQueueIsEmpty
<1>1. WInv => OfflineQueueIsEmpty
  BY DEF WInv, OfflineQueueIsEmpty, Offline
<1>2. QED
  BY <1>1, Always, PTL
=============================================================================
