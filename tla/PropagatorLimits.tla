-------------------------- MODULE PropagatorLimits --------------------------
(***************************************************************************)
(* More invariants of module Propagator: the active list stays within the  *)
(* hard limit, the transfers within theirs, and propagation does not end   *)
(* under a running job.                                                    *)
(***************************************************************************)
EXTENDS PropagatorProofs, FiniteSetTheorems, SequenceTheorems

LEMMA LimitNumbers ==
    /\ MaximumActiveTransferJob \in Nat /\ HardMaximumActiveJob \in Nat
    /\ 1 <= MaximumActiveTransferJob
    /\ MaximumActiveTransferJob <= HardMaximumActiveJob
    /\ MaximumActiveTransferJob >= 2 => MaximumActiveTransferJob < HardMaximumActiveJob
<1> DEFINE P == ParallelNetworkJobs
<1>1. P \in Nat
  BY JobAssumption
<1> HIDE DEF P
<1>2. CASE NetworkLimited \/ P = 0
  BY <1>1, <1>2 DEF MaximumActiveTransferJob, HardMaximumActiveJob, P
<1>3. CASE ~(NetworkLimited \/ P = 0) /\ P > 5
  BY <1>1, <1>3 DEF MaximumActiveTransferJob, HardMaximumActiveJob, P
<1>4. CASE ~(NetworkLimited \/ P = 0) /\ ~(P > 5)
  <2>1. P \in 1 .. 5
    BY <1>1, <1>4
  <2>2. MaximumActiveTransferJob = (P + 1) \div 2 /\ HardMaximumActiveJob = P
    BY <1>4 DEF MaximumActiveTransferJob, HardMaximumActiveJob, P
  <2>3. /\ (1 + 1) \div 2 = 1 /\ (2 + 1) \div 2 = 1 /\ (3 + 1) \div 2 = 2
        /\ (4 + 1) \div 2 = 2 /\ (5 + 1) \div 2 = 3
    BY SMT
  <2> QED BY <2>1, <2>2, <2>3
<1> QED BY <1>1, <1>2, <1>3, <1>4

\* A step that begins no start and adds no entry.
LEMMA LimitKept ==
    ASSUME TypeOK, TypeOK', IndLimit, Len(active') <= Len(active), Starting' => Starting
    PROVE  IndLimit'
<1>1. Len(active) \in Nat /\ Len(active') \in Nat /\ HardMaximumActiveJob \in Nat
  BY LimitNumbers DEF TypeOK
<1>2. HardMaximumActiveJob' = HardMaximumActiveJob
  BY DEF HardMaximumActiveJob
<1> QED BY <1>1, <1>2 DEF IndLimit

\* The same, said of the variables.
LEMMA NoNewStart ==
    ASSUME ticking' => ticking,
           signal' = signal \/ \A i \in Items : signal' # <<"start", i>>
    PROVE  Starting' => Starting
BY DEF Starting

LEMMA EntryGoes ==
    ASSUME TypeOK, NEW i \in Items, Replace(i, <<>>)
    PROVE  Len(active') <= Len(active)
<1>1. Len(active') = Len(active) - 1 + Len(<<>>) /\ Len(<<>>) = 0
  BY ReplaceFacts, EmptySeq DEF TypeOK
<1>2. Len(active) \in Nat
  BY DEF TypeOK
<1> QED BY <1>1, <1>2

LEMMA LimitTick ==
    ASSUME IInv, TypeOK', IndLimit, Tick
    PROVE  IndLimit'
<1>1. /\ ticking' => MayPumpAnother
      /\ UNCHANGED <<signal, active>> /\ signal = NoSignal
  BY IdleFacts DEF Tick, IInv
<1>2. MayPumpAnother => Len(active) < HardMaximumActiveJob
  <2>1. Len(active) \in Nat
    BY DEF IInv, TypeOK
  <2> QED BY <2>1, LimitNumbers DEF MayPumpAnother
<1>3. HardMaximumActiveJob' = HardMaximumActiveJob
  BY DEF HardMaximumActiveJob
<1>4. Starting' => ticking'
  BY <1>1, SignalFacts DEF Starting
<1> QED BY <1>1, <1>2, <1>3, <1>4 DEF IndLimit

LEMMA LimitStartNetwork ==
    ASSUME IInv, TypeOK', IndLimit, NEW i \in Items, StartNetwork(i)
    PROVE  IndLimit'
<1>1. /\ signal = <<"start", i>> /\ signal' = NoSignal /\ active' = Append(active, i)
      /\ active \in Seq(Items) /\ ~ticking /\ ticking' = ticking
  BY DEF StartNetwork, IInv, TypeOK, IndActive
<1>2. Starting /\ ~Starting'
  BY <1>1, SignalFacts DEF Starting
<1>3. Len(active') = Len(active) + 1 /\ Len(active) \in Nat /\ HardMaximumActiveJob \in Nat
  BY <1>1, AppendProperties, LimitNumbers
<1>4. HardMaximumActiveJob' = HardMaximumActiveJob
  BY DEF HardMaximumActiveJob
<1> QED BY <1>2, <1>3, <1>4 DEF IndLimit

\* A request that is answered makes room for one more, and for others below the limit
\* of transfers.
LEMMA LimitNextRequest ==
    ASSUME IInv, TypeOK', IndLimit, NEW i \in Items, NextRequest(i)
    PROVE  IndLimit'
<1>1. PICK sent \in 0 .. toSend[i] :
         /\ sent > 1 => Len(active) - 2 + sent < MaximumActiveTransferJob
         /\ Replace(i, Repeat(i, sent))
  BY DEF NextRequest
<1>2. toSend[i] \in Nat /\ Len(active) \in Nat /\ sent \in Nat /\ active \in Seq(Items)
  BY <1>1 DEF IInv, TypeOK
<1>3. Repeat(i, sent) \in Seq({i}) /\ Len(Repeat(i, sent)) = sent
  BY <1>2 DEF Repeat
<1>4. Len(active') = Len(active) - 1 + sent /\ InFlight(i)
  BY <1>1, <1>2, <1>3, ReplaceFacts
<1>5. Len(active) >= 1
  BY <1>2, <1>4 DEF InFlight
<1>6. ~Starting'
  <2>1. UNCHANGED <<signal, ticking>> /\ ~ticking /\ signal = NoSignal
    BY IdleFacts DEF NextRequest, callVars, IInv
  <2> QED BY <2>1, SignalFacts DEF Starting
<1>7. HardMaximumActiveJob' = HardMaximumActiveJob
  BY DEF HardMaximumActiveJob
<1>8. Len(active') <= HardMaximumActiveJob
  <2>1. CASE sent <= 1
    BY <1>2, <1>4, <1>5, <2>1, LimitNumbers DEF IndLimit
  <2>2. CASE sent > 1
    <3>1. Len(active') <= MaximumActiveTransferJob
      BY <1>1, <1>2, <1>4, <1>5, <2>2, LimitNumbers
    <3> QED BY <1>2, <1>4, <3>1, LimitNumbers
  <2> QED BY <1>2, <2>1, <2>2
<1> QED BY <1>6, <1>7, <1>8 DEF IndLimit

LEMMA EndKept ==
    ASSUME TypeOK, IndEnd,
           \A c \in Comps : cstate[c] = "Finished" => cstate'[c] = "Finished",
           hasError[Subs] => hasError'[Subs],
           abortCalls' = abortCalls \/ abortCalls' = abortCalls + 1,
           abortTimers' > 0 \/ sweep' # "no" \/ Awaits(posted', Abort) =>
               \/ abortTimers > 0 \/ sweep # "no" \/ Awaits(posted, Abort)
               \/ abortCalls' = abortCalls + 1,
           finished' = "failure" =>
               \/ finished = "failure"
               \/ abortCalls > 0
               \/ /\ cstate'[Subs] = "Finished"
                  /\ hasError'[Subs] \/ cstate'[Deletions] = "Finished"
    PROVE  IndEnd'
<1>1. abortCalls \in Nat
  BY DEF TypeOK
<1>2. abortCalls' > 0 <=> (abortCalls > 0 \/ abortCalls' = abortCalls + 1)
  BY <1>1
<1>3. abortCalls' = 0 => abortCalls = 0
  BY <1>1
<1>4. abortCalls = 0 <=> ~(abortCalls > 0)
  BY <1>1
<1> QED BY <1>2, <1>3, <1>4, TreeFacts DEF IndEnd

\* The call of abort() that a done() may make.
LEMMA AbortQueue ==
    ASSUME TypeOK, NEW status, AbortIfFatal(status)
    PROVE  /\ abortCalls' = abortCalls \/ abortCalls' = abortCalls + 1
           /\ abortCalls' = abortCalls => UNCHANGED <<abortTimers, posted>>
<1>1. CASE status = "Fatal"
  <2>1. abortCalls' = abortCalls + 1
    BY <1>1 DEF AbortIfFatal, CallAbort
  <2>2. abortCalls' # abortCalls
    BY <2>1 DEF TypeOK
  <2> QED BY <2>1, <2>2
<1>2. CASE status # "Fatal"
  BY <1>2 DEF AbortIfFatal
<1> QED BY <1>1, <1>2

\* emitFinished posts the release and nothing else.
LEMMA EmitQueue ==
    ASSUME TypeOK, NEW status, EmitFinished(status)
    PROVE  /\ Awaits(posted', Abort) => Awaits(posted, Abort)
           /\ finished' = finished \/ finished' = status
<1>1. posted \in Seq(Events)
  BY DEF TypeOK
<1>2. \A x : Awaits(Append(posted, Release), x) <=> Awaits(posted, x) \/ x = Release
  BY <1>1, QueueAppend, EventFacts
<1>3. CASE finished = "no"
  BY <1>2, <1>3, EventFacts DEF EmitFinished
<1>4. CASE finished # "no"
  BY <1>4 DEF EmitFinished
<1> QED BY <1>3, <1>4

Ends == IndLimit /\ IndEnd

\* An item is done.
LEMMA EndsDone ==
    ASSUME IInv, TypeOK', Ends, NEW i \in Items, NEW status \in Statuses, Done(i, status),
           AbortIfFatal(status), Len(active') <= Len(active)
    PROVE  Ends'
<1> USE DEF IInv, Ends
<1>1. /\ UNCHANGED <<cstate, hasError, ticking, sweep, finished>>
      /\ signal' = <<"job", i>>
  BY DEF Done, endVars
<1>2. Starting' => Starting
  BY <1>1, NoNewStart, SignalFacts
<1>3. IndLimit'
  BY <1>2, LimitKept
<1>4. IndEnd'
  BY <1>1, AbortQueue, EndKept
<1> QED BY <1>3, <1>4

LEMMA EndsItem ==
    ASSUME IInv, TypeOK', Ends, NEW i \in Items, Step(i)
    PROVE  Ends'
<1>0. TypeOK /\ Len(active) \in Nat
  BY DEF IInv, TypeOK
<1>1. ASSUME NEW status \in Statuses,
             StartDone(i, status) \/ NetworkDone(i, status) \/ CheckDone(i, status)
      PROVE  Ends'
  <2>1. Done(i, status) /\ AbortIfFatal(status)
    BY <1>1 DEF StartDone, NetworkDone, CheckDone
  <2>2. Len(active') <= Len(active)
    BY <1>0, <1>1, EntryGoes DEF StartDone, NetworkDone, CheckDone
  <2> QED BY <2>1, <2>2, EndsDone
<1>2. ASSUME CancelItem(i) PROVE Ends'
  <2>1. Done(i, "Fatal") /\ AbortIfFatal("Fatal") /\ "Fatal" \in Statuses
    BY <1>2 DEF CancelItem, Statuses
  <2>2. Len(active') <= Len(active)
    BY <1>0, <1>2, EntryGoes DEF CancelItem
  <2> QED BY <2>1, <2>2, EndsDone
<1>3. ASSUME StartNetwork(i) \/ NextRequest(i) PROVE Ends'
  <2>1. UNCHANGED <<cstate, hasError, posted, abortCalls, abortTimers, sweep, finished>>
    BY <1>3 DEF StartNetwork, NextRequest, jobVars, abortVars, endVars
  <2>2. IndEnd'
    BY <1>0, <2>1, EndKept DEF Ends
  <2> QED BY <1>3, <2>2, LimitStartNetwork, LimitNextRequest DEF Ends
<1>4. ASSUME DropEntry(i) \/ GoOffline(i) \/ PermissionLost(i) \/ CancelUpload(i) \/ Swallowed(i)
      PROVE  Ends'
  <2>1. UNCHANGED <<cstate, hasError, posted, ticking, signal, abortCalls, abortTimers, sweep,
                    finished>>
    BY <1>4 DEF DropEntry, GoOffline, PermissionLost, CancelUpload, Swallowed, jobVars, callVars,
       abortVars, endVars
  <2>2. Len(active') <= Len(active)
    BY <1>0, <1>4, EntryGoes DEF DropEntry, GoOffline, PermissionLost, CancelUpload, Swallowed
  <2>3. IndLimit'
    BY <1>0, <2>1, <2>2, NoNewStart, LimitKept DEF Ends
  <2>4. IndEnd'
    BY <1>0, <2>1, EndKept DEF Ends
  <2> QED BY <2>3, <2>4 DEF Ends
<1> QED BY <1>1, <1>2, <1>3, <1>4 DEF Step

\* The steps that leave the active list alone, and those of an abort apart.
LEMMA EndsComposite ==
    ASSUME IInv, TypeOK', Ends, NEW c \in Comps, AskStarts(c) \/ AskPasses(c) \/ FinalizeComposite(c)
    PROVE  Ends'
<1> USE DEF IInv, Ends
<1>1. posted \in Seq(Events)
  BY DEF TypeOK
<1>2. \A x \in Comps : cstate[x] = "Finished" => cstate'[x] = "Finished"
  BY AskedFacts DEF AskStarts, AskPasses, FinalizeComposite, TypeOK
<1>3. UNCHANGED <<hasError, active, abortCalls, abortTimers, sweep, finished>>
  BY DEF AskStarts, AskPasses, FinalizeComposite, abortVars, endVars
<1>4. IndLimit'
  <2>1. Len(active') <= Len(active)
    BY <1>3 DEF TypeOK
  <2>2. Starting' => Starting
    <3>1. AskStarts(c) \/ AskPasses(c) => ticking
      BY DEF AskStarts, AskPasses
    <3>2. CASE FinalizeComposite(c)
      <4>1. ticking' = ticking /\ \A i \in Items : signal' # <<"start", i>>
        BY <3>2, SignalFacts DEF FinalizeComposite
      <4> QED BY <4>1, NoNewStart
    <3> QED BY <3>1, <3>2 DEF Starting
  <2> QED BY <2>1, <2>2, LimitKept
<1>5. Awaits(posted', Abort) => Awaits(posted, Abort)
  <2>1. CASE AskStarts(c)
    BY <2>1 DEF AskStarts
  <2>2. CASE AskPasses(c)
    <3>1. posted' = posted \/ posted' = Append(posted, Finalize(c))
      BY <2>2 DEF AskPasses, AfterPassing
    <3>2. CASE posted' = Append(posted, Finalize(c))
      <4>1. Finalize(c) \in Events /\ Abort # Finalize(c)
        BY EventFacts
      <4> QED BY <1>1, <3>2, <4>1, QueueAppend
    <3> QED BY <3>1, <3>2
  <2>3. CASE FinalizeComposite(c)
    BY <1>1, <2>3, QueueTail DEF FinalizeComposite
  <2> QED BY <2>1, <2>2, <2>3
<1>6. IndEnd'
  BY <1>2, <1>3, <1>5, EndKept
<1> QED BY <1>4, <1>6

LEMMA EndsSignal ==
    ASSUME IInv, TypeOK', Ends,
           \/ \E j \in Jobs : SubJobFinished(j)
           \/ \E d \in Dirs : FirstJobFinished(d) \/ SubJobsFinished(d)
    PROVE  Ends'
<1> USE DEF IInv, Ends
<1>1. UNCHANGED <<posted, active, ticking, abortCalls, abortTimers, sweep, finished>>
  BY DEF SubJobFinished, FirstJobFinished, SubJobsFinished, abortVars, endVars
<1>2. /\ \A c \in Comps : cstate[c] = "Finished" => cstate'[c] = "Finished"
      /\ hasError[Subs] => hasError'[Subs]
  BY TreeFacts DEF SubJobFinished, FirstJobFinished, SubJobsFinished, TypeOK
<1>3. Len(active') <= Len(active)
  BY <1>1 DEF TypeOK
<1>4. \A i \in Items : signal' # <<"start", i>>
  BY SignalFacts DEF SubJobFinished, FirstJobFinished, SubJobsFinished
<1>5. IndLimit'
  BY <1>1, <1>3, <1>4, NoNewStart, LimitKept
<1>6. IndEnd'
  BY <1>1, <1>2, EndKept
<1> QED BY <1>5, <1>6

LEMMA EndsRoot ==
    ASSUME IInv, TypeOK', Ends, RootSubJobsFinished \/ DirDeletionJobsFinished
    PROVE  Ends'
<1> USE DEF IInv, Ends
<1>1. UNCHANGED <<cstate, hasError, active, ticking, abortCalls, abortTimers, sweep>>
  BY DEF RootSubJobsFinished, DirDeletionJobsFinished, abortVars
<1>2. Len(active') <= Len(active)
  BY <1>1 DEF TypeOK
<1>3. \/ UNCHANGED <<posted, finished>>
      \/ EmitFinished("failure") /\ cstate[Subs] = "Finished" /\ hasError[Subs]
      \/ /\ cstate[Subs] = "Finished" /\ cstate[Deletions] = "Finished"
         /\ EmitFinished("failure") \/ EmitFinished("success")
  BY DEF RootSubJobsFinished, DirDeletionJobsFinished, IndTree, IndSignal, IndRoot, Comps
<1>4. /\ Awaits(posted', Abort) => Awaits(posted, Abort)
      /\ finished' = finished \/ (cstate[Subs] = "Finished"
                                  /\ (hasError[Subs] \/ cstate[Deletions] = "Finished"))
  BY <1>3, EmitQueue
<1>5. IndLimit'
  <2>1. signal' = NoSignal
    BY DEF RootSubJobsFinished, DirDeletionJobsFinished
  <2> QED BY <1>1, <1>2, <2>1, SignalFacts, NoNewStart, LimitKept
<1>6. IndEnd'
  BY <1>1, <1>4, EndKept
<1> QED BY <1>5, <1>6

LEMMA EndsAbort ==
    ASSUME IInv, TypeOK', Ends, UserAbort \/ AbortEvent \/ AbortFinished \/ AbortTimeout
    PROVE  Ends'
<1> USE DEF IInv, Ends
<1>1. UNCHANGED <<cstate, hasError, active, ticking, signal>>
  BY DEF UserAbort, AbortEvent, AbortFinished, AbortTimeout, jobVars, callVars
<1>2. Len(active') <= Len(active)
  BY <1>1 DEF TypeOK
<1>3. IndLimit'
  BY <1>1, <1>2, NoNewStart, LimitKept
<1>4. CASE UserAbort
  <2>1. abortCalls' = abortCalls + 1 /\ finished' = finished
    BY <1>4 DEF UserAbort, CallAbort, endVars
  <2> QED BY <1>1, <1>3, <2>1, EndKept
<1>5. CASE AbortEvent
  <2>1. Awaits(posted, Abort)
    BY <1>5, QueueTail DEF AbortEvent, TypeOK
  <2>2. UNCHANGED <<abortCalls, abortTimers, finished>>
    BY <1>5 DEF AbortEvent, endVars
  <2> QED BY <1>1, <1>3, <2>1, <2>2, EndKept
<1>6. CASE AbortFinished \/ AbortTimeout
  <2>1. EmitFinished("failure") /\ abortCalls' = abortCalls
    BY <1>6 DEF AbortFinished, AbortTimeout
  <2>2. abortTimers > 0 \/ sweep # "no"
    BY <1>6 DEF AbortFinished, AbortTimeout
  <2>3. abortCalls > 0
    BY <2>2 DEF IndEnd
  <2> QED BY <1>1, <1>3, <2>1, <2>2, <2>3, EmitQueue, EndKept
<1> QED BY <1>4, <1>5, <1>6

LEMMA NextEnds == IInv /\ Ends /\ [Next]_vars => Ends'
<1> SUFFICES ASSUME IInv, Ends, [Next]_vars PROVE Ends'
  OBVIOUS
<1>0. TypeOK'
  BY NextTypeOK DEF IInv
<1>1. CASE Tick
  <2>1. UNCHANGED <<cstate, hasError, posted, abortCalls, abortTimers, sweep, finished>>
    BY <1>1 DEF Tick, jobVars, abortVars, endVars
  <2> QED BY <1>0, <1>1, <2>1, LimitTick, EndKept DEF Ends, IInv
<1>2. CASE AskEnds \/ UNCHANGED vars
  <2>1. /\ ticking' => ticking
        /\ UNCHANGED <<cstate, hasError, posted, signal, active, abortCalls, abortTimers, sweep,
                       finished>>
    BY <1>2 DEF AskEnds, vars, jobVars, callVars, abortVars, endVars
  <2>2. Len(active') <= Len(active)
    BY <2>1 DEF IInv, TypeOK
  <2> QED BY <1>0, <2>1, <2>2, NoNewStart, LimitKept, EndKept DEF Ends, IInv
<1>3. CASE ReleasePropagator
  <2>1. /\ UNCHANGED <<cstate, hasError, ticking, signal, abortCalls, sweep, finished>>
        /\ active' = <<>> /\ posted' = <<>> /\ abortTimers' = 0
    BY <1>3 DEF ReleasePropagator, jobVars, callVars
  <2>2. Len(active') <= Len(active) /\ \A x : ~Awaits(posted', x)
    BY <2>1 DEF IInv, TypeOK, Awaits
  <2> QED BY <1>0, <2>1, <2>2, NoNewStart, LimitKept, EndKept DEF Ends, IInv
<1> QED
  BY <1>0, <1>1, <1>2, <1>3, EndsItem, EndsComposite, EndsSignal, EndsRoot, EndsAbort
     DEF Next, Released

LEMMA InitEnds == Init => Ends
<1> SUFFICES ASSUME Init PROVE Ends
  OBVIOUS
<1>1. Len(active) = 0 /\ 0 <= HardMaximumActiveJob /\ \A x : ~Awaits(posted, x)
  BY LimitNumbers, EmptySeq DEF Init, Awaits
<1> QED BY <1>1, SignalFacts DEF Ends, IndLimit, IndEnd, Starting, Init

-----------------------------------------------------------------------------
(* The limit of the transfers: how many entries of the active list are slow. *)

LEMMA CountTo ==
    ASSUME NEW n \in Nat
    PROVE  IsFiniteSet(1 .. n) /\ Cardinality(1 .. n) = n
<1>1. IsFiniteSet(1 .. n) /\ Cardinality(1 .. n) = IF 1 > n THEN 0 ELSE n - 1 + 1
  BY FS_Interval
<1> QED BY <1>1

LEMMA SlowFinite ==
    ASSUME TypeOK
    PROVE  /\ IsFiniteSet(Slow) /\ Cardinality(Slow) \in Nat
           /\ Slow \subseteq 1 .. Len(active) /\ Cardinality(Slow) <= Len(active)
           /\ Len(active) \in Nat
<1>1. Len(active) \in Nat /\ Slow \in SUBSET (1 .. Len(active))
  BY DEF TypeOK, Slow
<1>2. IsFiniteSet(1 .. Len(active)) /\ Cardinality(1 .. Len(active)) = Len(active)
  BY <1>1, CountTo
<1>3. IsFiniteSet(Slow) /\ Cardinality(Slow) <= Len(active)
  BY <1>1, <1>2, FS_Subset
<1> QED BY <1>1, <1>3, FS_CardinalityType

\* When the walk begins there is room for a transfer: the quick jobs that were counted
\* in are no slow ones.
LEMMA RoomToStart ==
    ASSUME TypeOK, MayPumpAnother
    PROVE  Cardinality(Slow) < MaximumActiveTransferJob
<1> DEFINE K == {n \in 1 .. MaximumActiveTransferJob : n <= Len(active) /\ active[n] \in Quick}
<1>1. /\ IsFiniteSet(Slow) /\ Cardinality(Slow) \in Nat /\ Slow \subseteq 1 .. Len(active)
      /\ Cardinality(Slow) <= Len(active) /\ Len(active) \in Nat
      /\ MaximumActiveTransferJob \in Nat
  BY SlowFinite, LimitNumbers
<1>2. CASE Len(active) < MaximumActiveTransferJob
  BY <1>1, <1>2
<1>3. CASE Len(active) < MaximumActiveTransferJob + Cardinality(K)
  <2>1. K \subseteq 1 .. Len(active) /\ Slow \cap K = {}
    BY <1>1 DEF Slow
  <2> HIDE DEF K
  <2>2. IsFiniteSet(1 .. Len(active)) /\ Cardinality(1 .. Len(active)) = Len(active)
    BY <1>1, CountTo
  <2>3. IsFiniteSet(K) /\ Cardinality(K) \in Nat
    BY <2>1, <2>2, FS_Subset, FS_CardinalityType
  <2>4. Cardinality(Slow \cup K) = Cardinality(Slow) + Cardinality(K)
    <3>1. Cardinality(Slow \cup K) = Cardinality(Slow) + Cardinality(K) - Cardinality(Slow \cap K)
      BY <1>1, <2>3, FS_Union
    <3>2. Cardinality(Slow \cap K) = 0
      BY <2>1, FS_EmptySet
    <3> QED BY <1>1, <2>3, <3>1, <3>2
  <2>5. Cardinality(Slow \cup K) <= Len(active)
    BY <1>1, <2>1, <2>2, FS_Subset
  <2> QED BY <1>1, <1>3, <2>3, <2>4, <2>5
<1> QED BY <1>2, <1>3 DEF MayPumpAnother, LikelyFinishedQuickly

\* Taking out an entry and putting at most one of the same job at the end adds no
\* slow entry.
LEMMA ReplaceSlow ==
    ASSUME TypeOK, TypeOK', NEW i \in Items, NEW new \in Seq({i}), Len(new) <= 1,
           Replace(i, new)
    PROVE  Cardinality(Slow') <= Cardinality(Slow)
<1>1. PICK n \in Entries(i) :
          active' = SubSeq(active, 1, n - 1) \o SubSeq(active, n + 1, Len(active)) \o new
  BY DEF Replace
<1>2. n \in 1 .. Len(active) /\ active[n] = i /\ active \in Seq(Items)
  BY DEF Entries, TypeOK
<1> DEFINE pre == SubSeq(active, 1, n - 1)
           post == SubSeq(active, n + 1, Len(active))
<1>3. /\ pre \in Seq(Items) /\ Len(pre) = n - 1
      /\ \A m \in 1 .. n - 1 : pre[m] = active[m]
  BY <1>2, SMT
<1>4. /\ post \in Seq(Items) /\ Len(post) = Len(active) - n
      /\ \A m \in 1 .. Len(active) - n : post[m] = active[m + n]
  BY <1>2, SMT
<1>5. new \in Seq(Items) /\ Len(new) \in Nat /\ \A m \in 1 .. Len(new) : new[m] = i
  BY SMT
<1>6. Len(active) \in Nat /\ Len(pre) \in Nat /\ Len(post) \in Nat
  BY <1>2, <1>3, <1>4
<1>7. active' = (pre \o post) \o new
  BY <1>1
<1> HIDE DEF pre, post
<1>8. DOMAIN active' = 1 .. Len(active) - 1 + Len(new)
  <2>1. Len(active') = Len(active) - 1 + Len(new)
    BY <1>2, ReplaceFacts
  <2>2. DOMAIN active' = 1 .. Len(active')
    BY DEF TypeOK
  <2> QED BY <2>1, <2>2
<1> DEFINE Before(m) == IF m < n THEN m ELSE IF m = Len(active) THEN n ELSE m + 1
<1>9. ASSUME NEW m \in DOMAIN active'
      PROVE  Before(m) \in DOMAIN active /\ active'[m] = active[Before(m)]
  <2>1. m \in 1 .. Len(active) - 1 + Len(new)
    BY <1>8, <1>9
  <2>2. CASE m < n
    <3>1. active'[m] = pre[m]
      BY <1>2, <1>3, <1>4, <1>5, <1>6, <1>7, <2>1, <2>2
    <3> QED BY <1>2, <1>3, <2>1, <2>2, <3>1
  <2>3. CASE m = Len(active) /\ ~(m < n)
    <3>1. Len(new) = 1
      <4> HIDE DEF Before
      <4> DEFINE k == Len(new)
                 a == Len(active)
      <4>1. k \in Int /\ a \in Int /\ k <= 1
        BY <1>5, <1>6
      <4>2. a <= a - 1 + k
        BY <2>1, <2>3, <4>1
      <4> HIDE DEF k, a
      <4>3. k = 1
        BY <4>1, <4>2
      <4> QED BY <4>3 DEF k
    <3>2. pre \o post \in Seq(Items) /\ Len(pre \o post) = Len(pre) + Len(post)
      <4>1. pre \in Seq(Items) /\ post \in Seq(Items)
        BY <1>3, <1>4
      <4> QED BY <4>1, ConcatProperties
    <3>3. m = Len(pre \o post) + 1
      <4>1. Len(pre) = n - 1 /\ Len(post) = Len(active) - n /\ m = Len(active)
        BY <1>3, <1>4, <2>3
      <4>2. n \in Int /\ Len(active) \in Int
        BY <1>2, <1>6
      <4> HIDE DEF Before
      <4> QED BY <3>2, <4>1, <4>2
    <3> DEFINE front == pre \o post
    <3>4. front \in Seq(Items) /\ active' = front \o new /\ m = Len(front) + 1
      BY <1>7, <3>2, <3>3
    <3> HIDE DEF front
    <3>5. active'[m] = new[1]
      BY <1>5, <3>1, <3>4
    <3> QED BY <1>2, <1>5, <2>3, <3>1, <3>5
  <2>4. CASE m # Len(active) /\ ~(m < n)
    <3>1. m - (n - 1) \in 1 .. Len(active) - n
      BY <1>2, <1>5, <1>6, <2>1, <2>4
    <3>2. active'[m] = post[m - (n - 1)]
      <4> DEFINE front == pre \o post
      <4>1. pre \in Seq(Items) /\ post \in Seq(Items) /\ Len(pre) = n - 1
            /\ Len(post) = Len(active) - n
        BY <1>3, <1>4
      <4>2. /\ front \in Seq(Items) /\ Len(front) = Len(pre) + Len(post)
            /\ \A k \in 1 .. Len(pre) + Len(post) :
                   front[k] = IF k <= Len(pre) THEN pre[k] ELSE post[k - Len(pre)]
        BY <4>1, ConcatProperties
      <4> HIDE DEF front
      <4>3. m \in 1 .. Len(pre) + Len(post) /\ ~(m <= Len(pre))
        BY <1>2, <1>6, <2>1, <2>4, <3>1, <4>1
      <4>4. front[m] = post[m - (n - 1)]
        BY <4>1, <4>2, <4>3
      <4>5. active' = front \o new
        BY <1>7 DEF front
      <4>6. \A k \in 1 .. Len(front) + Len(new) :
                   (front \o new)[k] = IF k <= Len(front) THEN front[k] ELSE new[k - Len(front)]
        BY <1>5, <4>2, ConcatProperties
      <4>7. m \in 1 .. Len(front) + Len(new) /\ m <= Len(front)
        BY <1>5, <1>6, <4>2, <4>3
      <4> QED BY <4>4, <4>5, <4>6, <4>7
    <3>3. post[m - (n - 1)] = active[m + 1]
      <4>1. m - (n - 1) + n = m + 1
        BY <1>2, <2>1
      <4> QED BY <1>4, <3>1, <4>1
    <3> QED BY <1>2, <1>6, <2>1, <2>4, <3>1, <3>2, <3>3
  <2> QED BY <2>2, <2>3, <2>4
<1>10. ASSUME NEW l \in DOMAIN active', NEW m \in DOMAIN active', Before(l) = Before(m)
       PROVE  l = m
  <2>1. l \in 1 .. Len(active) /\ m \in 1 .. Len(active)
    BY <1>2, <1>5, <1>6, <1>8, <1>10
  <2> QED BY <1>2, <1>6, <1>10, <2>1
<1> HIDE DEF Before
<1> DEFINE f == [m \in Slow' |-> Before(m)]
<1>11. f \in Injection(Slow', Slow)
  <2>1. \A m \in Slow' : m \in DOMAIN active' /\ active'[m] \notin Quick
    BY DEF Slow
  <2>2. \A m \in Slow' : Before(m) \in Slow
    BY <1>9, <2>1 DEF Slow
  <2>3. f \in [Slow' -> Slow]
    BY <2>2
  <2>4. \A l, m \in Slow' : f[l] = f[m] => l = m
    BY <1>10, <2>1
  <2> QED BY <2>3, <2>4 DEF Injection, IsInjective
<1> HIDE DEF f
<1> QED BY <1>11, SlowFinite, FS_Injection

LEMMA TransferKept ==
    ASSUME TypeOK, TypeOK', IndTransfer, Starting' => Starting,
           UNCHANGED active \/ \E i \in Items : Replace(i, <<>>)
    PROVE  IndTransfer'
<1>1. Cardinality(Slow') <= Cardinality(Slow)
  <2>1. CASE UNCHANGED active
    <3>1. Slow' = Slow
      BY <2>1 DEF Slow
    <3> QED BY <3>1, SlowFinite
  <2>2. ASSUME NEW i \in Items, Replace(i, <<>>) PROVE Cardinality(Slow') <= Cardinality(Slow)
    <3> DEFINE new == <<>>
    <3>1. new \in Seq({i}) /\ Len(new) <= 1 /\ Replace(i, new)
      BY <2>2, EmptySeq
    <3> HIDE DEF new
    <3> QED BY <3>1, ReplaceSlow
  <2> QED BY <2>1, <2>2
<1>2. Cardinality(Slow) \in Nat /\ Cardinality(Slow') \in Nat
  <2>1. IsFiniteSet(Slow')
    <3>1. Len(active') \in Nat /\ Slow' \in SUBSET (1 .. Len(active'))
      BY DEF TypeOK, Slow
    <3>2. IsFiniteSet(1 .. Len(active'))
      BY <3>1, CountTo
    <3> QED BY <3>1, <3>2, FS_Subset
  <2> QED BY <2>1, SlowFinite, FS_CardinalityType
<1>3. MaximumActiveTransferJob' = MaximumActiveTransferJob /\ MaximumActiveTransferJob \in Nat
  BY LimitNumbers DEF MaximumActiveTransferJob
<1> QED BY <1>1, <1>2, <1>3 DEF IndTransfer, TransferLimit

LEMMA TransferTick ==
    ASSUME IInv, IndTransfer, Tick
    PROVE  IndTransfer'
<1>1. (ticking' => MayPumpAnother) /\ UNCHANGED <<signal, active>> /\ signal = NoSignal
  BY IdleFacts DEF Tick, IInv
<1>2. Slow' = Slow /\ MaximumActiveTransferJob' = MaximumActiveTransferJob
  BY <1>1 DEF Slow, MaximumActiveTransferJob
<1>3. Starting' => ticking'
  BY <1>1, SignalFacts DEF Starting
<1>4. MayPumpAnother => Cardinality(Slow) < MaximumActiveTransferJob
  BY RoomToStart DEF IInv
<1> QED BY <1>1, <1>2, <1>3, <1>4 DEF IndTransfer, TransferLimit

LEMMA TransferStartNetwork ==
    ASSUME IInv, IndTransfer, NEW i \in Items, StartNetwork(i)
    PROVE  IndTransfer'
<1>1. /\ signal = <<"start", i>> /\ signal' = NoSignal /\ active' = Append(active, i)
      /\ active \in Seq(Items) /\ ~ticking /\ ticking' = ticking
  BY DEF StartNetwork, IInv, TypeOK, IndActive
<1>2. Starting /\ ~Starting'
  BY <1>1, SignalFacts DEF Starting
<1>3. IsFiniteSet(Slow) /\ Cardinality(Slow) \in Nat /\ MaximumActiveTransferJob \in Nat
  BY SlowFinite, LimitNumbers DEF IInv
<1>4. Slow' \in SUBSET (Slow \cup {Len(active) + 1})
  BY <1>1, AppendProperties DEF Slow
<1>5. /\ IsFiniteSet(Slow \cup {Len(active) + 1})
      /\ Cardinality(Slow \cup {Len(active) + 1}) <= Cardinality(Slow) + 1
  BY <1>3, FS_AddElement
<1>6. /\ Cardinality(Slow') <= Cardinality(Slow \cup {Len(active) + 1})
      /\ Cardinality(Slow') \in Nat /\ Cardinality(Slow \cup {Len(active) + 1}) \in Nat
  BY <1>4, <1>5, FS_Subset, FS_CardinalityType
<1>7. Cardinality(Slow) < MaximumActiveTransferJob
  BY <1>2 DEF IndTransfer
<1>8. MaximumActiveTransferJob' = MaximumActiveTransferJob
  BY DEF MaximumActiveTransferJob
<1>9. Cardinality(Slow') <= MaximumActiveTransferJob
  BY <1>3, <1>5, <1>6, <1>7
<1> QED BY <1>2, <1>8, <1>9 DEF IndTransfer, TransferLimit

LEMMA TransferNextRequest ==
    ASSUME IInv, TypeOK', IndTransfer, NEW i \in Items, NextRequest(i)
    PROVE  IndTransfer'
<1> USE DEF IInv
<1>1. PICK sent \in 0 .. toSend[i] :
         /\ sent > 1 => Len(active) - 2 + sent < MaximumActiveTransferJob
         /\ Replace(i, Repeat(i, sent))
  BY DEF NextRequest
<1>2. toSend[i] \in Nat /\ Len(active) \in Nat /\ sent \in Nat /\ active \in Seq(Items)
  BY <1>1 DEF TypeOK
<1>3. Repeat(i, sent) \in Seq({i}) /\ Len(Repeat(i, sent)) = sent
  BY <1>2 DEF Repeat
<1>4. ~Starting'
  <2>1. UNCHANGED <<signal, ticking>> /\ ~ticking /\ signal = NoSignal
    BY IdleFacts DEF NextRequest, callVars
  <2> QED BY <2>1, SignalFacts DEF Starting
<1>5. /\ Cardinality(Slow) \in Nat /\ MaximumActiveTransferJob \in Nat
      /\ MaximumActiveTransferJob' = MaximumActiveTransferJob
  BY SlowFinite, LimitNumbers DEF MaximumActiveTransferJob
<1>6. /\ IsFiniteSet(1 .. Len(active')) /\ Cardinality(1 .. Len(active')) = Len(active')
      /\ Slow' \in SUBSET (1 .. Len(active')) /\ Len(active') \in Nat
  <2>1. Len(active') \in Nat /\ Slow' \in SUBSET (1 .. Len(active'))
    BY DEF TypeOK, Slow
  <2> QED BY <2>1, CountTo
<1>7. Cardinality(Slow') \in Nat /\ Cardinality(Slow') <= Len(active')
  BY <1>6, FS_Subset, FS_CardinalityType
<1>8. Cardinality(Slow') <= MaximumActiveTransferJob
  <2>1. CASE sent <= 1
    <3>1. Cardinality(Slow') <= Cardinality(Slow)
      BY <1>1, <1>3, <2>1, ReplaceSlow
    <3> QED BY <1>5, <1>7, <3>1 DEF IndTransfer, TransferLimit
  <2>2. CASE sent > 1
    <3>1. Len(active') = Len(active) - 1 + sent
      BY <1>1, <1>3, <1>2, ReplaceFacts
    <3>2. Len(active') <= MaximumActiveTransferJob
      BY <1>1, <1>2, <1>5, <2>2, <3>1
    <3> QED BY <1>5, <1>6, <1>7, <3>2
  <2> QED BY <1>2, <2>1, <2>2
<1> QED BY <1>4, <1>5, <1>8 DEF IndTransfer, TransferLimit

LEMMA NextTransfer == IInv /\ IndTransfer /\ [Next]_vars => IndTransfer'
<1> SUFFICES ASSUME IInv, IndTransfer, [Next]_vars PROVE IndTransfer'
  OBVIOUS
<1>0. TypeOK /\ TypeOK'
  BY NextTypeOK DEF IInv
<1>1. CASE Tick
  BY <1>1, TransferTick
<1>2. CASE ReleasePropagator
  <2>1. active' = <<>> /\ UNCHANGED <<ticking, signal>> /\ ~ticking /\ signal = NoSignal
    BY <1>2, IdleFacts DEF ReleasePropagator, callVars, IInv
  <2>2. Slow' = {} /\ ~Starting'
    BY <2>1, SignalFacts DEF Slow, Starting
  <2>3. Cardinality(Slow') = 0
    BY <2>2, FS_EmptySet
  <2>4. MaximumActiveTransferJob' = MaximumActiveTransferJob /\ 0 <= MaximumActiveTransferJob
    BY LimitNumbers DEF MaximumActiveTransferJob
  <2> QED BY <2>2, <2>3, <2>4 DEF IndTransfer, TransferLimit
<1>3. ASSUME NEW i \in Items, Step(i) PROVE IndTransfer'
  <2>1. ASSUME NEW status \in Statuses,
               StartDone(i, status) \/ NetworkDone(i, status) \/ CheckDone(i, status)
        PROVE  IndTransfer'
    <3>1. ticking' = ticking /\ signal' = <<"job", i>>
      BY <2>1 DEF StartDone, NetworkDone, CheckDone, Done
    <3>2. UNCHANGED active \/ Replace(i, <<>>)
      BY <2>1 DEF StartDone, NetworkDone, CheckDone
    <3>3. Starting' => Starting
      BY <3>1, NoNewStart, SignalFacts
    <3> QED BY <1>0, <3>2, <3>3, TransferKept
  <2>2. ASSUME CancelItem(i) PROVE IndTransfer'
    <3>1. ticking' = ticking /\ signal' = <<"job", i>> /\ Replace(i, <<>>)
      BY <2>2 DEF CancelItem, Done
    <3>2. Starting' => Starting
      BY <3>1, NoNewStart, SignalFacts
    <3> QED BY <1>0, <3>1, <3>2, TransferKept
  <2>3. ASSUME \/ DropEntry(i) \/ GoOffline(i) \/ PermissionLost(i)
               \/ CancelUpload(i) \/ Swallowed(i)
        PROVE  IndTransfer'
    <3>1. UNCHANGED <<ticking, signal>> /\ (UNCHANGED active \/ Replace(i, <<>>))
      BY <2>3 DEF DropEntry, GoOffline, PermissionLost, CancelUpload, Swallowed, callVars
    <3> QED BY <1>0, <3>1, NoNewStart, TransferKept
  <2> QED BY <1>0, <1>3, <2>1, <2>2, <2>3, TransferStartNetwork, TransferNextRequest DEF Step
<1>4. ASSUME UNCHANGED active, Starting' => Starting PROVE IndTransfer'
  BY <1>0, <1>4, TransferKept
<1>5. ASSUME NEW c \in Comps, AskStarts(c) \/ AskPasses(c) PROVE IndTransfer'
  BY <1>4, <1>5 DEF AskStarts, AskPasses, Starting
<1>6. ASSUME UNCHANGED active, ticking' => ticking, \A i \in Items : signal' # <<"start", i>>
      PROVE  IndTransfer'
  BY <1>4, <1>6, NoNewStart
<1>7. ASSUME NEW c \in Comps, FinalizeComposite(c) PROVE IndTransfer'
  BY <1>6, <1>7, SignalFacts DEF FinalizeComposite
<1>8. ASSUME NEW j \in Jobs, SubJobFinished(j) PROVE IndTransfer'
  BY <1>6, <1>8, SignalFacts DEF SubJobFinished
<1>9. ASSUME NEW d \in Dirs, FirstJobFinished(d) \/ SubJobsFinished(d) PROVE IndTransfer'
  BY <1>6, <1>9, SignalFacts DEF FirstJobFinished, SubJobsFinished
<1>10. CASE RootSubJobsFinished \/ DirDeletionJobsFinished
  BY <1>6, <1>10, SignalFacts DEF RootSubJobsFinished, DirDeletionJobsFinished
<1>11. CASE UserAbort \/ AbortEvent \/ AbortFinished \/ AbortTimeout \/ AskEnds \/ UNCHANGED vars
  <2>1. UNCHANGED <<active, signal>> /\ (ticking' => ticking)
    BY <1>11 DEF UserAbort, AbortEvent, AbortFinished, AbortTimeout, AskEnds, callVars, vars
  <2> QED BY <1>4, <2>1, NoNewStart
<1> QED
  BY <1>1, <1>2, <1>3, <1>5, <1>7, <1>8, <1>9, <1>10, <1>11 DEF Next, Released

LEMMA InitTransfer == Init => IndTransfer
<1> SUFFICES ASSUME Init PROVE IndTransfer
  OBVIOUS
<1>1. Slow = {} /\ ~Starting
  BY SignalFacts DEF Init, Slow, Starting
<1>2. Cardinality(Slow) = 0
  BY <1>1, FS_EmptySet
<1> QED BY <1>1, <1>2, LimitNumbers DEF IndTransfer, TransferLimit

\* The inductive invariant of all three: the lists, the transfers and the end.
THEOREM EndsInductive == Spec => []IInvEnds
<1>1. Init => IInv /\ Ends /\ IndTransfer
  BY InitIInv, InitEnds, InitTransfer
<1>2. IInv /\ Ends /\ IndTransfer /\ [Next]_vars => (IInv /\ Ends /\ IndTransfer)'
  BY NextIInv, NextEnds, NextTransfer
<1>3. IInv /\ Ends /\ IndTransfer => IInvEnds
  BY DEF Ends, IInvEnds
<1> QED BY <1>1, <1>2, <1>3, PTL DEF Spec

\* The jobs that use bandwidth stay within the limit for transfers, though quick jobs
\* make the scheduler look past it and uploads send chunks in parallel.
\* (OwncloudPropagator::scheduleNextJobImpl, PropagateUploadFileV1::startNextChunk)
THEOREM TransfersLimited == Spec => []TransferLimit
<1>1. IInvEnds => TransferLimit
  BY DEF IInvEnds, IndTransfer
<1> QED BY <1>1, EndsInductive, PTL

\* The list of active jobs never outgrows the hard limit.
\* (OwncloudPropagator::scheduleNextJobImpl, hardMaximumActiveJob)
THEOREM LimitHolds == Spec => []ParallelLimit
<1>1. IInvEnds => ParallelLimit
  BY DEF IInvEnds, IndLimit, ParallelLimit
<1> QED BY <1>1, EndsInductive, PTL

\* Below a finished composite nothing runs, whatever failed.
LEMMA NothingRunsBelow ==
    ASSUME IInv, NEW c \in Comps, cstate[c] = "Finished"
    PROVE  \A j \in Under(c) : state[j] # "Running"
<1> USE TreeFacts DEF IInv, IndTree
<1> DEFINE Bad == {j \in Under(c) : state[j] = "Running"}
<1> SUFFICES ASSUME Bad # {} PROVE FALSE
  OBVIOUS
<1>1. PICK b \in Bad : \A x \in Bad : Turn[x] <= Turn[b]
  <2>1. Bad \in SUBSET Under(c)
    OBVIOUS
  <2> HIDE DEF Bad
  <2> QED BY <2>1, LatestJob
<1> DEFINE h == Holder[b]
<1>2. /\ b \in Jobs /\ h \in Comps
      /\ b \in Kids(h) \/ (h \in Dirs /\ b = First[h] /\ b # NoItem)
      /\ \/ h = c
         \/ h \in Under(c) /\ h \in Dirs /\ Turn[b] < Turn[h] /\ b \in Under(h)
  BY BelowFacts
<1>3. state[b] = "Running"
  OBVIOUS
<1> HIDE DEF h
<1>4. cstate[h] # "Finished"
  <2>1. CASE b \in Kids(h)
    BY <1>2, <1>3, <2>1 DEF IndComposite
  <2>2. CASE h \in Dirs /\ b = First[h] /\ b # NoItem
    BY <1>3, <2>2 DEF IndFirst
  <2> QED BY <1>2, <2>1, <2>2
<1>5. h \in Under(c) /\ h \in Dirs /\ Turn[b] < Turn[h] /\ h \in Jobs
  BY <1>2, <1>4
<1>6. h \notin Bad
  <2>1. Turn[b] \in Nat /\ Turn[h] \in Nat
    BY <1>2, <1>5, TreeAssumption
  <2> QED BY <1>1, <1>5, <2>1
<1>7. state[h] # "NotYetStarted"
  BY <1>2, <1>3, <1>5 DEF IndStarted, h
<1>8. state[h] = "Finished"
  BY <1>5, <1>6, <1>7 DEF TypeOK, JobStates
<1>9. cstate[h] = "NotYetStarted" /\ First[h] # NoItem /\ outcome[h] = outcome[First[h]]
  BY <1>4, <1>5, <1>8 DEF IndDir
<1>10. b = First[h]
  BY <1>2, <1>3, <1>9 DEF IndStarted, Kids, h
<1>11. outcome[h] # "NoStatus" /\ outcome[b] = "NoStatus"
  BY <1>2, <1>3, <1>5, <1>8 DEF IndOutcome
<1> QED BY <1>9, <1>10, <1>11

\* Unless it is aborted, propagation ends under no running job.
\* (PropagateRootDirectory::slotSubJobsFinished, SyncEngine::finalize)
THEOREM EndIsQuiet == Spec => []QuietEnd
<1>1. IInvEnds => QuietEnd
  <2> SUFFICES ASSUME IInvEnds, finished # "no", abortCalls = 0, NEW j \in Jobs
               PROVE  state[j] # "Running"
    BY DEF QuietEnd
  <2> USE DEF IInvEnds, IInv, IndTree
  <2>1. /\ cstate[Subs] = "Finished"
        /\ cstate[Deletions] \in {"NotYetStarted", "Finished"}
    BY DEF IndEnd, IndRoot, TypeOK
  <2>2. j \in Under(Subs) \/ j \in Under(Deletions)
    BY TreeAssumption
  <2>3. CASE j \in Under(Subs)
    BY <2>1, <2>3, NothingRunsBelow, TreeFacts
  <2>4. CASE j \in Under(Deletions) /\ cstate[Deletions] = "Finished"
    BY <2>4, NothingRunsBelow, TreeFacts
  <2>5. CASE j \in Under(Deletions) /\ cstate[Deletions] = "NotYetStarted"
    BY <2>5 DEF IndStarted
  <2> QED BY <2>1, <2>2, <2>3, <2>4, <2>5
<1> QED BY <1>1, EndsInductive, PTL
=============================================================================
