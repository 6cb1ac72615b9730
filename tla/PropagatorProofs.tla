-------------------------- MODULE PropagatorProofs --------------------------
(***************************************************************************)
(* Proofs about module Propagator, for every tree of jobs and every limit. *)
(***************************************************************************)
EXTENDS Propagator, TLAPS, SequenceTheorems, WellFoundedInduction

-----------------------------------------------------------------------------
(* The tree and the two lists.                                             *)

\* What the assumptions say of single jobs.
LEMMA TreeFacts ==
    /\ Jobs = Items \cup Dirs
    /\ Comps = Dirs \cup {Subs, Deletions}
    /\ Root \notin Jobs /\ Root \notin Comps
    /\ Subs \notin Jobs /\ Deletions \notin Jobs /\ Subs # Deletions
    /\ Items \cap Dirs = {}
    /\ \A j \in Jobs : Holder[j] \in Comps
    /\ FirstJobs \subseteq Items
    /\ \A d \in Dirs : First[d] # NoItem =>
           First[d] \in FirstJobs /\ First[d] \in Items /\ Holder[First[d]] = d
    /\ \A d \in Dirs : First[d] = NoItem \/ First[d] \in Items
    /\ NoItem \notin Jobs
    /\ \A c \in Comps : \A j \in Kids(c) : j \in Jobs /\ j \notin FirstJobs /\ Holder[j] = c
BY TreeAssumption DEF Jobs, Comps, FirstJobs, Kids

\* Removing an entry of job i and appending entries of job i leaves a list of
\* items, and puts no other job in it.
LEMMA ReplaceFacts ==
    ASSUME active \in Seq(Items), NEW i \in Items, NEW new \in Seq({i}), Replace(i, new)
    PROVE  /\ active' \in Seq(Items)
           /\ Len(active') = Len(active) - 1 + Len(new)
           /\ InFlight(i)
           /\ \A k \in Items : InFlight(k)' => InFlight(k)
<1>1. PICK n \in Entries(i) :
          active' = SubSeq(active, 1, n - 1) \o SubSeq(active, n + 1, Len(active)) \o new
  BY DEF Replace
<1>2. n \in 1 .. Len(active) /\ active[n] = i
  BY DEF Entries
<1>3. InFlight(i)
  BY <1>2 DEF InFlight
<1> DEFINE pre == SubSeq(active, 1, n - 1)
           post == SubSeq(active, n + 1, Len(active))
<1>4. /\ pre \in Seq(Items) /\ Len(pre) = n - 1
      /\ \A m \in 1 .. n - 1 : pre[m] = active[m]
  BY <1>2, SMT
<1>5. /\ post \in Seq(Items) /\ Len(post) = Len(active) - n
      /\ \A m \in 1 .. Len(active) - n : post[m] = active[m + n]
  BY <1>2, SMT
<1>6. new \in Seq(Items) /\ \A m \in 1 .. Len(new) : new[m] = i
  BY SMT
<1>0. /\ Len(active) \in Nat /\ DOMAIN active = 1 .. Len(active)
      /\ Len(new) \in Nat /\ Len(pre) \in Nat /\ Len(post) \in Nat
  BY <1>2, <1>4, <1>5, <1>6, SMT
<1> HIDE DEF pre, post
<1>7. active' = (pre \o post) \o new
  BY <1>1 DEF pre, post
<1>8. active' \in Seq(Items) /\ Len(active') = Len(active) - 1 + Len(new)
  <2>0. pre \in Seq(Items) /\ post \in Seq(Items)
    BY <1>4, <1>5
  <2>1. pre \o post \in Seq(Items) /\ Len(pre \o post) = Len(pre) + Len(post)
    BY <2>0, ConcatProperties
  <2>2. active' \in Seq(Items) /\ Len(active') = Len(pre \o post) + Len(new)
    BY <2>1, <1>6, <1>7
  <2> QED BY <1>0, <1>2, <1>4, <1>5, <2>1, <2>2
<1>9. ASSUME NEW k \in Items, InFlight(k)'
      PROVE  InFlight(k)
  <2>1. PICK m \in DOMAIN active' : active'[m] = k
    BY <1>9 DEF InFlight
  <2>2. m \in 1 .. Len(pre) + Len(post) + Len(new)
    BY <2>1, <1>4, <1>5, <1>6, <1>7
  <2>3. CASE m <= Len(pre)
    <3>1. active'[m] = pre[m]
      BY <2>2, <2>3, <1>4, <1>5, <1>6, <1>7
    <3>2. m \in DOMAIN active /\ active[m] = k
      BY <3>1, <2>1, <2>2, <2>3, <1>4, <1>5, <1>6, <1>7, <1>8, <1>2, <1>0
    <3> QED BY <3>2 DEF InFlight
  <2>4. CASE m > Len(pre) /\ m <= Len(pre) + Len(post)
    <3>1. active'[m] = post[m - Len(pre)]
      BY <2>2, <2>4, <1>4, <1>5, <1>6, <1>7
    <3>2. m - Len(pre) \in 1 .. Len(active) - n /\ m - Len(pre) + n = m + 1
      BY <2>2, <2>4, <1>4, <1>5, <1>6, <1>2, <1>0
    <3>3. post[m - Len(pre)] = active[m - Len(pre) + n]
      BY <3>2, <1>5
    <3>4. m + 1 \in DOMAIN active
      BY <2>2, <2>4, <1>4, <1>5, <1>6, <1>2, <1>0
    <3> QED BY <3>1, <3>2, <3>3, <3>4, <2>1 DEF InFlight
  <2>5. CASE m > Len(pre) + Len(post)
    <3>1. active'[m] = new[m - (Len(pre) + Len(post))]
      BY <2>2, <2>5, <1>4, <1>5, <1>6, <1>7
    <3>2. k = i
      BY <3>1, <2>1, <2>2, <2>5, <1>4, <1>5, <1>6, <1>7, <1>8, <1>0
    <3> QED BY <3>2, <1>3
  <2> QED BY <2>2, <2>3, <2>4, <2>5, <1>4, <1>5, <1>6, <1>7, <1>8, <1>0
<1> QED BY <1>3, <1>8, <1>9

\* The queued calls and the signals are told apart.
LEMMA EventFacts ==
    /\ Abort \in Events /\ Release \in Events
    /\ \A c \in Comps : Finalize(c) \in Events
    /\ Abort # Release
    /\ \A c, k : Finalize(c) = Finalize(k) => c = k
    /\ \A c : Finalize(c) # Abort /\ Finalize(c) # Release
BY DEF Events, Finalize, Abort, Release

LEMMA SignalFacts ==
    /\ NoSignal \in Signals
    /\ \A i \in Items : <<"start", i>> \in Signals
    /\ \A j \in Jobs : <<"job", j>> \in Signals
    /\ \A c \in Comps : <<"comp", c>> \in Signals
    /\ \A i, k : <<"start", i>> = <<"start", k>> => i = k
    /\ \A j, k : <<"job", j>> = <<"job", k>> => j = k
    /\ \A c, k : <<"comp", c>> = <<"comp", k>> => c = k
    /\ \A i, j, c : /\ <<"job", j>> # <<"comp", c>>
                    /\ <<"start", i>> # <<"job", j>> /\ <<"start", i>> # <<"comp", c>>
    /\ \A j : <<"start", j>> # NoSignal /\ <<"job", j>> # NoSignal /\ <<"comp", j>> # NoSignal
BY DEF Signals, NoSignal

LEMMA QueueAppend ==
    ASSUME NEW q \in Seq(Events), NEW e \in Events
    PROVE  /\ Append(q, e) \in Seq(Events)
           /\ \A x : Awaits(Append(q, e), x) <=> Awaits(q, x) \/ x = e
<1>1. /\ Append(q, e) \in Seq(Events)
      /\ DOMAIN q = 1 .. Len(q) /\ Len(q) \in Nat
      /\ DOMAIN Append(q, e) = 1 .. Len(q) + 1
      /\ \A n \in 1 .. Len(q) : Append(q, e)[n] = q[n]
      /\ Append(q, e)[Len(q) + 1] = e
  BY AppendProperties
<1> DEFINE r == Append(q, e)
<1> HIDE DEF r
<1>2. ASSUME NEW x PROVE Awaits(r, x) <=> Awaits(q, x) \/ x = e
  BY <1>1 DEF Awaits, r
<1> QED BY <1>1, <1>2 DEF r

LEMMA QueueTail ==
    ASSUME NEW q \in Seq(Events), q # <<>>
    PROVE  /\ Tail(q) \in Seq(Events)
           /\ Awaits(q, Head(q))
           /\ \A x : Awaits(Tail(q), x) => Awaits(q, x)
<1>1. /\ Tail(q) \in Seq(Events)
      /\ DOMAIN q = 1 .. Len(q) /\ Len(q) \in Nat /\ Len(q) > 0
      /\ DOMAIN Tail(q) = 1 .. Len(q) - 1
      /\ \A n \in 1 .. Len(q) - 1 : Tail(q)[n] = q[n + 1]
      /\ Head(q) = q[1]
  BY HeadTailProperties, EmptySeq
<1> DEFINE t == Tail(q)
<1> HIDE DEF t
<1>2. Awaits(q, Head(q))
  BY <1>1 DEF Awaits
<1>3. ASSUME NEW n \in DOMAIN t
      PROVE  n + 1 \in DOMAIN q /\ t[n] = q[n + 1]
  BY <1>1 DEF t
<1>4. ASSUME NEW x, Awaits(t, x) PROVE Awaits(q, x)
  BY <1>3, <1>4 DEF Awaits
<1> QED BY <1>1, <1>2, <1>4 DEF t
-----------------------------------------------------------------------------
(* Types.                                                                  *)

LEMMA InitTypeOK == Init => TypeOK
<1> SUFFICES ASSUME Init PROVE TypeOK
  OBVIOUS
<1>1. active \in Seq(Items) /\ posted \in Seq(Events)
  BY EmptySeq DEF Init
<1>2. toSend \in [Items -> Nat]
  BY JobAssumption DEF Init
<1> QED BY <1>1, <1>2, SignalFacts, TreeFacts DEF Init, TypeOK, JobStates, Statuses

\* The two calls several actions make.
LEMMA EmitFinishedType ==
    ASSUME TypeOK, NEW status \in {"success", "failure"}, EmitFinished(status)
    PROVE  /\ finished' \in {"no", "success", "failure"}
           /\ posted' \in Seq(Events)
BY QueueAppend, EventFacts DEF TypeOK, EmitFinished

LEMMA AbortType ==
    ASSUME TypeOK, NEW status, AbortIfFatal(status)
    PROVE  abortCalls' \in Nat /\ abortTimers' \in Nat /\ posted' \in Seq(Events)
<1>1. Append(posted, Abort) \in Seq(Events)
  BY QueueAppend, EventFacts DEF TypeOK
<1>2. CASE status = "Fatal"
  <2>1. /\ abortCalls' = abortCalls + 1 /\ abortTimers' = abortTimers + 1
        /\ posted' = Append(posted, Abort)
    BY <1>2 DEF AbortIfFatal, CallAbort
  <2>2. abortCalls \in Nat /\ abortTimers \in Nat
    BY DEF TypeOK
  <2> QED BY <1>1, <2>1, <2>2
<1>3. CASE status # "Fatal"
  BY <1>3 DEF TypeOK, AbortIfFatal
<1> QED BY <1>2, <1>3

LEMMA DoneType ==
    ASSUME TypeOK, NEW i \in Items, NEW status \in Statuses, Done(i, status)
    PROVE  /\ state' \in [Jobs \cup {Root} -> JobStates]
           /\ outcome' \in [Jobs -> Statuses \cup {"NoStatus"}]
           /\ signal' \in Signals
           /\ offline' \subseteq Items
BY TreeFacts, SignalFacts DEF TypeOK, Done, JobStates

\* What a sweep cancels is under way.
LEMMA SweepFacts ==
    ASSUME TypeOK, Sweep
    PROVE  /\ cancelling' \subseteq Items /\ cancelling' \subseteq UnderWay
           /\ aborting' \subseteq Uploads
<1>1. PICK reached \in SUBSET (RunningItems \cap Uploads) :
          /\ cancelling' \in
                 SUBSET ((UnderWay \ Uploads) \cup ((reached \cap UnderWay) \ aborting))
          /\ aborting' = aborting \cup reached
  BY DEF Sweep
<1>2. cancelling' \subseteq UnderWay
  BY <1>1
<1>3. UnderWay \subseteq Items
  BY DEF UnderWay
<1> QED BY <1>1, <1>2, <1>3 DEF TypeOK

LEMMA NextTypeOK == TypeOK /\ [Next]_vars => TypeOK'
<1> SUFFICES ASSUME TypeOK, [Next]_vars PROVE TypeOK'
  OBVIOUS
<1> USE TreeFacts, SignalFacts
<1>1. CASE Tick
  BY <1>1 DEF Tick, TypeOK, jobVars, netVars, abortVars, endVars
<1>2. CASE AskEnds
  BY <1>2 DEF AskEnds, TypeOK, jobVars, netVars, abortVars, endVars
<1>3. ASSUME NEW c \in Comps, AskStarts(c) PROVE TypeOK'
  <2>1. PICK j \in Todo(c) :
           \/ /\ j \in Items
              /\ state' = [state EXCEPT ![j] = "Running"]
              /\ Launch(j)
           \/ /\ j \in Dirs /\ First[j] # NoItem
              /\ state' = [state EXCEPT ![j] = "Running", ![First[j]] = "Running"]
              /\ Launch(First[j])
           \/ /\ j \in Dirs /\ First[j] = NoItem
              /\ state' = [state EXCEPT ![j] = "Running"]
              /\ UNCHANGED <<signal, ticking, jobScheduled>>
    BY <1>3 DEF AskStarts
  <2>2. j \in Jobs
    BY DEF Todo, Kids
  <2>3. state' \in [Jobs \cup {Root} -> JobStates]
    <3>1. /\ state \in [Jobs \cup {Root} -> JobStates] /\ "Running" \in JobStates
          /\ j \in Jobs /\ (j \in Dirs /\ First[j] # NoItem => First[j] \in Jobs)
      BY <2>2 DEF TypeOK, JobStates
    <3> QED BY <2>1, <3>1
  <2>4. signal' \in Signals /\ jobScheduled' \in BOOLEAN /\ ticking' \in BOOLEAN
    <3>1. j \in Items \/ (j \in Dirs /\ First[j] # NoItem => First[j] \in Items)
      BY <2>2
    <3>2. signal \in Signals /\ jobScheduled \in BOOLEAN /\ ticking \in BOOLEAN
      BY DEF TypeOK
    <3>3. ASSUME NEW i \in Items, Launch(i)
          PROVE  signal' \in Signals /\ jobScheduled' \in BOOLEAN /\ ticking' \in BOOLEAN
      BY <3>3 DEF Launch
    <3>4. CASE j \in Items /\ Launch(j)
      BY <3>3, <3>4
    <3>5. CASE j \in Dirs /\ First[j] # NoItem /\ Launch(First[j])
      BY <3>1, <3>3, <3>5
    <3>6. CASE UNCHANGED <<signal, ticking, jobScheduled>>
      BY <3>2, <3>6
    <3> QED BY <2>1, <3>4, <3>5, <3>6
  <2> QED
    BY <1>3, <2>3, <2>4 DEF AskStarts, TypeOK, JobStates, netVars, abortVars, endVars
<1>4. ASSUME NEW c \in Comps, AskPasses(c) PROVE TypeOK'
  <2>1. posted' \in Seq(Events)
    BY <1>4, QueueAppend, EventFacts DEF AskPasses, AfterPassing, TypeOK
  <2> QED BY <1>4, <2>1 DEF AskPasses, TypeOK, JobStates, netVars, abortVars, endVars
<1>5. ASSUME NEW c \in Comps, FinalizeComposite(c) PROVE TypeOK'
  <2>1. posted' \in Seq(Events)
    BY <1>5, QueueTail DEF FinalizeComposite, TypeOK
  <2> QED BY <1>5, <2>1 DEF FinalizeComposite, TypeOK, JobStates, netVars, abortVars, endVars
<1>6. ASSUME NEW i \in Items, NEW status \in Statuses, StartDone(i, status) PROVE TypeOK'
  <2>1. abortCalls' \in Nat /\ abortTimers' \in Nat /\ posted' \in Seq(Events)
    BY <1>6, AbortType DEF StartDone
  <2> QED BY <1>6, <2>1, DoneType DEF StartDone, Done, TypeOK, endVars
<1>7. ASSUME NEW i \in Items, NEW status \in Statuses, NetworkDone(i, status) PROVE TypeOK'
  <2>1. abortCalls' \in Nat /\ abortTimers' \in Nat /\ posted' \in Seq(Events)
    BY <1>7, AbortType DEF NetworkDone
  <2>2. active' \in Seq(Items)
    BY <1>7, ReplaceFacts, EmptySeq DEF NetworkDone, TypeOK
  <2> QED BY <1>7, <2>1, <2>2, DoneType DEF NetworkDone, Done, TypeOK, endVars
<1>8. ASSUME NEW i \in Items, NEW status \in Statuses, CheckDone(i, status) PROVE TypeOK'
  <2>1. abortCalls' \in Nat /\ abortTimers' \in Nat /\ posted' \in Seq(Events)
    BY <1>8, AbortType DEF CheckDone
  <2> QED BY <1>8, <2>1, DoneType DEF CheckDone, Done, TypeOK, endVars
<1>9. ASSUME NEW i \in Items, StartNetwork(i) PROVE TypeOK'
  <2>1. active' \in Seq(Items)
    BY <1>9, AppendProperties DEF StartNetwork, TypeOK
  <2> QED BY <1>9, <2>1 DEF StartNetwork, TypeOK, jobVars, netVars, abortVars, endVars
<1>10. ASSUME NEW i \in Items, NextRequest(i) PROVE TypeOK'
  <2>1. PICK sent \in 0 .. toSend[i] :
            /\ Replace(i, Repeat(i, sent))
            /\ toSend' = [toSend EXCEPT ![i] = ToSendAfter(i, sent)]
    BY <1>10 DEF NextRequest
  <2>2. toSend[i] \in Nat
    BY DEF TypeOK
  <2>3. toSend' \in [Items -> Nat]
    BY <2>1, <2>2 DEF TypeOK, ToSendAfter
  <2>4. Repeat(i, sent) \in Seq({i})
    BY <2>2 DEF Repeat
  <2>5. active' \in Seq(Items)
    BY <2>1, <2>4, ReplaceFacts DEF TypeOK
  <2>6. jobScheduled' \in BOOLEAN
    BY <1>10 DEF NextRequest, TypeOK
  <2> QED BY <1>10, <2>3, <2>5, <2>6 DEF NextRequest, TypeOK, jobVars, callVars, abortVars, endVars
<1>11. ASSUME NEW i \in Items, DropEntry(i) \/ GoOffline(i) \/ Swallowed(i) PROVE TypeOK'
  <2>1. active' \in Seq(Items)
    BY <1>11, ReplaceFacts, EmptySeq DEF DropEntry, GoOffline, Swallowed, TypeOK
  <2>2. offline' \subseteq Items
    BY <1>11 DEF DropEntry, GoOffline, Swallowed, TypeOK, netVars
  <2> QED BY <1>11, <2>1, <2>2
          DEF DropEntry, GoOffline, Swallowed, TypeOK, jobVars, netVars, callVars, abortVars, endVars
<1>12. ASSUME NEW i \in Items, PermissionLost(i) PROVE TypeOK'
  BY <1>12 DEF PermissionLost, TypeOK, jobVars, callVars, abortVars, endVars
<1>13. ASSUME NEW i \in Items, CancelItem(i) PROVE TypeOK'
  <2>1. abortCalls' \in Nat /\ abortTimers' \in Nat /\ posted' \in Seq(Events)
    BY <1>13, AbortType DEF CancelItem
  <2>2. active' \in Seq(Items)
    BY <1>13, ReplaceFacts, EmptySeq DEF CancelItem, TypeOK
  <2>3. "Fatal" \in Statuses
    BY DEF Statuses
  <2> QED BY <1>13, <2>1, <2>2, <2>3, DoneType DEF CancelItem, Done, TypeOK, endVars
<1>14. ASSUME NEW i \in Items, CancelUpload(i) PROVE TypeOK'
  <2>1. active' \in Seq(Items)
    BY <1>14, ReplaceFacts, EmptySeq DEF CancelUpload, TypeOK
  <2>2. cancelling' \subseteq Items /\ offline' \subseteq Items
    BY <1>14 DEF CancelUpload, TypeOK
  <2> QED BY <1>14, <2>1, <2>2 DEF CancelUpload, TypeOK, jobVars, abortVars, endVars
<1>15. ASSUME NEW j \in Jobs, SubJobFinished(j) PROVE TypeOK'
  <2>1. Holder[j] \in Comps
    OBVIOUS
  <2>2. hasError' \in [Comps -> BOOLEAN]
    BY <1>15, <2>1 DEF SubJobFinished, TypeOK, FailsComposite
  <2>3. /\ cstate' \in [Comps -> JobStates]
        /\ signal' \in Signals
        /\ jobScheduled' \in BOOLEAN
    <3>1. CASE Drained(Holder[j])
      <4>1. cstate' \in [Comps -> JobStates] /\ signal' \in Signals
        <5>1. /\ cstate' = [cstate EXCEPT ![Holder[j]] = "Finished"]
              /\ signal' \in {NoSignal, <<"comp", Holder[j]>>}
          BY <1>15, <3>1 DEF SubJobFinished
        <5> QED BY <2>1, <5>1 DEF TypeOK, JobStates
      <4>2. jobScheduled' \in BOOLEAN
        BY <1>15, <3>1 DEF SubJobFinished, TypeOK
      <4> QED BY <4>1, <4>2
    <3>2. CASE ~Drained(Holder[j])
      BY <1>15, <3>2 DEF SubJobFinished, TypeOK
    <3> QED BY <3>1, <3>2
  <2> QED BY <1>15, <2>2, <2>3 DEF SubJobFinished, TypeOK, netVars, abortVars, endVars
<1>16. ASSUME NEW d \in Dirs, FirstJobFinished(d) PROVE TypeOK'
  <2>1. First[d] \in Jobs
    BY <1>16 DEF FirstJobFinished
  <2>2. /\ state' \in [Jobs \cup {Root} -> JobStates]
        /\ outcome' \in [Jobs -> Statuses \cup {"NoStatus"}]
    <3>1. CASE outcome[First[d]] # "Success" /\ state[d] # "Finished"
      <4>1. /\ state' = [state EXCEPT ![d] = "Finished"]
            /\ outcome' = [outcome EXCEPT ![d] = outcome[First[d]]]
        BY <1>16, <3>1 DEF FirstJobFinished
      <4> QED BY <2>1, <4>1 DEF TypeOK, JobStates
    <3>2. CASE ~(outcome[First[d]] # "Success" /\ state[d] # "Finished")
      BY <1>16, <3>2 DEF FirstJobFinished, TypeOK
    <3> QED BY <3>1, <3>2
  <2>3. signal' \in Signals /\ jobScheduled' \in BOOLEAN
    <3>1. CASE outcome[First[d]] # "Success" /\ state[d] # "Finished"
      BY <1>16, <3>1 DEF FirstJobFinished, TypeOK
    <3>2. CASE outcome[First[d]] # "Success" /\ state[d] = "Finished"
      BY <1>16, <3>2 DEF FirstJobFinished, TypeOK
    <3>3. CASE outcome[First[d]] = "Success"
      BY <1>16, <3>3 DEF FirstJobFinished, TypeOK
    <3> QED BY <3>1, <3>2, <3>3
  <2> QED BY <1>16, <2>2, <2>3 DEF FirstJobFinished, TypeOK, netVars, abortVars, endVars
<1>17. ASSUME NEW d \in Dirs, SubJobsFinished(d) PROVE TypeOK'
  <2>1. state' \in [Jobs \cup {Root} -> JobStates] /\ signal' \in Signals
    BY <1>17 DEF SubJobsFinished, TypeOK, JobStates
  <2>2. /\ outcome' \in [Jobs -> Statuses \cup {"NoStatus"}]
        /\ stored' \subseteq Dirs /\ lockedDirs' \subseteq Dirs
    <3>1. /\ \E status \in {"Error", "Success", "Fatal"} :
                outcome' = [outcome EXCEPT ![d] = status]
          /\ stored' = stored \/ stored' = stored \cup {d}
          /\ lockedDirs' = lockedDirs \/ lockedDirs' = lockedDirs \cup {d}
      BY <1>17 DEF SubJobsFinished
    <3> QED BY <3>1 DEF TypeOK, Statuses
  <2> QED BY <1>17, <2>1, <2>2 DEF SubJobsFinished, TypeOK, netVars, abortVars, endVars
<1>18. CASE RootSubJobsFinished
  <2>1. finished' \in {"no", "success", "failure"} /\ posted' \in Seq(Events)
    BY <1>18, EmitFinishedType DEF RootSubJobsFinished, TypeOK
  <2>2. state' \in [Jobs \cup {Root} -> JobStates]
    BY <1>18 DEF RootSubJobsFinished, TypeOK, JobStates
  <2>3. jobScheduled' \in BOOLEAN /\ signal' \in Signals
    BY <1>18 DEF RootSubJobsFinished, TypeOK
  <2> QED BY <1>18, <2>1, <2>2, <2>3 DEF RootSubJobsFinished, TypeOK, netVars, abortVars
<1>19. CASE DirDeletionJobsFinished
  <2>1. finished' \in {"no", "success", "failure"} /\ posted' \in Seq(Events)
    BY <1>19, EmitFinishedType DEF DirDeletionJobsFinished
  <2> QED BY <1>19, <2>1 DEF DirDeletionJobsFinished, TypeOK, JobStates, netVars, abortVars
<1>20. CASE UserAbort
  <2>1. abortCalls' \in Nat /\ abortTimers' \in Nat /\ posted' \in Seq(Events)
    BY <1>20, QueueAppend, EventFacts DEF UserAbort, CallAbort, TypeOK
  <2> QED BY <1>20, <2>1 DEF UserAbort, TypeOK, jobVars, netVars, callVars, endVars
<1>21. CASE AbortEvent
  <2>1. posted' \in Seq(Events)
    BY <1>21, QueueTail DEF AbortEvent, TypeOK
  <2>2. /\ cancelling' \subseteq Items /\ aborting' \subseteq Uploads
        /\ sweep' \in {"no", "due", "open"}
    BY <1>21, SweepFacts DEF AbortEvent
  <2> QED BY <1>21, <2>1, <2>2 DEF AbortEvent, TypeOK, jobVars, endVars
<1>22. CASE AbortFinished
  <2>1. finished' \in {"no", "success", "failure"} /\ posted' \in Seq(Events)
    BY <1>22, EmitFinishedType DEF AbortFinished
  <2> QED BY <1>22, <2>1 DEF AbortFinished, TypeOK, jobVars, netVars, callVars
<1>23. CASE AbortTimeout
  <2>1. finished' \in {"no", "success", "failure"} /\ posted' \in Seq(Events)
    BY <1>23, EmitFinishedType DEF AbortTimeout
  <2>2. cancelling' \subseteq Items /\ aborting' \subseteq Uploads /\ abortTimers' \in Nat
    BY <1>23, SweepFacts DEF AbortTimeout, TypeOK
  <2> QED BY <1>23, <2>1, <2>2 DEF AbortTimeout, TypeOK, jobVars
<1>24. CASE ReleasePropagator
  <2>1. active' \in Seq(Items) /\ posted' \in Seq(Events)
    BY <1>24, EmptySeq DEF ReleasePropagator
  <2> QED BY <1>24, <2>1 DEF ReleasePropagator, TypeOK, jobVars, netVars, callVars
<1>25. CASE UNCHANGED vars
  BY <1>25 DEF vars, jobVars, netVars, callVars, abortVars, endVars, TypeOK
<1> QED
  BY <1>1, <1>2, <1>3, <1>4, <1>5, <1>6, <1>7, <1>8, <1>9, <1>10, <1>11, <1>15, <1>16,
     <1>17, <1>18, <1>19, <1>20, <1>21, <1>22, <1>23, <1>24, <1>25, <1>12, <1>13,
     <1>14
     DEF Next, Step, Released

\* Every variable keeps its type. (owncloudpropagator.h)
THEOREM Types == Spec => []TypeOK
BY InitTypeOK, NextTypeOK, PTL DEF Spec
-----------------------------------------------------------------------------
(* The inductive invariant.                                                *)

LEMMA InitIInv == Init => IInv
<1> SUFFICES ASSUME Init PROVE IInv
  OBVIOUS
<1> USE TreeFacts
<1>1. TypeOK
  BY InitTypeOK
<1>2. /\ \A j \in Jobs : state[j] = "NotYetStarted" /\ outcome[j] = "NoStatus"
      /\ \A c \in Comps : cstate[c] = "NotYetStarted"
      /\ state[Root] = "Running"
      /\ signal = NoSignal /\ ticking = FALSE /\ stored = {} /\ cancelling \cup offline = {}
      /\ finished = "no"
      /\ \A e : ~Awaits(posted, e)
      /\ \A i : ~InFlight(i)
  BY DEF Init, Awaits, InFlight
<1>3. IndTree
  BY <1>2, SignalFacts DEF IndTree, IndOutcome, IndStarted, IndFirst, IndDir, IndComposite,
     IndSignal, IndRoot, IndStored, Under
<1>4. IndPosted /\ IndActive
  BY <1>2, SignalFacts DEF IndPosted, IndActive
<1> QED BY <1>1, <1>3, <1>4 DEF IInv

\* A step that leaves the jobs alone, and what emits finished().
LEMMA QuietTree ==
    ASSUME IndTree, UNCHANGED jobVars,
           \A j \in Jobs : signal' = <<"job", j>> <=> signal = <<"job", j>>,
           \A c \in Comps : signal' = <<"comp", c>> <=> signal = <<"comp", c>>,
           ticking' => signal' = NoSignal /\ cancelling' = {} /\ state[Root] = "Running",
           finished' = "success" => finished = "success"
    PROVE  IndTree'
<1> USE DEF jobVars
<1>1. IndOutcome' /\ IndStarted' /\ IndStored'
  BY DEF IndTree, IndOutcome, IndStarted, IndStored
<1>2. \A d \in Dirs : First[d] # NoItem =>
          (signal' = <<"job", First[d]>> <=> signal = <<"job", First[d]>>)
  BY TreeFacts
<1>3. \A d \in Dirs : signal' = <<"comp", d>> <=> signal = <<"comp", d>>
  BY TreeFacts
<1>4. IndFirst'
  BY <1>2 DEF IndTree, IndFirst
<1>5. IndDir'
  BY <1>3 DEF IndTree, IndDir
<1>6. IndComposite'
  <2>1. \A c \in Comps : \A j \in Kids(c) : signal' = <<"job", j>> <=> signal = <<"job", j>>
    BY TreeFacts
  <2> QED BY <2>1 DEF IndTree, IndComposite, Kids
<1>7. IndSignal'
  <2>1. ticking' => signal' = NoSignal /\ cancelling' = {} /\ state'[Root] = "Running"
    OBVIOUS
  <2>2. /\ \A j \in Jobs : signal' = <<"job", j>> => state'[j] = "Finished"
        /\ \A c \in Comps : signal' = <<"comp", c>> => cstate'[c] = "Finished"
        /\ \A d \in Dirs : signal' = <<"comp", d>> => state'[d] = "Running"
    BY <1>3 DEF IndTree, IndSignal
  <2> QED BY <2>1, <2>2 DEF IndSignal
<1>8. IndRoot'
  <2>1. signal' = <<"comp", Subs>> <=> signal = <<"comp", Subs>>
    BY TreeFacts
  <2> QED BY <2>1 DEF IndTree, IndRoot
<1> QED BY <1>1, <1>4, <1>5, <1>6, <1>7, <1>8 DEF IndTree

\* A step that posts no finalize(), and leaves no composite with more to do.
LEMMA QuietPosted ==
    ASSUME IndPosted,
           \A c \in Comps : Awaits(posted', Finalize(c)) =>
               /\ Awaits(posted, Finalize(c))
               /\ cstate[c] # "NotYetStarted" => cstate'[c] # "NotYetStarted"
               /\ Drained(c) => Drained(c)'
    PROVE  IndPosted'
BY DEF IndPosted

\* A step that leaves the jobs alone keeps the invariant when it starts no call for
\* a job that does not run.
LEMMA QuietStep ==
    ASSUME IInv, TypeOK', UNCHANGED jobVars,
           \A j \in Jobs : signal' = <<"job", j>> <=> signal = <<"job", j>>,
           \A c \in Comps : signal' = <<"comp", c>> <=> signal = <<"comp", c>>,
           ticking' => signal' = NoSignal /\ cancelling' = {} /\ state[Root] = "Running",
           finished' = "success" => finished = "success",
           \A c \in Comps : Awaits(posted', Finalize(c)) => Awaits(posted, Finalize(c)),
           \A i \in Items : InFlight(i)' => InFlight(i) \/ state[i] = "Running",
           \A i \in cancelling' \cup offline' : state[i] = "Running",
           \A i \in Items : signal' = <<"start", i>> =>
               signal = <<"start", i>> /\ ~InFlight(i)' /\ cancelling' = {} /\ ~ticking'
    PROVE  IInv'
<1> USE DEF IInv
<1>1. IndTree'
  BY QuietTree
<1>2. \A c \in Comps : Drained(c) => Drained(c)'
  BY DEF Drained, Todo, RunningIn, Kids, jobVars
<1>3. IndPosted'
  BY <1>2, QuietPosted DEF jobVars
<1>4. IndActive'
  BY DEF IndActive, jobVars
<1> QED BY <1>1, <1>3, <1>4

\* A running item is done.
LEMMA DoneTree ==
    ASSUME TypeOK, IndTree, NEW i \in Items, NEW status \in Statuses,
           state[i] = "Running", signal = NoSignal \/ signal = <<"start", i>>, ~ticking,
           Done(i, status)
    PROVE  /\ IndTree'
           /\ \A c \in Comps : Drained(c) => Drained(c)'
           /\ \A c \in Comps : cstate'[c] = cstate[c]
           /\ \A x \in Items \ {i} : state'[x] = state[x]
           /\ state'[i] = "Finished"
<1> USE TreeFacts, SignalFacts
<1>1. /\ \A x \in Jobs \cup {Root} : state'[x] = IF x = i THEN "Finished" ELSE state[x]
      /\ \A x \in Jobs : outcome'[x] = IF x = i THEN status ELSE outcome[x]
      /\ signal' = <<"job", i>>
      /\ UNCHANGED <<cstate, hasError, stored, ticking, finished>>
  BY DEF TypeOK, Done, endVars
<1>2. outcome[i] = "NoStatus" /\ status # "NoStatus" /\ i \notin Dirs /\ i # Root
  BY DEF IndTree, IndOutcome, Statuses
<1>3. IndOutcome' /\ IndStarted'
  BY <1>1, <1>2 DEF IndTree, IndOutcome, IndStarted, Under
<1>0. \A x : signal # <<"job", x>> /\ signal # <<"comp", x>>
  OBVIOUS
<1>4. IndFirst'
  BY <1>1, <1>2, <1>0 DEF IndTree, IndFirst
<1>5. IndDir'
  BY <1>1, <1>2, <1>0 DEF IndTree, IndDir, IndOutcome
<1>6. IndComposite'
  BY <1>1, <1>2, <1>0 DEF IndTree, IndComposite
<1>7. IndSignal'
  BY <1>1, <1>2, <1>0 DEF IndTree, IndSignal
<1>8. IndRoot' /\ IndStored'
  <2>1. IndRoot'
    BY <1>1, <1>2, <1>0 DEF IndTree, IndRoot, TypeOK
  <2>2. IndStored'
    BY <1>1, <1>2 DEF IndTree, IndStored, TypeOK
  <2> QED BY <2>1, <2>2
<1>9. \A c \in Comps : Drained(c) => Drained(c)'
  BY <1>1 DEF Drained, Todo, RunningIn, Kids
<1> QED BY <1>1, <1>3, <1>4, <1>5, <1>6, <1>7, <1>8, <1>9 DEF IndTree

\* Appending a call that is no finalize() adds none.
LEMMA PostedChanges ==
    ASSUME NEW q \in Seq(Events), NEW e \in Events, \A c \in Comps : e # Finalize(c),
           posted' = q \/ posted' = Append(q, e)
    PROVE  \A c \in Comps : Awaits(posted', Finalize(c)) => Awaits(q, Finalize(c))
<1>1. \A x : Awaits(Append(q, e), x) <=> Awaits(q, x) \/ x = e
  BY QueueAppend
<1>2. CASE posted' = q
  BY <1>2
<1>3. CASE posted' = Append(q, e)
  BY <1>1, <1>3
<1> QED BY <1>2, <1>3

\* Nothing is called and no signal is out while the event loop is idle.
LEMMA IdleFacts ==
    ASSUME TypeOK, IndActive, Idle
    PROVE  /\ ~ticking /\ signal = NoSignal /\ cancelling = {}
           /\ \A i \in Items : InFlight(i) => state[i] = "Running"
BY TreeFacts DEF Idle, Calling, Leftover, IndActive, TypeOK, JobStates

\* done() of a running item that is called from its start(), from the event loop or
\* from an abort().
LEMMA DoneStep ==
    ASSUME IInv, TypeOK', NEW i \in Items, NEW status \in Statuses,
           state[i] = "Running", signal = NoSignal \/ signal = <<"start", i>>, ~ticking,
           Done(i, status), AbortIfFatal(status),
           cancelling' \subseteq cancelling \ {i},
           \A k \in Items : InFlight(k)' => InFlight(k)
    PROVE  IInv'
<1> USE DEF IInv
<1>1. /\ IndTree'
      /\ \A c \in Comps : Drained(c) => Drained(c)'
      /\ \A c \in Comps : cstate'[c] = cstate[c]
      /\ \A x \in Items \ {i} : state'[x] = state[x]
      /\ state'[i] = "Finished"
  BY DoneTree
<1>2. \A c \in Comps : Awaits(posted', Finalize(c)) => Awaits(posted, Finalize(c))
  <2>1. posted' = posted \/ posted' = Append(posted, Abort)
    BY DEF AbortIfFatal, CallAbort
  <2>2. posted \in Seq(Events)
    BY DEF TypeOK
  <2> QED BY <2>1, <2>2, PostedChanges, EventFacts
<1>3. IndPosted'
  BY <1>1, <1>2, QuietPosted
<1>4. IndActive'
  <2>1. offline' = offline \ {i} /\ signal' = <<"job", i>>
    BY DEF Done
  <2>2. \A k \in cancelling' \cup offline' : k \in Items \ {i} /\ state[k] = "Running"
    BY <2>1 DEF IndActive, TypeOK
  <2> QED BY <1>1, <2>1, <2>2, SignalFacts, TreeFacts DEF IndActive
<1> QED BY <1>1, <1>3, <1>4

LEMMA StartDoneStep ==
    ASSUME IInv, TypeOK', NEW i \in Items, NEW status \in Statuses, StartDone(i, status)
    PROVE  IInv'
<1>1. state[i] = "Running" /\ signal = <<"start", i>> /\ ~ticking /\ cancelling = {}
  BY DEF StartDone, IInv, IndActive
<1>2. cancelling' \subseteq cancelling \ {i} /\ \A k \in Items : InFlight(k)' => InFlight(k)
  BY <1>1 DEF StartDone, InFlight
<1> QED BY <1>1, <1>2, DoneStep DEF StartDone

LEMMA NetworkDoneStep ==
    ASSUME IInv, TypeOK', NEW i \in Items, NEW status \in Statuses, NetworkDone(i, status)
    PROVE  IInv'
<1>1. state[i] = "Running" /\ signal = NoSignal /\ ~ticking /\ cancelling = {}
  BY IdleFacts DEF NetworkDone, IInv
<1>2. \A k \in Items : InFlight(k)' => InFlight(k)
  BY ReplaceFacts, EmptySeq DEF NetworkDone, IInv, TypeOK
<1> QED BY <1>1, <1>2, DoneStep DEF NetworkDone

LEMMA CheckDoneStep ==
    ASSUME IInv, TypeOK', NEW i \in Items, NEW status \in Statuses, CheckDone(i, status)
    PROVE  IInv'
<1>1. state[i] = "Running" /\ signal = NoSignal /\ ~ticking /\ cancelling = {}
  BY IdleFacts DEF CheckDone, IInv, IndActive
<1>2. cancelling' \subseteq cancelling \ {i} /\ \A k \in Items : InFlight(k)' => InFlight(k)
  BY <1>1 DEF CheckDone, InFlight
<1> QED BY <1>1, <1>2, DoneStep DEF CheckDone

LEMMA CancelItemStep ==
    ASSUME IInv, TypeOK', NEW i \in Items, CancelItem(i)
    PROVE  IInv'
<1>1. state[i] = "Running" /\ signal = NoSignal /\ ~ticking /\ "Fatal" \in Statuses
  BY DEF CancelItem, IInv, IndActive, IndTree, IndSignal, Statuses
<1>2. \A k \in Items : InFlight(k)' => InFlight(k)
  BY ReplaceFacts, EmptySeq DEF CancelItem, IInv, TypeOK
<1> QED BY <1>1, <1>2, DoneStep DEF CancelItem

\* The steps that leave the jobs alone.
LEMMA SchedulerStep ==
    ASSUME IInv, TypeOK', Tick \/ AskEnds
    PROVE  IInv'
<1>1. UNCHANGED <<jobVars, signal, active, offline, posted, cancelling, finished>>
  BY DEF Tick, AskEnds, netVars, endVars
<1>2. ticking' => signal = NoSignal /\ cancelling' = {} /\ state[Root] = "Running"
  <2>1. CASE Tick
    <3>1. signal = NoSignal /\ cancelling = {}
      BY <2>1, IdleFacts DEF Tick, IInv
    <3>2. ticking' => state[Root] # "Finished"
      BY <2>1 DEF Tick
    <3>3. state[Root] # "NotYetStarted"
      BY DEF IInv, IndTree, IndRoot
    <3> QED BY <1>1, <3>1, <3>2, <3>3 DEF IInv, TypeOK, JobStates
  <2>2. CASE AskEnds
    BY <2>2 DEF AskEnds
  <2> QED BY <2>1, <2>2
<1>3. \A i \in Items : signal # <<"start", i>>
  BY IdleFacts, SignalFacts DEF Tick, AskEnds, IInv, IndTree, IndSignal
<1>4. \A i \in Items : InFlight(i)' <=> InFlight(i)
  BY <1>1 DEF InFlight
<1>5. \A i \in cancelling' \cup offline' : state[i] = "Running"
  BY <1>1 DEF IInv, IndActive
<1> QED BY <1>1, <1>2, <1>3, <1>4, <1>5, QuietStep

LEMMA StartNetworkStep ==
    ASSUME IInv, TypeOK', NEW i \in Items, StartNetwork(i)
    PROVE  IInv'
<1>1. /\ UNCHANGED <<jobVars, offline, posted, ticking, cancelling, finished>>
      /\ active' = Append(active, i) /\ signal = <<"start", i>> /\ signal' = NoSignal
  BY DEF StartNetwork, netVars, endVars
<1>2. state[i] = "Running" /\ ~ticking /\ \A k \in cancelling \cup offline : state[k] = "Running"
  BY <1>1 DEF IInv, IndActive
<1>3. \A k \in Items : InFlight(k)' => InFlight(k) \/ state[k] = "Running"
  BY <1>1, <1>2, AppendProperties DEF InFlight, IInv, TypeOK
<1> QED BY <1>1, <1>2, <1>3, SignalFacts, QuietStep

\* Entries of the active list go, and running jobs leave or join `offline`.
LEMMA EntryStep ==
    ASSUME IInv, TypeOK', NEW i \in Items,
           \/ NextRequest(i) \/ DropEntry(i) \/ GoOffline(i) \/ PermissionLost(i)
           \/ CancelUpload(i) \/ Swallowed(i)
    PROVE  IInv'
<1>1. UNCHANGED <<jobVars, signal, ticking, posted, finished>>
  BY DEF NextRequest, DropEntry, GoOffline, PermissionLost, CancelUpload, Swallowed, callVars,
     endVars
<1>2. \A k \in Items : InFlight(k)' => InFlight(k)
  <2>1. CASE NextRequest(i)
    <3>1. PICK sent \in 0 .. toSend[i] : Replace(i, Repeat(i, sent))
      BY <2>1 DEF NextRequest
    <3>2. Repeat(i, sent) \in Seq({i})
      BY DEF Repeat, IInv, TypeOK
    <3> QED BY <3>1, <3>2, ReplaceFacts DEF IInv, TypeOK
  <2>2. CASE PermissionLost(i) \/ UNCHANGED active
    BY <2>2 DEF PermissionLost, InFlight
  <2>3. CASE Replace(i, <<>>)
    BY <2>3, ReplaceFacts, EmptySeq DEF IInv, TypeOK
  <2> QED BY <2>1, <2>2, <2>3 DEF DropEntry, GoOffline, CancelUpload, Swallowed
<1>3. cancelling' \subseteq cancelling
  BY DEF NextRequest, DropEntry, GoOffline, PermissionLost, CancelUpload, Swallowed, callVars
<1>4. offline' \subseteq offline \/ (GoOffline(i) /\ offline' = offline \cup {i})
  BY DEF NextRequest, DropEntry, GoOffline, PermissionLost, CancelUpload, Swallowed, netVars
<1>5. GoOffline(i) => state[i] = "Running"
  BY IdleFacts DEF GoOffline, LastReply, IInv
<1>6. \A k \in cancelling' \cup offline' : state[k] = "Running"
  BY <1>3, <1>4, <1>5 DEF IInv, IndActive
<1>7. ticking' => signal' = NoSignal /\ cancelling' = {} /\ state[Root] = "Running"
  BY <1>1, <1>3 DEF IInv, IndTree, IndSignal
<1>8. \A k \in Items : signal' = <<"start", k>> =>
          signal = <<"start", k>> /\ ~InFlight(k)' /\ cancelling' = {} /\ ~ticking'
  BY <1>1, <1>2, <1>3 DEF IInv, IndActive
<1> QED BY <1>1, <1>2, <1>6, <1>7, <1>8, QuietStep

LEMMA AbortStep ==
    ASSUME IInv, TypeOK', UserAbort \/ AbortEvent \/ AbortFinished \/ AbortTimeout
    PROVE  IInv'
<1>1. /\ UNCHANGED <<jobVars, signal, ticking, active, offline>>
      /\ cancelling' = cancelling \/ (Idle /\ cancelling' \subseteq UnderWay)
      /\ finished' = "success" => finished = "success"
  BY SweepFacts
     DEF UserAbort, AbortEvent, AbortFinished, AbortTimeout, EmitFinished, callVars, netVars,
         endVars, IInv
<1>2. \A k \in cancelling' \cup offline' : state[k] = "Running"
  BY <1>1, IdleFacts DEF IInv, IndActive, UnderWay
<1>3. ticking' => signal' = NoSignal /\ cancelling' = {} /\ state[Root] = "Running"
  BY <1>1, IdleFacts DEF IInv, IndTree, IndSignal
<1>4. \A k \in Items : signal' = <<"start", k>> =>
          signal = <<"start", k>> /\ ~InFlight(k)' /\ cancelling' = {} /\ ~ticking'
  <2>1. CASE cancelling' = cancelling
    BY <1>1, <2>1 DEF IInv, IndActive, InFlight
  <2>2. CASE Idle
    BY <1>1, <2>2, IdleFacts, SignalFacts DEF IInv
  <2> QED BY <1>1, <2>1, <2>2
<1>5. \A c \in Comps : Awaits(posted', Finalize(c)) => Awaits(posted, Finalize(c))
  <2>1. posted \in Seq(Events)
    BY DEF IInv, TypeOK
  <2>2. CASE UserAbort
    <3>1. posted' = Append(posted, Abort)
      BY <2>2 DEF UserAbort, CallAbort
    <3> QED BY <2>1, <3>1, PostedChanges, EventFacts
  <2>3. CASE AbortEvent
    BY <2>1, <2>3, QueueTail DEF AbortEvent
  <2>4. CASE AbortFinished \/ AbortTimeout
    <3>1. posted' = posted \/ posted' = Append(posted, Release)
      BY <2>4 DEF AbortFinished, AbortTimeout, EmitFinished
    <3> QED BY <2>1, <3>1, PostedChanges, EventFacts
  <2> QED BY <2>2, <2>3, <2>4
<1>6. \A k \in Items : InFlight(k)' <=> InFlight(k)
  BY <1>1 DEF InFlight
<1> QED BY <1>1, <1>2, <1>3, <1>4, <1>5, <1>6, QuietStep

LEMMA ReleaseStep ==
    ASSUME IInv, TypeOK', ReleasePropagator
    PROVE  IInv'
<1>1. /\ UNCHANGED <<jobVars, signal, ticking, offline, cancelling, finished>>
      /\ active' = <<>> /\ posted' = <<>>
  BY DEF ReleasePropagator, callVars, netVars
<1>2. (\A e : ~Awaits(posted', e)) /\ \A k : ~InFlight(k)'
  BY <1>1 DEF Awaits, InFlight
<1>3. \A k \in cancelling' \cup offline' : state[k] = "Running"
  BY <1>1 DEF IInv, IndActive
<1>4. ~ticking' /\ \A k \in Items : signal' # <<"start", k>>
  BY <1>1, IdleFacts, SignalFacts DEF ReleasePropagator, IInv
<1> QED BY <1>1, <1>2, <1>3, <1>4, QuietStep

\* What the walk knows of the composite it asks.
LEMMA AskedFacts ==
    ASSUME IInv, ticking, NEW c \in Comps, IsEarliest(c, Askable)
    PROVE  /\ cstate[c] # "Finished" /\ signal = NoSignal /\ cancelling = {}
           /\ state[Root] = "Running"
           /\ c \in Dirs => /\ state[c] = "Running"
                            /\ First[c] # NoItem => /\ state[First[c]] = "Finished"
                                                    /\ outcome[First[c]] = "Success"
           /\ c = Deletions => cstate[Subs] = "Finished" /\ ~hasError[Subs]
<1> USE TreeFacts, SignalFacts DEF IInv, IndTree
<1>1. Reached(c) /\ cstate[c] # "Finished"
  BY DEF IsEarliest, Askable
<1>2. signal = NoSignal /\ cancelling = {} /\ state[Root] = "Running"
  BY DEF IndSignal
<1>3. c \in Dirs => state[c] = "Running" /\ (First[c] # NoItem => state[First[c]] = "Finished")
  BY <1>1 DEF Reached
<1>4. c = Deletions => cstate[Subs] = "Finished"
  BY <1>1 DEF Reached
<1> QED BY <1>1, <1>2, <1>3, <1>4 DEF IndFirst, IndRoot

\* Composite c is running from now on, and nothing else of the tree changes.
LEMMA CompositeRuns ==
    ASSUME IInv, ticking, NEW c \in Comps, IsEarliest(c, Askable),
           cstate' = [cstate EXCEPT ![c] = "Running"],
           UNCHANGED <<state, hasError, outcome, stored, signal, cancelling, finished>>
    PROVE  IndTree'
<1> USE TreeFacts, SignalFacts, AskedFacts DEF IInv, IndTree
<1>1. \A x \in Comps : cstate'[x] = IF x = c THEN "Running" ELSE cstate[x]
  BY DEF TypeOK
<1>2. IndOutcome' /\ IndStarted'
  BY <1>1 DEF IndOutcome, IndStarted
<1>3. IndFirst'
  BY <1>1 DEF IndFirst
<1>4. IndDir'
  BY <1>1 DEF IndDir, IndOutcome
<1>5. IndComposite' /\ IndSignal'
  BY <1>1 DEF IndComposite, IndSignal
<1>6. IndRoot' /\ IndStored'
  BY <1>1 DEF IndRoot, IndStored
<1> QED BY <1>2, <1>3, <1>4, <1>5, <1>6

LEMMA AskPassesStep ==
    ASSUME IInv, TypeOK', NEW c \in Comps, AskPasses(c)
    PROVE  IInv'
<1> USE DEF IInv
<1>1. /\ ticking /\ IsEarliest(c, Askable) /\ Todo(c) = {}
      /\ cstate' = [cstate EXCEPT ![c] = "Running"]
      /\ posted' = AfterPassing(c)
      /\ UNCHANGED <<state, hasError, outcome, stored, signal, cancelling, offline, finished,
                     active>>
  BY DEF AskPasses, netVars, endVars
<1>2. IndTree'
  BY <1>1, CompositeRuns
<1>3. \A x \in Comps : cstate'[x] = IF x = c THEN "Running" ELSE cstate[x]
  BY <1>1 DEF TypeOK
<1>4. \A x \in Comps : Drained(x) <=> Drained(x)'
  BY <1>1 DEF Drained, Todo, RunningIn
<1>5. \A x \in Comps : Awaits(posted', Finalize(x)) =>
          Awaits(posted, Finalize(x)) \/ (x = c /\ Drained(c))
  <2>1. CASE RunningIn(c) = {}
    <3>1. posted' = Append(posted, Finalize(c)) /\ Drained(c)
      BY <1>1, <2>1 DEF AfterPassing, Drained
    <3>2. posted \in Seq(Events)
      BY DEF TypeOK
    <3>3. \A x : Awaits(posted', x) <=> Awaits(posted, x) \/ x = Finalize(c)
      BY <3>1, <3>2, QueueAppend, EventFacts
    <3> QED BY <3>1, <3>3, EventFacts
  <2>2. CASE RunningIn(c) # {}
    BY <1>1, <2>2 DEF AfterPassing
  <2> QED BY <2>1, <2>2
<1>6. IndPosted'
  BY <1>1, <1>3, <1>4, <1>5 DEF IndPosted
<1>7. IndActive'
  BY <1>1, AskedFacts, SignalFacts DEF IndActive, InFlight
<1> QED BY <1>2, <1>6, <1>7

\* Composite c starts job j, and with it its first job.
Starts(c, j, f) ==
    /\ ticking /\ IsEarliest(c, Askable)
    /\ f = IF j \in Dirs /\ First[j] # NoItem THEN First[j] ELSE j
    /\ cstate' = [cstate EXCEPT ![c] = "Running"]
    /\ \A x \in Jobs \cup {Root} :
           state'[x] = IF x \in {j, f} THEN "Running" ELSE state[x]
    /\ signal' = NoSignal \/ signal' = <<"start", f>>
    /\ ticking' => signal' = NoSignal
    /\ UNCHANGED <<hasError, outcome, stored, cancelling, finished>>

LEMMA StartedTree ==
    ASSUME IInv, NEW c \in Comps, NEW j \in Todo(c), NEW f \in Jobs, Starts(c, j, f)
    PROVE  IndTree'
<1> USE TreeFacts, SignalFacts, AskedFacts DEF IInv, IndTree, Starts
<1>1. \A x \in Comps : cstate'[x] = IF x = c THEN "Running" ELSE cstate[x]
  BY DEF TypeOK
<1>2. /\ j \in Jobs \ FirstJobs /\ Holder[j] = c /\ state[j] = "NotYetStarted"
      /\ f \notin Dirs \/ f = j
      /\ \A d \in Dirs : First[d] \in {j, f} => d = j /\ f = First[d]
      /\ \A x \in Comps : j \in Kids(x) => x = c
      /\ f = j \/ (f \in FirstJobs /\ Holder[f] = j)
  <2>1. j \in Jobs \ FirstJobs /\ Holder[j] = c /\ state[j] = "NotYetStarted"
    BY DEF Todo, Kids
  <2>2. f = j \/ (j \in Dirs /\ First[j] # NoItem /\ f = First[j] /\ f \in FirstJobs /\ Holder[f] = j)
    OBVIOUS
  <2>3. f \notin Dirs \/ f = j
    BY <2>2
  <2>4. ASSUME NEW d \in Dirs, First[d] \in {j, f} PROVE d = j /\ f = First[d]
    <3>1. First[d] # NoItem
      BY <2>1, <2>2, <2>4
    <3>2. First[d] = f /\ f # j
      BY <2>1, <2>4, <3>1
    <3> QED BY <2>2, <3>1, <3>2
  <2>5. \A x \in Comps : j \in Kids(x) => x = c
    BY <2>1 DEF Kids
  <2> QED BY <2>1, <2>2, <2>3, <2>4, <2>5
<1>3. /\ state[f] = "NotYetStarted" /\ c # j /\ Root \notin {j, f}
      /\ \A d \in Dirs : d = j => cstate[d] = "NotYetStarted"
  BY <1>2 DEF IndStarted
<1>4. IndOutcome'
  BY <1>2, <1>3 DEF IndOutcome
<1>5. IndStarted'
  <2>1. \A x \in Jobs \ FirstJobs :
            state'[x] # "NotYetStarted" => cstate'[Holder[x]] # "NotYetStarted"
    BY <1>1, <1>2 DEF IndStarted
  <2>2. \A d \in Dirs : cstate'[d] # "NotYetStarted" => state'[d] # "NotYetStarted"
    BY <1>1, <1>2 DEF IndStarted
  <2>3. \A d \in Dirs : First[d] # NoItem =>
            (state'[First[d]] = "NotYetStarted" <=> state'[d] = "NotYetStarted")
    BY <1>2 DEF IndStarted
  <2>4. \A x \in Under(Deletions) :
            state'[x] # "NotYetStarted" => cstate'[Deletions] # "NotYetStarted"
    <3> SUFFICES ASSUME NEW x \in Under(Deletions), state'[x] # "NotYetStarted"
                 PROVE  cstate'[Deletions] # "NotYetStarted"
      OBVIOUS
    <3>1. x \in Jobs
      BY DEF Under
    <3>2. CASE x \notin {j, f}
      BY <1>1, <3>1, <3>2 DEF IndStarted
    <3>3. CASE x \in {j, f}
      <4>1. \A y \in Jobs : y \in Under(Deletions) =>
                Holder[y] = Deletions \/ Holder[y] \in Under(Deletions)
        BY TreeAssumption
      <4>2. j \in Under(Deletions)
        BY <1>2, <3>1, <3>3, <4>1
      <4>3. c = Deletions \/ (c \in Under(Deletions) /\ c \in Jobs)
        BY <1>2, <4>1, <4>2 DEF Under
      <4>4. c = Deletions \/ state[c] = "Running"
        BY <4>3
      <4> QED BY <1>1, <4>3, <4>4 DEF IndStarted
    <3> QED BY <3>2, <3>3
  <2> QED BY <2>1, <2>2, <2>3, <2>4 DEF IndStarted, Under
<1>6. IndFirst'
  BY <1>1, <1>2, <1>3 DEF IndFirst
<1>7. IndDir'
  BY <1>1, <1>2, <1>3 DEF IndDir, IndOutcome
<1>8. IndComposite'
  BY <1>1, <1>2, <1>3 DEF IndComposite
<1>9. IndSignal' /\ IndRoot' /\ IndStored'
  BY <1>1, <1>2, <1>3 DEF IndSignal, IndRoot, IndStored
<1> QED BY <1>4, <1>5, <1>6, <1>7, <1>8, <1>9

LEMMA AskStartsStep ==
    ASSUME IInv, TypeOK', NEW c \in Comps, AskStarts(c)
    PROVE  IInv'
<1> USE TreeFacts DEF IInv
<1>1. /\ ticking /\ IsEarliest(c, Askable)
      /\ cstate' = [cstate EXCEPT ![c] = "Running"]
      /\ UNCHANGED <<hasError, outcome, stored, active, offline, posted, cancelling, finished>>
  BY DEF AskStarts, netVars, endVars
<1>2. PICK j \in Todo(c) :
           \/ /\ j \in Items
              /\ state' = [state EXCEPT ![j] = "Running"]
              /\ Launch(j)
           \/ /\ j \in Dirs /\ First[j] # NoItem
              /\ state' = [state EXCEPT ![j] = "Running", ![First[j]] = "Running"]
              /\ Launch(First[j])
           \/ /\ j \in Dirs /\ First[j] = NoItem
              /\ state' = [state EXCEPT ![j] = "Running"]
              /\ UNCHANGED <<signal, ticking, jobScheduled>>
  BY DEF AskStarts
<1>3. j \in Jobs \ FirstJobs /\ j \in Kids(c) /\ state[j] = "NotYetStarted"
  BY DEF Todo, Kids
<1> DEFINE f == IF j \in Dirs /\ First[j] # NoItem THEN First[j] ELSE j
<1>4. f \in Jobs /\ (f \in Items \/ (f = j /\ j \in Dirs)) /\ (f = j \/ f \in FirstJobs)
  BY <1>3
<1>5. \A x \in Jobs \cup {Root} : state'[x] = IF x \in {j, f} THEN "Running" ELSE state[x]
  <2>1. state \in [Jobs \cup {Root} -> JobStates] /\ (j \in Items => j \notin Dirs)
    BY DEF TypeOK
  <2> QED BY <1>2, <1>3, <1>4, <2>1
<1>6. state[f] = "NotYetStarted"
  BY <1>3 DEF IndTree, IndStarted
<1>7. signal = NoSignal /\ cancelling = {}
  BY <1>1, AskedFacts
<1>8. \/ signal' = NoSignal
      \/ f \in Items /\ signal' = <<"start", f>> /\ ~ticking'
  BY <1>2, <1>4, <1>7 DEF Launch
<1> HIDE DEF f
<1>9. IndTree'
  <2>1. f = IF j \in Dirs /\ First[j] # NoItem THEN First[j] ELSE j
    BY DEF f
  <2>2. /\ signal' = NoSignal \/ signal' = <<"start", f>>
        /\ ticking' => signal' = NoSignal
    BY <1>1, <1>4, <1>8
  <2>3. f \in Jobs /\ j \in Todo(c)
    BY <1>4
  <2>4. Starts(c, j, f)
    BY <1>1, <1>5, <2>1, <2>2 DEF Starts
  <2> QED BY <2>3, <2>4, StartedTree
<1>10. \A x \in Comps : cstate[x] # "NotYetStarted" => cstate'[x] # "NotYetStarted"
  BY <1>1 DEF TypeOK
<1>11. \A x \in Comps : x # c => (Drained(x) => Drained(x)')
  <2>1. \A x \in Comps : x # c => j \notin Kids(x) /\ f \notin Kids(x)
    BY <1>3, <1>4
  <2> QED BY <1>5, <2>1 DEF Drained, Todo, RunningIn, Kids
<1>12. ~Drained(c)
  BY DEF Drained
<1>13. IndPosted'
  BY <1>1, <1>10, <1>11, <1>12 DEF IndPosted
<1>14. f \in Items => ~InFlight(f)
  BY <1>6 DEF IndActive
<1>15. \A k \in Items : /\ state[k] # "NotYetStarted" => state'[k] # "NotYetStarted"
                        /\ state[k] = "Running" => state'[k] = "Running"
  BY <1>5
<1>16. \A k \in Items : InFlight(k)' <=> InFlight(k)
  BY <1>1 DEF InFlight
<1>17. \A k \in Items : signal' = <<"start", k>> =>
           state'[k] = "Running" /\ ~InFlight(k)' /\ cancelling' = {} /\ ~ticking'
  BY <1>1, <1>4, <1>5, <1>7, <1>8, <1>14, <1>16, SignalFacts
<1>18. \A k \in cancelling' \cup offline' : state'[k] = "Running"
  BY <1>1, <1>15 DEF IndActive, TypeOK
<1>19. IndActive'
  BY <1>15, <1>16, <1>17, <1>18 DEF IndActive
<1> QED BY <1>9, <1>13, <1>19

LEMMA SubJobFinishedStep ==
    ASSUME IInv, TypeOK', NEW j \in Jobs, SubJobFinished(j)
    PROVE  IInv'
<1> USE TreeFacts, SignalFacts DEF IInv, IndTree
<1> DEFINE c == Holder[j]
<1>1. /\ signal = <<"job", j>> /\ j \in Kids(c) /\ c \in Comps
      /\ UNCHANGED <<state, outcome, stored, active, offline, posted, ticking, cancelling,
                     finished>>
  BY DEF SubJobFinished, Kids, netVars, endVars
<1>20. hasError \in [Comps -> BOOLEAN]
  BY DEF TypeOK
<1>2. /\ \A x \in Comps : x # c => hasError'[x] = hasError[x]
      /\ outcome[j] \in {"Error", "Fatal"} => hasError'[c]
      /\ \A x \in Comps : hasError[x] => hasError'[x]
  <2>1. hasError' = [hasError EXCEPT ![c] = @ \/ FailsComposite(outcome[j])]
    BY DEF SubJobFinished
  <2> HIDE TreeFacts, SignalFacts DEF IInv, IndTree
  <2> QED BY <1>1, <1>20, <2>1 DEF FailsComposite
<1>3. /\ ~ticking /\ state[j] = "Finished"
      /\ cstate[c] = "Running"
      /\ \A d \in Dirs : d = c => state[d] = "Running" /\ outcome[d] = "NoStatus"
  <2>1. ~ticking /\ state[j] = "Finished"
    BY <1>1 DEF IndSignal
  <2>2. cstate[c] # "NotYetStarted" /\ cstate[c] # "Finished"
    BY <1>1, <2>1 DEF IndStarted, IndComposite, Kids
  <2>3. \A d \in Dirs : d = c => state[d] # "NotYetStarted" /\ state[d] # "Finished"
    BY <2>2 DEF IndStarted, IndDir
  <2>4. cstate[c] = "Running" /\ \A d \in Dirs : d = c => state[d] = "Running"
    BY <1>1, <2>2, <2>3 DEF TypeOK, JobStates
  <2> QED BY <2>1, <2>4 DEF IndOutcome
<1>4. /\ \A x \in Comps : cstate'[x] = IF x = c /\ Drained(c) THEN "Finished" ELSE cstate[x]
      /\ signal' = IF Drained(c) THEN <<"comp", c>> ELSE NoSignal
  BY <1>1, <1>3 DEF SubJobFinished, TypeOK
<1>5. Drained(c) => \A k \in Kids(c) : state[k] = "Finished"
  BY <1>1 DEF Drained, Todo, RunningIn, TypeOK, JobStates
<1> HIDE DEF c
<1>6. IndOutcome' /\ IndStarted'
  BY <1>1, <1>3, <1>4 DEF IndOutcome, IndStarted
<1>7. IndFirst'
  <2>1. \A d \in Dirs : First[d] # NoItem => signal # <<"job", First[d]>>
    BY <1>1
  <2>2. \A d \in Dirs : cstate'[d] # "NotYetStarted" => cstate[d] # "NotYetStarted"
    BY <1>3, <1>4
  <2>3. \A k : signal' # <<"job", k>>
    BY <1>4
  <2> QED BY <1>1, <2>1, <2>2, <2>3 DEF IndFirst
<1>8. IndDir'
  BY <1>1, <1>2, <1>3, <1>4 DEF IndDir
<1>9. IndComposite'
  <2> SUFFICES ASSUME NEW x \in Comps, NEW k \in Kids(x)
               PROVE  /\ cstate'[x] = "Finished" => state[k] = "Finished"
                      /\ outcome[k] \in {"Error", "Fatal"} => hasError'[x]
    BY <1>1, <1>4 DEF IndComposite, Kids
  <2>1. cstate'[x] = "Finished" => state[k] = "Finished"
    BY <1>4, <1>5 DEF IndComposite
  <2>2. CASE k = j
    <3>1. x = c
      BY <1>1, <2>2
    <3> QED BY <1>2, <2>1, <2>2, <3>1
  <2>3. CASE k # j
    <3>1. outcome[k] \in {"Error", "Fatal"} => hasError[x]
      BY <1>1, <2>3 DEF IndComposite
    <3>2. hasError[x] => hasError'[x]
      BY <1>2
    <3> QED BY <2>1, <3>1, <3>2
  <2> QED BY <2>1, <2>2, <2>3
<1>10. IndSignal'
  BY <1>1, <1>3, <1>4 DEF IndSignal
<1>11. IndRoot' /\ IndStored'
  BY <1>1, <1>2, <1>3, <1>4 DEF IndRoot, IndStored
<1>12. IndPosted'
  BY <1>1, <1>3, <1>4 DEF IndPosted, Drained, Todo, RunningIn, InFlight
<1>13. IndActive'
  BY <1>1, <1>4 DEF IndActive, InFlight
<1> QED BY <1>6, <1>7, <1>8, <1>9, <1>10, <1>11, <1>12, <1>13

LEMMA FirstJobFinishedStep ==
    ASSUME IInv, TypeOK', NEW d \in Dirs, FirstJobFinished(d)
    PROVE  IInv'
<1> USE TreeFacts, SignalFacts DEF IInv, IndTree
<1>1. /\ signal = <<"job", First[d]>> /\ First[d] # NoItem
      /\ UNCHANGED <<cstate, hasError, stored, active, offline, posted, ticking, cancelling,
                     finished>>
  BY DEF FirstJobFinished, netVars, endVars
<1>2. /\ ~ticking /\ state[First[d]] = "Finished" /\ outcome[First[d]] # "NoStatus"
      /\ state[d] # "NotYetStarted" /\ cstate[d] = "NotYetStarted"
  BY <1>1 DEF IndSignal, IndOutcome, IndStarted, IndFirst, TypeOK, JobStates
<1>3. \A e \in Dirs : e # d => First[e] = NoItem \/ signal # <<"job", First[e]>>
  BY <1>1
<1>4. \A c \in Comps : signal # <<"comp", c>>
  BY <1>1
<1>5. CASE outcome[First[d]] # "Success" /\ state[d] # "Finished"
  <2>1. /\ \A x \in Jobs \cup {Root} : state'[x] = IF x = d THEN "Finished" ELSE state[x]
        /\ \A x \in Jobs : outcome'[x] = IF x = d THEN outcome[First[d]] ELSE outcome[x]
        /\ signal' = <<"job", d>>
    BY <1>5 DEF FirstJobFinished, TypeOK
  <2>2. state[d] = "Running" /\ d \notin Items /\ d # Root /\ outcome[d] = "NoStatus"
    BY <1>2, <1>5 DEF TypeOK, JobStates, IndOutcome
  <2>3. IndOutcome' /\ IndStarted'
    BY <1>1, <1>2, <2>1, <2>2 DEF IndOutcome, IndStarted, Under
  <2>4. IndFirst'
    BY <1>1, <1>2, <1>3, <2>1, <2>2 DEF IndFirst
  <2>5. IndDir'
    BY <1>1, <1>2, <1>4, <1>5, <2>1, <2>2 DEF IndDir
  <2>6. IndComposite'
    BY <1>1, <2>1, <2>2 DEF IndComposite
  <2>7. IndSignal' /\ IndRoot' /\ IndStored'
    <3>1. IndSignal'
      BY <1>1, <1>2, <1>4, <2>1, <2>2 DEF IndSignal
    <3>2. IndRoot'
      BY <1>1, <1>2, <1>4, <2>1, <2>2 DEF IndRoot
    <3>3. IndStored'
      BY <1>1, <2>1, <2>2 DEF IndStored, TypeOK
    <3> QED BY <3>1, <3>2, <3>3
  <2>8. \A c \in Comps : Drained(c) => Drained(c)'
    BY <2>1 DEF Drained, Todo, RunningIn, Kids
  <2>9. IndPosted' /\ IndActive'
    <3>1. \A i \in Items : state'[i] = state[i] /\ (InFlight(i)' <=> InFlight(i))
      BY <1>1, <2>1, <2>2 DEF InFlight
    <3>2. IndPosted'
      BY <1>1, <2>8, <3>1, QuietPosted
    <3>3. IndActive'
      BY <1>1, <2>1, <3>1 DEF IndActive, TypeOK
    <3> QED BY <3>2, <3>3
  <2> QED BY <2>3, <2>4, <2>5, <2>6, <2>7, <2>9
<1>6. CASE ~(outcome[First[d]] # "Success" /\ state[d] # "Finished")
  <2>1. UNCHANGED <<state, outcome>> /\ signal' = NoSignal
    BY <1>6 DEF FirstJobFinished
  <2>2. IndOutcome' /\ IndStarted'
    BY <1>1, <2>1 DEF IndOutcome, IndStarted
  <2>3. IndFirst'
    BY <1>1, <1>3, <1>6, <2>1 DEF IndFirst
  <2>4. IndDir'
    BY <1>1, <1>4, <2>1 DEF IndDir
  <2>5. IndComposite'
    BY <1>1, <2>1 DEF IndComposite
  <2>6. IndSignal' /\ IndRoot' /\ IndStored'
    BY <1>1, <1>2, <1>4, <2>1 DEF IndSignal, IndRoot, IndStored
  <2>7. IndPosted' /\ IndActive'
    BY <1>1, <2>1 DEF IndPosted, IndActive, InFlight, Drained, Todo, RunningIn
  <2> QED BY <2>2, <2>3, <2>4, <2>5, <2>6, <2>7
<1> QED BY <1>5, <1>6

LEMMA SubJobsFinishedStep ==
    ASSUME IInv, TypeOK', NEW d \in Dirs, SubJobsFinished(d)
    PROVE  IInv'
<1> USE TreeFacts, SignalFacts DEF IInv, IndTree
<1>1. /\ signal = <<"comp", d>> /\ signal' = <<"job", d>>
      /\ UNCHANGED <<cstate, hasError, active, offline, posted, ticking, cancelling, finished>>
  BY DEF SubJobsFinished, netVars, endVars
<1>2. PICK status \in {"Success", "Error", "Fatal"} :
          /\ status = "Error" <=> hasError[d]
          /\ outcome' = [outcome EXCEPT ![d] = status]
          /\ stored' = stored \/ (status = "Success" /\ stored' = stored \cup {d})
  BY DEF SubJobsFinished
<1>3. /\ \A x \in Jobs \cup {Root} : state'[x] = IF x = d THEN "Finished" ELSE state[x]
      /\ \A x \in Jobs : outcome'[x] = IF x = d THEN status ELSE outcome[x]
  BY <1>2 DEF SubJobsFinished, TypeOK
<1>4. /\ ~ticking /\ cstate[d] = "Finished" /\ state[d] = "Running"
      /\ outcome[d] = "NoStatus" /\ d \notin Items /\ d # Root
  BY <1>1 DEF IndSignal, IndOutcome
<1>5. IndOutcome' /\ IndStarted'
  BY <1>1, <1>2, <1>3, <1>4 DEF IndOutcome, IndStarted, Under
<1>6. IndFirst'
  BY <1>1, <1>3, <1>4 DEF IndFirst
<1>7. IndDir'
  BY <1>1, <1>2, <1>3, <1>4 DEF IndDir
<1>8. IndComposite'
  BY <1>1, <1>3, <1>4 DEF IndComposite
<1>9. IndSignal' /\ IndRoot'
  BY <1>1, <1>3, <1>4 DEF IndSignal, IndRoot, TypeOK
<1>10. IndStored'
  BY <1>2, <1>3, <1>4 DEF IndStored, TypeOK
<1>11. \A c \in Comps : Drained(c) => Drained(c)'
  BY <1>3 DEF Drained, Todo, RunningIn, Kids
<1>12. IndPosted' /\ IndActive'
  <2>1. \A i \in Items : state'[i] = state[i] /\ (InFlight(i)' <=> InFlight(i))
    BY <1>1, <1>3, <1>4 DEF InFlight
  <2>2. IndPosted'
    BY <1>1, <1>11, <2>1, QuietPosted
  <2>3. IndActive'
    BY <1>1, <2>1 DEF IndActive, TypeOK
  <2> QED BY <2>2, <2>3
<1> QED BY <1>5, <1>6, <1>7, <1>8, <1>9, <1>10, <1>12

LEMMA RootStep ==
    ASSUME IInv, TypeOK', RootSubJobsFinished \/ DirDeletionJobsFinished
    PROVE  IInv'
<1> USE TreeFacts, SignalFacts DEF IInv, IndTree
<1>1. /\ signal \in {<<"comp", Subs>>, <<"comp", Deletions>>} /\ signal' = NoSignal
      /\ UNCHANGED <<cstate, hasError, outcome, stored, active, offline, ticking, cancelling>>
  BY DEF RootSubJobsFinished, DirDeletionJobsFinished, netVars
<1>2. /\ \A x \in Jobs : state'[x] = state[x]
      /\ state'[Root] = "Finished" \/ state'[Root] = state[Root]
      /\ state[Root] = "Finished" => state'[Root] = "Finished"
  BY DEF RootSubJobsFinished, DirDeletionJobsFinished, TypeOK
<1>3. signal = <<"comp", Subs>> /\ hasError[Subs] => state'[Root] = "Finished"
  BY DEF RootSubJobsFinished, DirDeletionJobsFinished, TypeOK
<1>4. finished' = "success" =>
          \/ finished = "success"
          \/ /\ cstate[Deletions] = "Finished" /\ ~hasError[Deletions]
             /\ state'[Root] = "Finished"
  <2>1. CASE RootSubJobsFinished
    BY <2>1 DEF RootSubJobsFinished, EmitFinished
  <2>2. CASE DirDeletionJobsFinished
    BY <2>2 DEF DirDeletionJobsFinished, EmitFinished, IndSignal, TypeOK
  <2> QED BY <2>1, <2>2
<1>5. ~ticking
  BY <1>1 DEF IndSignal
<1>6. IndOutcome' /\ IndStarted' /\ IndFirst'
  BY <1>1, <1>2 DEF IndOutcome, IndStarted, IndFirst, Under
<1>7. IndDir' /\ IndComposite'
  BY <1>1, <1>2 DEF IndDir, IndComposite
<1>8. IndSignal' /\ IndStored'
  BY <1>1, <1>2, <1>5 DEF IndSignal, IndStored, TypeOK
<1>9. IndRoot'
  BY <1>1, <1>2, <1>3, <1>4 DEF IndRoot
<1>10. posted' = posted \/ posted' = Append(posted, Release)
  BY DEF RootSubJobsFinished, DirDeletionJobsFinished, EmitFinished
<1>11. \A c \in Comps : Awaits(posted', Finalize(c)) => Awaits(posted, Finalize(c))
  <2>1. posted \in Seq(Events)
    BY DEF TypeOK
  <2> QED BY <1>10, <2>1, PostedChanges, EventFacts
<1>12. \A c \in Comps : Drained(c) => Drained(c)'
  BY <1>2 DEF Drained, Todo, RunningIn, Kids
<1>13. IndPosted' /\ IndActive'
  BY <1>1, <1>2, <1>11, <1>12 DEF IndPosted, IndActive, InFlight, TypeOK
<1> QED BY <1>6, <1>7, <1>8, <1>9, <1>13

LEMMA FinalizeStep ==
    ASSUME IInv, TypeOK', NEW c \in Comps, FinalizeComposite(c)
    PROVE  IInv'
<1> USE TreeFacts, SignalFacts DEF IInv, IndTree
<1>1. /\ posted # <<>> /\ Head(posted) = Finalize(c) /\ posted' = Tail(posted)
      /\ posted \in Seq(Events)
      /\ signal' = IF cstate[c] = "Finished" THEN NoSignal ELSE <<"comp", c>>
      /\ UNCHANGED <<state, hasError, outcome, stored, active, offline, ticking, cancelling,
                     finished>>
  BY DEF FinalizeComposite, netVars, endVars, TypeOK
<1>2. /\ \A e : Awaits(posted', e) => Awaits(posted, e)
      /\ Awaits(posted, Finalize(c))
  BY <1>1, QueueTail
<1>3. signal = NoSignal /\ ~ticking
  BY IdleFacts DEF FinalizeComposite
<1>4. /\ cstate[c] # "NotYetStarted"
      /\ \A j \in Kids(c) : state[j] = "Finished"
      /\ \A d \in Dirs : d = c /\ cstate[c] # "Finished" => state[d] = "Running"
  BY <1>2 DEF IndPosted, IndStarted, IndDir, Drained, Todo, RunningIn, TypeOK, JobStates
<1>5. \A x \in Comps : cstate'[x] = IF x = c THEN "Finished" ELSE cstate[x]
  BY DEF FinalizeComposite, TypeOK
<1>6. IndOutcome' /\ IndStarted'
  BY <1>1, <1>4, <1>5 DEF IndOutcome, IndStarted
<1>7. IndFirst'
  BY <1>1, <1>3, <1>4, <1>5 DEF IndFirst
<1>8. IndDir'
  BY <1>1, <1>3, <1>4, <1>5 DEF IndDir, IndOutcome
<1>9. IndComposite'
  BY <1>1, <1>3, <1>4, <1>5 DEF IndComposite
<1>10. IndSignal' /\ IndStored'
  BY <1>1, <1>3, <1>4, <1>5 DEF IndSignal, IndStored
<1>11. IndRoot'
  BY <1>1, <1>3, <1>4, <1>5 DEF IndRoot
<1>12. IndPosted' /\ IndActive'
  BY <1>1, <1>2, <1>4, <1>5
     DEF IndPosted, IndActive, InFlight, Drained, Todo, RunningIn
<1> QED BY <1>6, <1>7, <1>8, <1>9, <1>10, <1>11, <1>12

LEMMA NextIInv == IInv /\ [Next]_vars => IInv'
<1> SUFFICES ASSUME IInv, [Next]_vars PROVE IInv'
  OBVIOUS
<1>1. TypeOK'
  BY NextTypeOK DEF IInv
<1>2. CASE Tick \/ AskEnds
  BY <1>1, <1>2, SchedulerStep
<1>3. ASSUME NEW c \in Comps, AskStarts(c) \/ AskPasses(c) \/ FinalizeComposite(c)
      PROVE  IInv'
  BY <1>1, <1>3, AskStartsStep, AskPassesStep, FinalizeStep
<1>4. ASSUME NEW i \in Items, Step(i)
      PROVE  IInv'
  BY <1>1, <1>4, StartDoneStep, NetworkDoneStep, CheckDoneStep, StartNetworkStep, EntryStep,
     CancelItemStep DEF Step
<1>5. ASSUME NEW j \in Jobs, SubJobFinished(j)
      PROVE  IInv'
  BY <1>1, <1>5, SubJobFinishedStep
<1>6. ASSUME NEW d \in Dirs, FirstJobFinished(d) \/ SubJobsFinished(d)
      PROVE  IInv'
  BY <1>1, <1>6, FirstJobFinishedStep, SubJobsFinishedStep
<1>7. CASE RootSubJobsFinished \/ DirDeletionJobsFinished
  BY <1>1, <1>7, RootStep
<1>8. CASE UserAbort \/ AbortEvent \/ AbortFinished \/ AbortTimeout
  BY <1>1, <1>8, AbortStep
<1>9. CASE ReleasePropagator
  BY <1>1, <1>9, ReleaseStep
<1>10. CASE UNCHANGED vars
  BY <1>10 DEF vars, jobVars, netVars, callVars, abortVars, endVars, IInv, TypeOK, IndTree, IndOutcome,
     IndStarted, IndFirst, IndDir, IndComposite, IndSignal, IndRoot, IndStored, IndPosted,
     IndActive, InFlight, Drained, Todo, RunningIn
<1> QED
  BY <1>2, <1>3, <1>4, <1>5, <1>6, <1>7, <1>8, <1>9, <1>10 DEF Next, Released

\* What the runs check on small trees holds of every tree: the states of the jobs,
\* of their composites, of the queue and of the active list fit together.
THEOREM Inductive == Spec => []IInv
BY InitIInv, NextIInv, PTL DEF Spec

\* done() is never called for a job that is not running.
\* (OC_ENFORCE in PropagateItemJob::done, owncloudpropagator.cpp)
THEOREM DoneOnce == Spec => []NeverDoneTwice
<1>1. IInv => NeverDoneTwice
  BY DEF IInv, IndActive, NeverDoneTwice
<1> QED BY <1>1, Inductive, PTL
-----------------------------------------------------------------------------
(* Climbing the tree: what a finished composite says of everything below.  *)

\* A non-empty set of numbers has a least one.
LEMMA LeastNumber ==
    ASSUME NEW T \in SUBSET Nat, T # {}
    PROVE  \E x \in T : \A y \in T : x <= y
<1> DEFINE R == OpToRel(<, Nat)
<1>1. IsWellFoundedOn(R, Nat)
  BY NatLessThanWellFounded
<1>2. \A x, y \in Nat : y < x => <<y, x>> \in R
  BY DEF OpToRel
<1> HIDE DEF R
<1>3. PICK x \in T : \A y \in T : ~(<<y, x>> \in R)
  BY <1>1, WFMin
<1>4. ASSUME NEW y \in T PROVE x <= y
  <2>1. x \in Nat /\ y \in Nat
    OBVIOUS
  <2>2. ~(y < x)
    BY <1>2, <1>3, <2>1
  <2> QED BY <2>1, <2>2
<1> QED BY <1>4

\* Among some jobs below composite c there is one that comes last.
LEMMA LatestJob ==
    ASSUME NEW c \in Comps, NEW S \in SUBSET Under(c), S # {}
    PROVE  \E b \in S : \A x \in S : Turn[x] <= Turn[b]
<1> USE TreeFacts
<1>1. Turn[c] \in Nat /\ \A x \in S : Turn[x] \in Nat /\ Turn[x] < Turn[c]
  BY TreeAssumption DEF Under
<1> DEFINE T == {Turn[c] - Turn[x] : x \in S}
<1>2. T \in SUBSET Nat /\ T # {}
  BY <1>1
<1>3. PICK t \in T : \A u \in T : t <= u
  BY <1>2, LeastNumber
<1>4. PICK b \in S : t = Turn[c] - Turn[b]
  OBVIOUS
<1>5. ASSUME NEW x \in S PROVE Turn[x] <= Turn[b]
  <2>1. t <= Turn[c] - Turn[x]
    BY <1>3
  <2> QED BY <1>1, <1>4, <2>1
<1> QED BY <1>5

\* The tree below a composite, one level at a time.
LEMMA BelowFacts ==
    ASSUME NEW c \in Comps, NEW b \in Under(c)
    PROVE  /\ b \in Jobs /\ Holder[b] \in Comps
           /\ b \in Kids(Holder[b]) \/ (Holder[b] \in Dirs /\ b = First[Holder[b]] /\ b # NoItem)
           /\ \/ Holder[b] = c
              \/ /\ Holder[b] \in Under(c) /\ Holder[b] \in Dirs
                 /\ Turn[b] < Turn[Holder[b]] /\ b \in Under(Holder[b])
<1> USE TreeFacts
<1>1. b \in Jobs /\ Holder[b] \in Comps
  BY DEF Under
<1>2. b \in Kids(Holder[b]) \/ (Holder[b] \in Dirs /\ b = First[Holder[b]] /\ b # NoItem)
  <2>1. CASE b \in FirstJobs
    <3>1. PICK d \in Dirs : b = First[d] /\ b # NoItem
      BY <2>1 DEF FirstJobs
    <3> QED BY <3>1
  <2>2. CASE b \notin FirstJobs
    BY <1>1, <2>2 DEF Kids
  <2> QED BY <2>1, <2>2
<1>3. \/ Holder[b] = c
      \/ Holder[b] \in Under(c) /\ Holder[b] \in Dirs
  BY <1>1, TreeAssumption DEF Under
<1>4. b \in Under(Holder[b])
  BY <1>1, TreeAssumption
<1>5. Turn[b] < Turn[Holder[b]]
  BY <1>4 DEF Under
<1> QED BY <1>1, <1>2, <1>3, <1>4, <1>5

\* What finished without an error went well all the way down.
LEMMA Climb ==
    ASSUME IInv, NEW c \in Comps, cstate[c] = "Finished", ~hasError[c]
    PROVE  \A j \in Under(c) : WellDone(j) \/ GivenUp(j, Under(c))
<1> USE TreeFacts DEF IInv, IndTree
<1>1. ASSUME NEW h \in Comps, cstate[h] = "Finished", ~hasError[h],
             NEW b \in Jobs, Holder[b] = h,
             b \in Kids(h) \/ (h \in Dirs /\ b = First[h] /\ b # NoItem)
      PROVE  WellDone(b)
  <2>1. CASE b \in Kids(h)
    <3>1. state[b] = "Finished" /\ outcome[b] \notin {"Error", "Fatal"}
      BY <1>1, <2>1 DEF IndComposite
    <3>2. outcome[b] # "NoStatus"
      BY <3>1 DEF IndOutcome
    <3> QED BY <3>1, <3>2 DEF WellDone, TypeOK, Statuses
  <2>2. CASE h \in Dirs /\ b = First[h] /\ b # NoItem
    BY <1>1, <2>2 DEF IndFirst, WellDone
  <2> QED BY <1>1, <2>1, <2>2
<1> DEFINE Bad == {j \in Under(c) : ~WellDone(j) /\ ~GivenUp(j, Under(c))}
<1> SUFFICES ASSUME Bad # {} PROVE FALSE
  OBVIOUS
<1>2. PICK b \in Bad : \A x \in Bad : Turn[x] <= Turn[b]
  <2>1. Bad \in SUBSET Under(c)
    OBVIOUS
  <2> HIDE DEF Bad
  <2> QED BY <2>1, LatestJob
<1> DEFINE h == Holder[b]
<1>3. /\ b \in Jobs /\ h \in Comps
      /\ b \in Kids(h) \/ (h \in Dirs /\ b = First[h] /\ b # NoItem)
      /\ \/ h = c
         \/ h \in Under(c) /\ h \in Dirs /\ Turn[b] < Turn[h] /\ b \in Under(h)
  BY BelowFacts
<1>4. ~WellDone(b) /\ ~GivenUp(b, Under(c))
  OBVIOUS
<1> HIDE DEF h
<1>5. h # c
  BY <1>1, <1>3, <1>4 DEF h
<1>6. h \in Under(c) /\ h \in Dirs /\ Turn[b] < Turn[h] /\ b \in Under(h) /\ h \in Jobs
  BY <1>3, <1>5
<1>7. h \notin Bad
  <2>1. Turn[b] \in Nat /\ Turn[h] \in Nat
    BY <1>3, <1>6, TreeAssumption
  <2> QED BY <1>2, <1>6, <2>1
<1>8. WellDone(h) \/ GivenUp(h, Under(c))
  BY <1>6, <1>7
<1>9. state[b] # "NotYetStarted" =>
          /\ state[h] # "NotYetStarted"
          /\ b \in Kids(h) => cstate[h] # "NotYetStarted"
  BY <1>3, <1>6 DEF IndStarted, h
<1>10. CASE GivenUp(h, Under(c))
  <2>1. PICK d \in Under(c) \cap Dirs : outcome[d] = "Ignored" /\ h \in Under(d)
    BY <1>10 DEF GivenUp
  <2>2. b \in Under(d)
    BY <1>3, <2>1, TreeAssumption DEF h
  <2>3. state[b] = "NotYetStarted"
    BY <1>9, <1>10 DEF GivenUp
  <2> QED BY <1>4, <2>1, <2>2, <2>3 DEF GivenUp
<1>11. CASE WellDone(h) /\ outcome[h] = "Success"
  <2>1. cstate[h] = "Finished" /\ ~hasError[h]
    BY <1>6, <1>11 DEF IndDir
  <2> QED BY <1>1, <1>3, <1>4, <2>1 DEF h
<1>12. CASE WellDone(h) /\ outcome[h] = "Ignored"
  <2>1. cstate[h] = "NotYetStarted" /\ outcome[h] = outcome[First[h]]
    BY <1>6, <1>12 DEF IndDir, WellDone
  <2>2. CASE b \in Kids(h)
    BY <1>4, <1>6, <1>9, <1>12, <2>1, <2>2 DEF GivenUp
  <2>3. CASE b = First[h]
    BY <1>3, <1>4, <1>12, <2>1, <2>3 DEF WellDone, IndOutcome
  <2> QED BY <1>3, <2>2, <2>3
<1> QED BY <1>8, <1>10, <1>11, <1>12 DEF WellDone

LEMMA EtagLastHolds == IInv => EtagLast
<1> SUFFICES ASSUME IInv, NEW d \in stored
             PROVE  \A j \in Under(d) : WellDone(j) \/ GivenUp(j, Under(d))
  BY DEF EtagLast
<1>1. d \in Dirs /\ cstate[d] = "Finished" /\ ~hasError[d]
  BY DEF IInv, TypeOK, IndTree, IndStored, IndDir
<1> QED BY <1>1, Climb, TreeFacts

LEMMA DeletionsLastHolds == IInv => DeletionsLast
<1> SUFFICES ASSUME IInv, NEW r \in Under(Deletions), state[r] # "NotYetStarted",
                    NEW j \in Under(Subs)
             PROVE  WellDone(j) \/ GivenUp(j, Jobs)
  BY DEF DeletionsLast
<1>1. cstate[Subs] = "Finished" /\ ~hasError[Subs]
  BY DEF IInv, IndTree, IndStarted, IndRoot
<1>2. WellDone(j) \/ GivenUp(j, Under(Subs))
  BY <1>1, Climb, TreeFacts
<1> QED BY <1>2 DEF GivenUp, Under

LEMMA SuccessIsTrueHolds == IInv => SuccessIsTrue
<1> SUFFICES ASSUME IInv, finished = "success", NEW j \in Jobs
             PROVE  WellDone(j) \/ GivenUp(j, Jobs)
  BY DEF SuccessIsTrue
<1>1. /\ cstate[Deletions] = "Finished" /\ ~hasError[Deletions]
      /\ cstate[Subs] = "Finished" /\ ~hasError[Subs]
  BY DEF IInv, IndTree, IndRoot
<1>2. j \in Under(Subs) \/ j \in Under(Deletions)
  BY TreeAssumption
<1>3. \/ WellDone(j) \/ GivenUp(j, Under(Subs))
      \/ WellDone(j) \/ GivenUp(j, Under(Deletions))
  BY <1>1, <1>2, Climb, TreeFacts
<1> QED BY <1>3 DEF GivenUp, Under

\* The etag of a directory is in the journal only when everything below it is done.
\* (PropagatorCompositeJob::slotSubJobFinished, PropagateDirectory::slotSubJobsFinished)
THEOREM EtagIsLast == Spec => []EtagLast
BY EtagLastHolds, Inductive, PTL

\* No directory deletion is started before the other jobs all went well.
\* (PropagateRootDirectory::scheduleSelfOrChild and slotSubJobsFinished)
THEOREM DeletionsComeLast == Spec => []DeletionsLast
BY DeletionsLastHolds, Inductive, PTL

\* Success is reported only if every job ended well.
\* (PropagateRootDirectory::slotDirDeletionJobsFinished)
THEOREM SuccessMeansDone == Spec => []SuccessIsTrue
BY SuccessIsTrueHolds, Inductive, PTL
-----------------------------------------------------------------------------
(* What a step may never do.                                               *)

\* Only the walk starts an item, and then it is below the composite that was asked.
LEMMA WhoStarts ==
    ASSUME IInv, Next, NEW i \in Items, state[i] = "NotYetStarted", state'[i] # "NotYetStarted"
    PROVE  \E c \in Comps : AskStarts(c) /\ i \in Under(c)
<1> USE TreeFacts DEF IInv
<1>1. \A d : d \notin Dirs \/ i # d
  OBVIOUS
<1>2. ASSUME NEW c \in Comps, AskStarts(c) PROVE i \in Under(c)
  <2>1. PICK j \in Todo(c) :
           \/ state' = [state EXCEPT ![j] = "Running"]
           \/ /\ j \in Dirs /\ First[j] # NoItem
              /\ state' = [state EXCEPT ![j] = "Running", ![First[j]] = "Running"]
    BY <1>2 DEF AskStarts
  <2>2. j \in Jobs /\ Holder[j] = c
    BY DEF Todo, Kids
  <2>3. i = j \/ (j \in Dirs /\ First[j] # NoItem /\ i = First[j])
    BY <2>1, <2>2 DEF TypeOK
  <2>4. Holder[i] = c \/ (Holder[i] = j /\ j \in Under(c))
    BY <2>2, <2>3, TreeAssumption
  <2> QED BY <2>4, TreeAssumption
<1>3. ASSUME UNCHANGED state PROVE FALSE
  BY <1>3
<1>4. ASSUME NEW k \in Items, state[k] # "NotYetStarted",
             state' = [state EXCEPT ![k] = "Finished"]
      PROVE  FALSE
  BY <1>4 DEF TypeOK
<1>5. ASSUME NEW d \in Dirs \cup {Root}, state' = [state EXCEPT ![d] = "Finished"]
      PROVE  FALSE
  BY <1>5 DEF TypeOK
<1>6. ASSUME NEW k \in Items, Step(k) PROVE FALSE
  <2>1. ASSUME NEW status \in Statuses,
               StartDone(k, status) \/ NetworkDone(k, status) \/ CheckDone(k, status)
        PROVE  FALSE
    BY <1>4, <2>1 DEF StartDone, NetworkDone, CheckDone, Done, IndActive
  <2>2. ASSUME CancelItem(k) PROVE FALSE
    BY <1>4, <2>2 DEF CancelItem, Done, IndActive
  <2>3. StartNetwork(k) \/ NextRequest(k) \/ GoOffline(k) \/ PermissionLost(k) \/ DropEntry(k)
            \/ CancelUpload(k) \/ Swallowed(k) => UNCHANGED state
    BY DEF StartNetwork, NextRequest, GoOffline, PermissionLost, DropEntry, CancelUpload,
       Swallowed, jobVars
  <2> QED BY <1>3, <1>6, <2>1, <2>2, <2>3 DEF Step
<1>7. ASSUME NEW d \in Dirs, FirstJobFinished(d) \/ SubJobsFinished(d) PROVE FALSE
  <2>1. UNCHANGED state \/ state' = [state EXCEPT ![d] = "Finished"]
    BY <1>7 DEF FirstJobFinished, SubJobsFinished
  <2> QED BY <1>3, <1>5, <2>1
<1>8. RootSubJobsFinished \/ DirDeletionJobsFinished => FALSE
  <2>1. RootSubJobsFinished \/ DirDeletionJobsFinished =>
            UNCHANGED state \/ state' = [state EXCEPT ![Root] = "Finished"]
    BY DEF RootSubJobsFinished, DirDeletionJobsFinished
  <2> QED BY <1>3, <1>5, <2>1
<1>9. \A c \in Comps, j \in Jobs : AskPasses(c) \/ FinalizeComposite(c) \/ SubJobFinished(j)
                                      => UNCHANGED state
  BY DEF AskPasses, FinalizeComposite, SubJobFinished
<1>10. Tick \/ AskEnds \/ UserAbort \/ AbortEvent \/ AbortFinished \/ AbortTimeout
          \/ ReleasePropagator \/ Released => UNCHANGED state
  BY DEF Tick, AskEnds, UserAbort, AbortEvent, AbortFinished, AbortTimeout, ReleasePropagator,
     Released, vars, jobVars
<1> QED BY <1>2, <1>3, <1>6, <1>7, <1>8, <1>9, <1>10 DEF Next

\* While a job that is not parallel runs, nothing that follows it in the tree starts.
\* (PropagatorCompositeJob::scheduleSelfOrChild and parallelism)
THEOREM FollowersDoWait == Spec => FollowersWait
<1>1. ASSUME IInv, Next, NEW w \in Exclusive, NEW i \in Items,
             state[w] = "Running", state[i] = "NotYetStarted", state'[i] # "NotYetStarted"
      PROVE  Turn[i] < Turn[w]
  <2>1. PICK c \in Comps : AskStarts(c) /\ i \in Under(c)
    BY <1>1, WhoStarts
  <2>2. ~(Turn[w] < Turn[c])
    BY <1>1, <2>1 DEF AskStarts, IsEarliest, Askable, Blocked
  <2>3. Turn[i] < Turn[c]
    BY <2>1 DEF Under
  <2>4. Turn[i] \in Nat /\ Turn[w] \in Nat /\ Turn[c] \in Nat
    BY TreeAssumption, JobAssumption
  <2> QED BY <2>2, <2>3, <2>4
<1>2. IInv /\ [Next]_vars =>
          [\A w \in Exclusive, i \in Items :
              /\ state[w] = "Running" /\ i # w
              /\ state[i] = "NotYetStarted" /\ state'[i] # "NotYetStarted"
              => Turn[i] < Turn[w]]_vars
  BY <1>1
<1> QED BY <1>2, Inductive, PTL DEF Spec, FollowersWait

-----------------------------------------------------------------------------
(* Module Propagator implements module Propagation.                         *)

Phase == [i \in Items |-> PhaseOf(i)]
PromisedStep == Promise!Next \/ (Phase' = Phase /\ finished' = finished)

LEMMA EarlyAndLate ==
    /\ (Items \cap Under(Subs)) \cup (Items \cap Under(Deletions)) = Items
    /\ \A i \in Items : ~(i \in Under(Subs) /\ i \in Under(Deletions))
<1>1. \A i \in Items : i \in Under(Subs) \/ i \in Under(Deletions)
  BY TreeAssumption, TreeFacts
<1>2. ASSUME NEW i \in Items, i \in Under(Subs), i \in Under(Deletions) PROVE FALSE
  <2>1. Turn[i] < Turn[Subs] /\ Turn[Subs] < Turn[i]
    BY <1>2, TreeAssumption DEF Under
  <2>2. Turn[i] \in Nat /\ Turn[Subs] \in Nat
    BY TreeAssumption, TreeFacts
  <2> QED BY <2>1, <2>2
<1> QED BY <1>1, <1>2

\* Items whose state and status stay are in the phase they were in.
LEMMA PhaseKept ==
    ASSUME NEW i \in Items, state'[i] = state[i], outcome'[i] = outcome[i]
    PROVE  PhaseOf(i)' = PhaseOf(i)
BY DEF PhaseOf

LEMMA InitPromise == Init => Promise!Init
<1> SUFFICES ASSUME Init PROVE Promise!Init
  OBVIOUS
<1>1. \A i \in Items : PhaseOf(i) = "waiting"
  BY TreeFacts DEF Init, PhaseOf
<1>2. finished = "no"
  BY DEF Init
<1> QED BY <1>1, <1>2, EarlyAndLate DEF Promise!Init

\* An item starts: the walk only reaches the deletions when the rest went well.
LEMMA StartIsBegin ==
    ASSUME IInv, IInv', NEW i \in Items, ticking,
           state[i] = "NotYetStarted", state'[i] = "Running",
           \A k \in Items \ {i} : state'[k] = state[k],
           UNCHANGED <<outcome, finished>>
    PROVE  Promise!Next
<1> USE EarlyAndLate, TreeFacts
<1>1. Phase' = [Phase EXCEPT ![i] = "running"] /\ Phase[i] = "waiting"
  <2>1. \A k \in Items \ {i} : PhaseOf(k)' = PhaseOf(k)
    BY PhaseKept
  <2>2. PhaseOf(i) = "waiting" /\ PhaseOf(i)' = "running"
    BY DEF PhaseOf
  <2> QED BY <2>1, <2>2 DEF Phase
<1>2. finished # "success"
  BY DEF IInv, IndTree, IndSignal, IndRoot
<1>3. ASSUME i \in Under(Deletions), NEW k \in Items, k \in Under(Subs)
      PROVE  Phase[k] \in {"waiting", "good"}
  <2>1. k # i
    BY <1>3
  <2>2. DeletionsLast'
    BY DeletionsLastHolds, PTL
  <2>3. WellDone(k)' \/ GivenUp(k, Jobs)'
    BY <1>3, <2>2 DEF DeletionsLast
  <2>4. state[k] = state'[k] /\ outcome[k] = outcome'[k]
    BY <2>1
  <2>5. PhaseOf(k) \in {"waiting", "good"}
    BY <2>3, <2>4 DEF WellDone, GivenUp, PhaseOf
  <2> QED BY <2>5 DEF Phase
<1> QED BY <1>1, <1>2, <1>3 DEF Promise!Next, Promise!Begin, Promise!Settled, Phase

\* An item is done.
LEMMA DoneIsEnd ==
    ASSUME TypeOK, NEW i \in Items, NEW status \in Statuses, state[i] = "Running",
           Done(i, status)
    PROVE  Promise!Next
<1> USE EarlyAndLate, TreeFacts
<1>1. /\ \A k \in Items \ {i} : state'[k] = state[k] /\ outcome'[k] = outcome[k]
      /\ state'[i] = "Finished" /\ finished' = finished
  BY DEF Done, TypeOK, endVars
<1>2. \A k \in Items \ {i} : PhaseOf(k)' = PhaseOf(k)
  BY <1>1, PhaseKept
<1>3. PhaseOf(i) = "running" /\ PhaseOf(i)' \in {"good", "bad"}
  BY <1>1 DEF PhaseOf
<1>4. PICK p \in {"good", "bad"} : Phase' = [Phase EXCEPT ![i] = p]
  <2> DEFINE p == PhaseOf(i)'
  <2>1. p \in {"good", "bad"}
    BY <1>3
  <2>2. Phase' = [Phase EXCEPT ![i] = p]
    BY <1>2 DEF Phase
  <2> HIDE DEF p
  <2> QED BY <2>1, <2>2
<1>5. Phase[i] = "running"
  BY <1>3 DEF Phase
<1> QED BY <1>1, <1>4, <1>5 DEF Promise!Next, Promise!End, Phase

\* The items stay as they are, and at most an announcement is made.
LEMMA EndIsAnnounce ==
    ASSUME IInv', \A k \in Items : state'[k] = state[k] /\ outcome'[k] = outcome[k],
           \/ finished' = finished
           \/ finished = "no" /\ finished' \in {"success", "failure"}
    PROVE  PromisedStep
<1> USE EarlyAndLate, TreeFacts
<1>1. Phase' = Phase
  <2>1. \A k \in Items : PhaseOf(k)' = PhaseOf(k)
    BY PhaseKept
  <2> QED BY <2>1 DEF Phase
<1>2. CASE finished' = finished
  BY <1>1, <1>2 DEF PromisedStep
<1>3. CASE finished = "no" /\ finished' \in {"success", "failure"}
  <2>1. ASSUME finished' = "success", NEW k \in Items PROVE Phase[k] \in {"waiting", "good"}
    <3>1. SuccessIsTrue'
      BY SuccessIsTrueHolds, PTL
    <3>2. WellDone(k)' \/ GivenUp(k, Jobs)'
      BY <2>1, <3>1 DEF SuccessIsTrue
    <3>3. PhaseOf(k)' \in {"waiting", "good"}
      BY <3>2 DEF WellDone, GivenUp, PhaseOf
    <3> QED BY <1>1, <3>3 DEF Phase
  <2>2. Promise!Announce(finished')
    BY <1>1, <1>3, <2>1 DEF Promise!Announce, Promise!Settled, Phase
  <2> QED BY <1>3, <2>2 DEF Promise!Next, PromisedStep
<1> QED BY <1>2, <1>3

LEMMA NextPromise == IInv /\ IInv' /\ [Next]_vars => PromisedStep
<1> SUFFICES ASSUME IInv, IInv', [Next]_vars PROVE PromisedStep
  OBVIOUS
<1> USE TreeFacts
<1>1. TypeOK
  BY DEF IInv
<1>2. ASSUME UNCHANGED <<state, outcome, finished>> PROVE PromisedStep
  BY <1>2, EndIsAnnounce
<1>3. ASSUME NEW c \in Comps, AskStarts(c) PROVE PromisedStep
  <2>1. PICK j \in Todo(c) :
           \/ /\ j \in Items
              /\ state' = [state EXCEPT ![j] = "Running"]
           \/ /\ j \in Dirs /\ First[j] # NoItem
              /\ state' = [state EXCEPT ![j] = "Running", ![First[j]] = "Running"]
           \/ /\ j \in Dirs /\ First[j] = NoItem
              /\ state' = [state EXCEPT ![j] = "Running"]
    BY <1>3 DEF AskStarts
  <2>2. j \in Jobs /\ state[j] = "NotYetStarted"
    BY DEF Todo, Kids
  <2>3. ticking /\ UNCHANGED <<outcome, finished>>
    BY <1>3 DEF AskStarts, endVars
  <2>4. ASSUME NEW i \in Items, state[i] = "NotYetStarted", state'[i] = "Running",
               \A k \in Items \ {i} : state'[k] = state[k]
        PROVE  PromisedStep
    BY <2>3, <2>4, StartIsBegin DEF PromisedStep
  <2>5. CASE j \in Items /\ state' = [state EXCEPT ![j] = "Running"]
    <3>1. state'[j] = "Running" /\ \A k \in Items \ {j} : state'[k] = state[k]
      BY <1>1, <2>5 DEF TypeOK
    <3> QED BY <2>2, <2>4, <2>5, <3>1
  <2>6. CASE /\ j \in Dirs /\ First[j] # NoItem
             /\ state' = [state EXCEPT ![j] = "Running", ![First[j]] = "Running"]
    <3>1. First[j] \in Items /\ state[First[j]] = "NotYetStarted"
      BY <2>2, <2>6 DEF IInv, IndTree, IndStarted
    <3>2. state'[First[j]] = "Running" /\ \A k \in Items \ {First[j]} : state'[k] = state[k]
      BY <1>1, <2>6, <3>1 DEF TypeOK
    <3> QED BY <2>4, <3>1, <3>2
  <2>7. CASE j \in Dirs /\ state' = [state EXCEPT ![j] = "Running"]
    <3>1. \A k \in Items : state'[k] = state[k] /\ outcome'[k] = outcome[k]
      BY <1>1, <2>3, <2>7 DEF TypeOK
    <3> QED BY <2>3, <3>1, EndIsAnnounce
  <2> QED BY <2>1, <2>5, <2>6, <2>7
<1>4. ASSUME NEW i \in Items, Step(i) PROVE PromisedStep
  <2>1. ASSUME NEW status \in Statuses,
               StartDone(i, status) \/ NetworkDone(i, status) \/ CheckDone(i, status)
        PROVE  PromisedStep
    <3>1. state[i] = "Running"
      BY <1>1, <2>1, IdleFacts DEF StartDone, NetworkDone, CheckDone, IInv, IndActive
    <3>2. Done(i, status)
      BY <2>1 DEF StartDone, NetworkDone, CheckDone
    <3> QED BY <1>1, <3>1, <3>2, DoneIsEnd DEF PromisedStep
  <2>2. ASSUME CancelItem(i) PROVE PromisedStep
    <3>1. state[i] = "Running" /\ "Fatal" \in Statuses
      BY <2>2 DEF CancelItem, IInv, IndActive, Statuses
    <3> QED BY <1>1, <2>2, <3>1, DoneIsEnd DEF CancelItem, PromisedStep
  <2>3. ASSUME \/ StartNetwork(i) \/ NextRequest(i) \/ GoOffline(i) \/ PermissionLost(i)
               \/ DropEntry(i) \/ CancelUpload(i) \/ Swallowed(i)
        PROVE  PromisedStep
    BY <1>2, <2>3 DEF StartNetwork, NextRequest, GoOffline, PermissionLost, DropEntry, CancelUpload,
       Swallowed, jobVars, endVars
  <2> QED BY <1>4, <2>1, <2>2, <2>3 DEF Step
<1>5. ASSUME NEW d \in Dirs, FirstJobFinished(d) \/ SubJobsFinished(d) PROVE PromisedStep
  <2>1. /\ state' = state \/ state' = [state EXCEPT ![d] = "Finished"]
        /\ outcome' = outcome \/ \E s : outcome' = [outcome EXCEPT ![d] = s]
        /\ finished' = finished
    BY <1>5 DEF FirstJobFinished, SubJobsFinished, endVars
  <2>2. \A k \in Items : state'[k] = state[k] /\ outcome'[k] = outcome[k]
    BY <1>1, <2>1 DEF TypeOK
  <2> QED BY <2>1, <2>2, EndIsAnnounce
<1>6. ASSUME NEW status \in {"success", "failure"}, EmitFinished(status)
      PROVE  finished' = finished \/ (finished = "no" /\ finished' \in {"success", "failure"})
  BY <1>6 DEF EmitFinished
<1>7. CASE RootSubJobsFinished \/ DirDeletionJobsFinished
  <2>1. \A k \in Items : state'[k] = state[k] /\ outcome'[k] = outcome[k]
    BY <1>1, <1>7 DEF RootSubJobsFinished, DirDeletionJobsFinished, TypeOK
  <2>2. finished' = finished \/ (finished = "no" /\ finished' \in {"success", "failure"})
    <3>1. CASE RootSubJobsFinished
      BY <1>6, <3>1 DEF RootSubJobsFinished
    <3>2. CASE DirDeletionJobsFinished
      BY <1>6, <3>2 DEF DirDeletionJobsFinished
    <3> QED BY <1>7, <3>1, <3>2
  <2> QED BY <2>1, <2>2, EndIsAnnounce
<1>8. CASE AbortFinished \/ AbortTimeout
  <2>1. UNCHANGED <<state, outcome>>
    BY <1>8 DEF AbortFinished, AbortTimeout, jobVars
  <2>2. finished' = finished \/ (finished = "no" /\ finished' \in {"success", "failure"})
    BY <1>6, <1>8 DEF AbortFinished, AbortTimeout
  <2> QED BY <2>1, <2>2, EndIsAnnounce
<1>9. CASE Tick \/ AskEnds \/ UserAbort \/ AbortEvent \/ ReleasePropagator
  BY <1>2, <1>9 DEF Tick, AskEnds, UserAbort, AbortEvent, ReleasePropagator, jobVars, endVars
<1>10. ASSUME NEW c \in Comps, AskPasses(c) \/ FinalizeComposite(c) PROVE PromisedStep
  BY <1>2, <1>10 DEF AskPasses, FinalizeComposite, endVars
<1>11. ASSUME NEW j \in Jobs, SubJobFinished(j) PROVE PromisedStep
  BY <1>2, <1>11 DEF SubJobFinished, endVars
<1>12. CASE UNCHANGED vars
  BY <1>2, <1>12 DEF vars, jobVars, endVars
<1> QED
  BY <1>3, <1>4, <1>5, <1>7, <1>8, <1>9, <1>10, <1>11, <1>12 DEF Next, Released

\* The job tree, its scheduler and its aborts keep the promise of module Propagation:
\* an item is worked on at most once, deletions after everything else went well, and
\* success is announced only of a sync that went well.  (OwncloudPropagator)
THEOREM Refines == Spec => KeepsPromise
<1>1. PromisedStep => [Promise!Next]_(Promise!vars)
  BY DEF PromisedStep, Promise!vars, Phase
<1> QED
  BY <1>1, InitPromise, NextPromise, Inductive, PTL DEF Spec, KeepsPromise, Promise!Spec
=============================================================================
