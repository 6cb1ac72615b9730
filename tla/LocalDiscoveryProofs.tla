------------------------ MODULE LocalDiscoveryProofs ------------------------
(***************************************************************************)
(* Proofs about module LocalDiscovery, for every tree of paths.            *)
(***************************************************************************)
EXTENDS LocalDiscovery, TLAPS

\* An item names paths of the folder.
LEMMA ItemPaths ==
    ASSUME NEW i \in Items
    PROVE  /\ i.file \in Paths /\ i.target \in Paths \cup {NoPath}
           /\ Files(i) \subseteq Paths
           /\ i.file \in Files(i)
BY PathsAssumption DEF Items, Files

\* An item discovery makes is one of Items.
LEMMA NewItems ==
    /\ \A q \in Paths : [file |-> q, target |-> NoPath] \in Items
    /\ \A r \in Renames : [file |-> r[1], target |-> r[2]] \in Items
BY DEF Items

-----------------------------------------------------------------------------
(* Types, whatever the Troubles are.                                       *)

LEMMA TypesKept == TypeOK /\ [Next]_vars => TypeOK'
<1> SUFFICES ASSUME TypeOK, [Next]_vars PROVE TypeOK'
  OBVIOUS
<1> USE PathsAssumption DEF watcherVars, trackerVars, engineVars, runVars
<1>1. ASSUME NEW p \in Paths, Edit(p) \/ DropIn(p) \/ EditUnwatched(p)
      PROVE  TypeOK'
  <2>1. edits' \in 0 .. MaxEdits
    BY <1>1 DEF TypeOK, Edit, DropIn, EditUnwatched, Change
  <2> QED BY <1>1, <2>1 DEF TypeOK, Edit, DropIn, EditUnwatched, Change, Below
<1>2. ASSUME NEW p \in Paths, Report(p) \/ SwallowReport(p)
      PROVE  TypeOK'
  BY <1>2 DEF TypeOK, Report, SwallowReport
<1>3. ASSUME NEW p \in Paths, Discover(p)
      PROVE  TypeOK'
  BY <1>3, NewItems DEF TypeOK, Discover, Readable
<1>4. ASSUME NEW r \in Renames, DiscoverRename(r[1], r[2])
      PROVE  TypeOK'
  BY <1>4, NewItems DEF TypeOK, DiscoverRename, Readable
<1>5. ASSUME NEW i \in items, ItemSucceeds(i) \/ ItemFails(i)
      PROVE  TypeOK'
  <2>1. i.file \in Paths
    BY ItemPaths DEF TypeOK
  <2>2. CASE ItemSucceeds(i)
    BY <2>1, <2>2 DEF TypeOK, ItemSucceeds, WipedPrevious, TouchedAfterSuccess
  <2>3. CASE ItemFails(i)
    BY <2>1, <2>3 DEF TypeOK, ItemFails, TouchedAfterFailure
  <2> QED BY <1>5, <2>2, <2>3
<1>6. CASE SecondPasses \/ slotNextSyncFullLocalDiscovery \/ BecomeUnreliable \/ Expire
  BY <1>6 DEF TypeOK, SecondPasses, slotNextSyncFullLocalDiscovery, BecomeUnreliable, Expire
<1>7. CASE StartSync
  BY <1>7 DEF TypeOK, StartSync, Styles
<1>8. CASE BeginDiscovery \/ DiscoveryFinished \/ slotSyncFinished
  BY <1>8 DEF TypeOK, BeginDiscovery, DiscoveryFinished, slotSyncFinished
<1>9. CASE Break \/ PropagationFinished
  BY <1>9 DEF TypeOK, Break, PropagationFinished, Finalize, KeptPaths, Styles
<1>10. CASE Restart
  BY <1>10 DEF TypeOK, Restart, Styles
<1>11. CASE UNCHANGED vars
  BY <1>11 DEF TypeOK, vars
<1> QED
  BY <1>1, <1>2, <1>3, <1>4, <1>5, <1>6, <1>7, <1>8, <1>9, <1>10, <1>11 DEF Next

LEMMA TypesBegin == Init => TypeOK
<1> SUFFICES ASSUME Init PROVE TypeOK
  OBVIOUS
<1>1. edits \in 0 .. MaxEdits
  BY PathsAssumption DEF Init
<1>2. items \subseteq Items
  BY DEF Init
<1> QED
  BY <1>1, <1>2 DEF Init, TypeOK, Styles

\* Every variable keeps its type.
THEOREM Types == Spec => []TypeOK
BY TypesBegin, TypesKept, PTL DEF Spec

-----------------------------------------------------------------------------
(* The invariant, without Troubles.                                        *)

LEMMA IInvBegins == Init => IInv
<1> SUFFICES ASSUME Init PROVE IInv
  OBVIOUS
<1>1. TypeOK
  BY TypesBegin
<1> QED
  BY <1>1, PathsAssumption DEF Init, IInv, Spaced, Remembered, NextIsFull, DoneOrKnown,
     RestlessKnown, FullStaysDue, FullRunUnderWay, RunShape, Idle

LEMMA IInvKept == Troubles = {} /\ IInv /\ [Next]_vars => IInv'
<1> SUFFICES ASSUME Troubles = {}, IInv, [Next]_vars PROVE IInv'
  OBVIOUS
<1>0. TypeOK /\ TypeOK'
  BY TypesKept DEF IInv
<1> USE <1>0 DEF watcherVars, trackerVars, engineVars, runVars, Known, NextIsFull, Idle
<1>1. ASSUME NEW p \in Paths, Edit(p)
      PROVE  IInv'
  BY <1>1 DEF IInv, Spaced, Remembered, DoneOrKnown, RestlessKnown, FullStaysDue,
     RunShape, Looked, FullRunUnderWay, Edit, Change
<1>2. ASSUME NEW p \in Paths, DropIn(p)
      PROVE  IInv'
  BY <1>2 DEF DropIn
<1>3. ASSUME NEW p \in Paths, EditUnwatched(p)
      PROVE  IInv'
  BY <1>3 DEF IInv, Spaced, Remembered, DoneOrKnown, RestlessKnown, FullStaysDue,
     RunShape, Looked, EditUnwatched
<1>4. ASSUME NEW p \in Paths, Report(p)
      PROVE  IInv'
  BY <1>4 DEF IInv, Spaced, Remembered, DoneOrKnown, RestlessKnown, FullStaysDue,
     RunShape, Looked, FullRunUnderWay, Report
<1>5. ASSUME NEW p \in Paths, SwallowReport(p)
      PROVE  IInv'
  BY <1>5 DEF IInv, Spaced, SwallowReport
<1>6. ASSUME NEW p \in Paths, Discover(p)
      PROVE  IInv'
  <2>1. Spaced' /\ Remembered' /\ RestlessKnown' /\ FullStaysDue' /\ RunShape'
    BY <1>6 DEF IInv, Spaced, Remembered, RestlessKnown, FullStaysDue, RunShape,
       FullRunUnderWay, Discover, Readable
  <2>2. DoneOrKnown'
    <3>1. ASSUME NEW q \in dirty' \cap seen'
          PROVE  q \in restless' \/ failed' \/ \E i \in items' : q \in Files(i)
      <4>1. CASE q = p
        <5> DEFINE i == [file |-> q, target |-> NoPath]
        <5>1. i \in items' /\ q \in Files(i)
          BY <1>6, <3>1, <4>1, PathsAssumption DEF Discover, Files, TypeOK
        <5> QED BY <5>1
      <4>2. CASE q # p
        BY <1>6, <3>1, <4>2 DEF IInv, DoneOrKnown, Discover, Readable
      <4> QED BY <4>1, <4>2
    <3> QED BY <1>6, <3>1 DEF Discover, Readable, DoneOrKnown
  <2> QED BY <2>1, <2>2 DEF IInv
<1>7. ASSUME NEW r \in Renames, DiscoverRename(r[1], r[2])
      PROVE  IInv'
  <2>1. Spaced' /\ Remembered' /\ RestlessKnown' /\ FullStaysDue' /\ RunShape'
    BY <1>7 DEF IInv, Spaced, Remembered, RestlessKnown, FullStaysDue, RunShape,
       FullRunUnderWay, DiscoverRename, Readable
  <2>2. DoneOrKnown'
    <3>1. ASSUME NEW q \in dirty' \cap seen'
          PROVE  q \in restless' \/ failed' \/ \E i \in items' : q \in Files(i)
      <4>1. CASE q \in {r[1], r[2]}
        <5> DEFINE i == [file |-> r[1], target |-> r[2]]
        <5>1. i \in items' /\ q \in Files(i)
          BY <1>7, <3>1, <4>1, PathsAssumption DEF DiscoverRename, Files, TypeOK
        <5> QED BY <5>1
      <4>2. CASE q \notin {r[1], r[2]}
        <5>1. q \in dirty \cap seen /\ restless' = restless /\ failed' = failed
          BY <1>7, <3>1, <4>2 DEF DiscoverRename
        <5>2. ASSUME NEW i \in items, q \in Files(i)
              PROVE  i \in items'
          BY <1>7, <4>2, <5>2 DEF DiscoverRename, Files
        <5> QED BY <1>7, <5>1, <5>2 DEF IInv, DoneOrKnown, DiscoverRename, Readable
      <4> QED BY <4>1, <4>2
    <3> QED BY <1>7, <3>1 DEF DiscoverRename, Readable, DoneOrKnown
  <2> QED BY <2>1, <2>2 DEF IInv
<1>8. ASSUME NEW i \in items, ItemSucceeds(i)
      PROVE  IInv'
  BY <1>8 DEF IInv, Spaced, Remembered, DoneOrKnown, RestlessKnown, FullStaysDue,
     RunShape, Looked, FullRunUnderWay, ItemSucceeds, WipedPrevious, TouchedAfterSuccess
<1>9. ASSUME NEW i \in items, ItemFails(i)
      PROVE  IInv'
  BY <1>9 DEF IInv, Spaced, Remembered, DoneOrKnown, RestlessKnown, FullStaysDue,
     RunShape, Looked, FullRunUnderWay, ItemFails, TouchedAfterFailure
<1>10. CASE SecondPasses
  BY <1>10, PathsAssumption DEF IInv, TypeOK, Spaced, Remembered, DoneOrKnown,
     RestlessKnown, FullStaysDue, RunShape, Looked, FullRunUnderWay, SecondPasses
<1>11. CASE slotNextSyncFullLocalDiscovery
  <2>1. PICK lost \in SUBSET notices :
               /\ lost = {} \/ ~FullRunUnderWay
               /\ notices' = notices \ lost
    BY <1>11 DEF slotNextSyncFullLocalDiscovery
  <2>2. /\ timer' = "invalid"
        /\ UNCHANGED <<dirty, reported, reliable, edits, trackerVars, phase, engineVars,
                       runVars, success>>
    BY <1>11 DEF slotNextSyncFullLocalDiscovery
  <2>3. ASSUME lost = {} PROVE IInv'
    <3>1. UNCHANGED <<watcherVars, trackerVars, phase, engineVars, runVars, success>>
      BY <2>1, <2>2, <2>3
    <3>2. timer' = "invalid"
      BY <2>2
    <3> QED BY <3>1, <3>2 DEF IInv, Spaced, Remembered, DoneOrKnown, RestlessKnown,
       FullStaysDue, RunShape, Looked, FullRunUnderWay
  <2>4. ASSUME ~FullRunUnderWay PROVE IInv'
    <3>1. NextIsFull'
      BY <2>2
    <3>2. Spaced' /\ RunShape'
      BY <2>1, <2>2, <2>4, <3>1 DEF IInv, Spaced, RunShape
    <3>3. Remembered' /\ FullStaysDue'
      BY <2>1, <2>2, <2>4, <3>1 DEF IInv, Remembered, FullStaysDue
    <3>4. DoneOrKnown'
      BY <2>1, <2>2, <2>4, <3>1 DEF IInv, DoneOrKnown, FullRunUnderWay, Looked
    <3>5. RestlessKnown'
      BY <2>1, <2>2, <2>4, <3>1 DEF IInv, RestlessKnown, RunShape, FullRunUnderWay, TypeOK
    <3> QED BY <3>2, <3>3, <3>4, <3>5 DEF IInv
  <2> QED BY <2>1, <2>3, <2>4
<1>12. CASE BecomeUnreliable
  BY <1>12 DEF IInv, Spaced, Remembered, DoneOrKnown, RestlessKnown, FullStaysDue,
     RunShape, Looked, BecomeUnreliable
<1>13. CASE Expire
  BY <1>13 DEF IInv, Spaced, Remembered, DoneOrKnown, RestlessKnown, FullStaysDue,
     RunShape, Looked, Expire
<1>14. CASE StartSync
  BY <1>14 DEF IInv, Spaced, Remembered, DoneOrKnown, RestlessKnown, FullStaysDue,
     RunShape, FullRunUnderWay, StartSync
<1>15. CASE BeginDiscovery
  BY <1>15 DEF IInv, Spaced, Remembered, DoneOrKnown, RestlessKnown, FullStaysDue,
     RunShape, FullRunUnderWay, BeginDiscovery
<1>16. CASE Break
  BY <1>16 DEF IInv, Spaced, Remembered, DoneOrKnown, RestlessKnown, FullStaysDue,
     RunShape, FullRunUnderWay, Break, Finalize, KeptPaths
<1>17. CASE DiscoveryFinished
  BY <1>17 DEF IInv, Spaced, Remembered, DoneOrKnown, RestlessKnown, FullStaysDue,
     RunShape, Looked, FullRunUnderWay, DiscoveryFinished
<1>18. CASE PropagationFinished
  <2>1. phase = "propagation" /\ items = {} /\ Finalize(~failed)
    BY <1>18 DEF PropagationFinished
  <2>2. ASSUME ~failed, NEW p \in dirty
        PROVE  \/ p \in Known
               \/ IF style = "FilesystemOnly" THEN ~reliable ELSE NextIsFull
    <3>1. Looked(p) => p \in restless
      BY <2>1, <2>2 DEF IInv, DoneOrKnown, TypeOK
    <3>2. p \in enginePaths => Looked(p)
      BY DEF Looked
    <3>3. CASE style = "FilesystemOnly"
      BY <3>1, <3>3 DEF IInv, RestlessKnown, Looked
    <3>4. CASE style # "FilesystemOnly"
      BY <3>1, <3>2, <3>4 DEF IInv, Remembered, RestlessKnown, RunShape
    <3> QED BY <3>3, <3>4
  <2> QED BY <2>1, <2>2 DEF IInv, Spaced, Remembered, DoneOrKnown, RestlessKnown,
     FullStaysDue, RunShape, FullRunUnderWay, Finalize, KeptPaths
<1>19. CASE slotSyncFinished
  BY <1>19 DEF IInv, Spaced, Remembered, DoneOrKnown, RestlessKnown, FullStaysDue,
     RunShape, FullRunUnderWay, slotSyncFinished, RestartsTimer
<1>20. CASE Restart
  BY <1>20 DEF IInv, Spaced, Remembered, DoneOrKnown, RestlessKnown, FullStaysDue,
     RunShape, Restart
<1>21. CASE UNCHANGED vars
  BY <1>21 DEF IInv, Spaced, Remembered, DoneOrKnown, RestlessKnown, FullStaysDue,
     RunShape, Looked, FullRunUnderWay, vars
<1> QED
  BY <1>1, <1>2, <1>3, <1>4, <1>5, <1>6, <1>7, <1>8, <1>9, <1>10, <1>11, <1>12, <1>13,
     <1>14, <1>15, <1>16, <1>17, <1>18, <1>19, <1>20, <1>21 DEF Next

\* Without Troubles, IInv holds throughout.
THEOREM Inductive ==
    ASSUME Troubles = {}
    PROVE  Spec => []IInv
<1>1. Init => IInv
  BY IInvBegins
<1>2. IInv /\ [Next]_vars => IInv'
  BY IInvKept
<1> QED
  BY <1>1, <1>2, PTL DEF Spec

\* Without Troubles, a path that is not synchronised is remembered, or its item is under
\* way, or the next run reads the whole folder.
THEOREM NothingIsForgotten ==
    ASSUME Troubles = {}
    PROVE  Spec => []NothingForgotten
<1>1. IInv => NothingForgotten
  BY DEF IInv, Remembered, NothingForgotten, Known, Covered
<1> QED
  BY <1>1, Inductive, PTL

\* Without Troubles, a run that is not full looks at every path that is not synchronised
\* and whose change was reported before it.
THEOREM PartialRunsLook ==
    ASSUME Troubles = {}
    PROVE  Spec => []PartialRunLooks
<1>1. IInv => PartialRunLooks
  BY DEF IInv, Remembered, RunShape, PartialRunLooks, Known, Covered, Looked
<1> QED
  BY <1>1, Inductive, PTL

\* Without Troubles, the interval since the last full discovery begins only when every
\* path that is not synchronised is known.
THEOREM TrustIsEarnedByRuns ==
    ASSUME Troubles = {}
    PROVE  Spec => TrustIsEarned
<1>1. IInv /\ [Next]_vars =>
          (timer' = "running" /\ timer # "running" =>
              \A p \in dirty : Covered(p, Known) \/ ~reliable)
  <2> SUFFICES ASSUME IInv, [Next]_vars, timer' = "running", timer # "running"
               PROVE  \A p \in dirty : Covered(p, Known) \/ ~reliable
    OBVIOUS
  <2>1. slotSyncFinished
    BY DEF Next, vars, watcherVars, trackerVars, engineVars, runVars, Edit, DropIn,
       EditUnwatched, Change, Report, SwallowReport, Discover, DiscoverRename,
       ItemSucceeds, ItemFails, SecondPasses, slotNextSyncFullLocalDiscovery,
       BecomeUnreliable, Expire, StartSync, BeginDiscovery, Break, Finalize,
       DiscoveryFinished, PropagationFinished, Restart
  <2>2. phase = "finished" /\ success /\ lastStyle = "FilesystemOnly"
    BY <2>1 DEF slotSyncFinished, RestartsTimer
  <2> QED
    BY <2>2 DEF IInv, DoneOrKnown, Covered
<1>2. IInv /\ [Next]_vars =>
          [timer' = "running" /\ timer # "running" =>
              \A p \in dirty : Covered(p, notices \cup localDiscoveryPaths) \/ ~reliable]_vars
  BY <1>1 DEF Known
<1> QED
  BY <1>2, Inductive, PTL DEF Spec, TrustIsEarned
=============================================================================
