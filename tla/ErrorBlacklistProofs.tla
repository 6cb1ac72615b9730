-------------------------- MODULE ErrorBlacklistProofs --------------------------
(***************************************************************************)
(* For all times and all states of a file: what the blacklist records has  *)
(* its type, the time a file is left alone grows, and only what has failed *)
(* is skipped.  TLC shows the same for the instance of MCErrorBlacklist,   *)
(* and that a skipped file is tried again.                                 *)
(***************************************************************************)
EXTENDS ErrorBlacklist, TLAPS

\* An ignore duration lies between the least and the greatest time, whatever was there before.
LEMMA BoundedTime ==
  ASSUME entry = None \/ entry \in Entry, NEW code \in Codes
  PROVE  /\ Bounded(code) \in MinTime .. MaxTime
         /\ Bounded(code) \in Nat \ {0}
         /\ OldDuration \in Nat
<1>1. OldDuration \in Nat
  BY TimesAssumption DEF OldDuration, Entry, Times
<1>2. Wanted(code) \in Nat
  BY <1>1, TimesAssumption DEF Wanted, Lesser
<1>3. QED
  BY <1>1, <1>2, TimesAssumption DEF Bounded, Lesser, Greater

\* createBlacklistEntry makes a row of the table; after a soft error it hides nothing, after any
\* other it hides the file for the whole of its duration.
LEMMA NewEntryType ==
  ASSUME entry = None \/ entry \in Entry, item \in Item,
         NEW status, NEW code \in Codes
  PROVE  /\ NewEntry(status, code) \in Entry
         /\ NewEntry(status, code).left = NewEntry(status, code).duration
         /\ NewEntry(status, code).tag = item.tag
         /\ status = "SoftError" => NewEntry(status, code).left = 0
         /\ status # "SoftError" => NewEntry(status, code).duration = Bounded(code)
<1> DEFINE d == IF status = "SoftError" THEN 0 ELSE Bounded(code)
           r == IF entry = None THEN 1 ELSE Lesser(entry.retries + 1, MaxRetries)
<1>1. d \in Times /\ d \in 0 .. MaxTime
  BY BoundedTime, TimesAssumption DEF Times
<1>2. r \in 1 .. MaxRetries
  BY TimesAssumption DEF Lesser, Entry
<1>3. item.tag \in AnyTag
  BY DEF Item
<1>4. NewEntry(status, code) = [tag |-> item.tag, duration |-> d, left |-> d, retries |-> r]
  BY DEF NewEntry
<1>5. QED
  BY <1>1, <1>2, <1>3, <1>4 DEF Entry

\* A row that hides a file belongs to a failure that nothing has mended since; a job that was not
\* told of a row runs while there is none; and no job runs while there is a row that says nothing.
HiddenHasFailed == Valid(entry) /\ entry.left > 0 => entry.tag \in failed
UntoldHasNone   ==
  /\ item # None /\ ~item.has => entry = None
  /\ item # None => entry = None \/ Valid(entry)
\* The job of a conflict, which does not touch the row when it succeeds, runs only while no row hides it.
ConflictIsNotHidden == item # None /\ item.conflict => entry = None \/ entry.left = 0
IInv == TypeOK /\ HiddenHasFailed /\ UntoldHasNone /\ ConflictIsNotHidden

LEMMA InitIInv == Init => IInv
BY DEF Init, IInv, TypeOK, HiddenHasFailed, UntoldHasNone, ConflictIsNotHidden, Reports, Valid

LEMMA FailIInv ==
  ASSUME IInv,
         NEW status \in {"SoftError", "NormalError", "DetailError", "FatalError"},
         NEW code \in Codes, NEW flagged \in BOOLEAN,
         Fail(status, code, flagged)
  PROVE  IInv'
<1> DEFINE may    == flagged \/ (status # "FatalError" /\ code # "none")
           e      == NewEntry(status, code)
<1>1. /\ item \in Item
      /\ may => entry' = e /\ report' = Louder(status, e)
      /\ ~may => entry' = (IF Valid(entry) THEN None ELSE entry) /\ report' = status
      /\ shown' = (shown \/ report' \in {"NormalError", "DetailError", "FatalError"})
      /\ failed' = IF status = "SoftError" THEN failed \ {item.tag} ELSE failed \cup {item.tag}
      /\ item' = None
      /\ UNCHANGED <<tag, conflict>>
  BY DEF IInv, TypeOK, Fail
<1>2. entry = None \/ (entry \in Entry /\ entry.left <= entry.duration)
  BY DEF IInv, TypeOK
<1>3. /\ e \in Entry /\ e.left = e.duration /\ e.tag = item.tag
      /\ status = "SoftError" => e.left = 0
  BY <1>1, <1>2, NewEntryType
<1>4. status \in Reports
  BY DEF Reports
<1> HIDE DEF may, e
<1>5. TypeOK'
  <2>1. entry' = None \/ (entry' \in Entry /\ entry'.left <= entry'.duration)
    BY <1>1, <1>2, <1>3, TimesAssumption DEF Entry
  <2>2. report' \in Reports
    <3>1. Louder(status, e) \in Reports
      BY <1>4 DEF Louder, Reports
    <3>2. QED
      BY <1>1, <1>4, <3>1
  <2>3. item.tag \in AnyTag
    BY <1>1 DEF Item
  <2>4. QED
    BY <1>1, <2>1, <2>2, <2>3 DEF IInv, TypeOK
<1>6. HiddenHasFailed'
  <2>1. CASE may
    BY <2>1, <1>1, <1>3, TimesAssumption DEF HiddenHasFailed, Valid, Entry
  <2>2. CASE ~may
    BY <2>2, <1>1 DEF HiddenHasFailed, Valid
  <2>3. QED
    BY <2>1, <2>2
<1>7. UntoldHasNone' /\ ConflictIsNotHidden'
  BY <1>1 DEF UntoldHasNone, ConflictIsNotHidden
<1>8. QED
  BY <1>5, <1>6, <1>7 DEF IInv

LEMMA DiscoverIInv ==
  ASSUME IInv, Discover \/ DiscoverNothing
  PROVE  IInv'
<1>1. CASE Discover
  <2>1. /\ item = None /\ tag \in AnyTag
        /\ item' = None \/ (~Skips(tag, conflict) /\ item' = [tag |-> tag, conflict |-> conflict, has |-> Valid(entry)])
        /\ report' \in {report, "skipped"}
        /\ entry' = IF Valid(entry) THEN entry ELSE None
        /\ conflict \in BOOLEAN
        /\ UNCHANGED <<tag, conflict, shown, failed>>
    BY <1>1 DEF IInv, TypeOK, Discover, Kept
  <2>2. Valid(entry) \in BOOLEAN
    BY DEF Valid
  <2>3. item' = None \/ item' \in Item
    BY <2>1, <2>2 DEF Item
  <2>4. TypeOK'
    BY <2>1, <2>3 DEF IInv, TypeOK, Reports
  <2>5. HiddenHasFailed'
    BY <2>1 DEF IInv, HiddenHasFailed, Valid
  <2>6. UntoldHasNone'
    <3>1. CASE item' = None
      BY <3>1 DEF UntoldHasNone
    <3>2. CASE item' = [tag |-> tag, conflict |-> conflict, has |-> Valid(entry)]
      BY <2>1, <3>2 DEF UntoldHasNone, Valid
    <3>3. QED
      BY <2>1, <3>1, <3>2
  <2>7. ConflictIsNotHidden'
    <3>1. CASE item' = None
      BY <3>1 DEF ConflictIsNotHidden
    <3>2. CASE ~Skips(tag, conflict) /\ item' = [tag |-> tag, conflict |-> conflict, has |-> Valid(entry)]
      <4> SUFFICES ASSUME conflict, Valid(entry) PROVE entry.left = 0
        BY <2>1, <3>2 DEF ConflictIsNotHidden
      <4>1. ~(entry.left > 0)
        BY <3>2 DEF Skips
      <4>2. entry.left \in 0 .. MaxTime
        BY DEF IInv, TypeOK, Valid, Entry
      <4>3. QED
        BY <4>1, <4>2, TimesAssumption
    <3>3. QED
      BY <2>1, <3>1, <3>2
  <2>8. QED
    BY <2>4, <2>5, <2>6, <2>7 DEF IInv
<1>2. CASE DiscoverNothing
  BY <1>2 DEF IInv, TypeOK, HiddenHasFailed, UntoldHasNone, ConflictIsNotHidden, DiscoverNothing, Valid, Reports
<1>3. QED
  BY <1>1, <1>2

LEMMA TickIInv ==
  ASSUME IInv, Tick
  PROVE  IInv'
<1>1. /\ entry \in Entry /\ entry.left > 0
      /\ entry' = [entry EXCEPT !.left = @ - 1]
      /\ UNCHANGED <<tag, conflict, item, report, shown, failed>>
  BY DEF IInv, TypeOK, Tick
<1>2. /\ entry' \in Entry /\ entry'.left <= entry'.duration
      /\ entry'.tag = entry.tag
  <2>1. entry.left \in 0 .. MaxTime /\ entry.left <= entry.duration /\ entry.duration \in Nat
    BY <1>1, NoneAssumption, TimesAssumption DEF IInv, TypeOK, Entry, Times
  <2>2. entry.left - 1 \in 0 .. MaxTime /\ entry.left - 1 <= entry.duration
    BY <1>1, <2>1, TimesAssumption
  <2>3. entry' = [tag |-> entry.tag, retries |-> entry.retries, duration |-> entry.duration,
                  left |-> entry.left - 1]
    BY <1>1 DEF Entry
  <2>4. QED
    BY <1>1, <2>2, <2>3 DEF Entry
<1>3. HiddenHasFailed'
  BY <1>1, <1>2, NoneAssumption DEF IInv, HiddenHasFailed, Valid
<1>4. UntoldHasNone'
  BY <1>1, <1>2, NoneAssumption DEF IInv, UntoldHasNone, Valid
<1>5. ConflictIsNotHidden'
  BY <1>1, NoneAssumption DEF IInv, ConflictIsNotHidden
<1>6. QED
  BY <1>1, <1>2, <1>3, <1>4, <1>5 DEF IInv, TypeOK

LEMMA StepIInv == IInv /\ [Next]_vars => IInv'
<1> SUFFICES ASSUME IInv, [Next]_vars PROVE IInv'
  OBVIOUS
<1>1. CASE Change
  BY <1>1 DEF IInv, TypeOK, HiddenHasFailed, UntoldHasNone, ConflictIsNotHidden, Change, Valid
<1>2. CASE Tick
  BY <1>2, TickIInv
<1>3. CASE Discover \/ DiscoverNothing
  BY <1>3, DiscoverIInv
<1>4. CASE WipeErrorBlacklist
  BY <1>4 DEF IInv, TypeOK, HiddenHasFailed, UntoldHasNone, ConflictIsNotHidden, WipeErrorBlacklist, Valid
<1>5. CASE ChunkSent
  <2>1. item \in Item /\ item' \in Item /\ entry' = None
        /\ UNCHANGED <<tag, conflict, report, shown, failed>>
    BY <1>5 DEF IInv, TypeOK, ChunkSent, Item
  <2>2. QED
    BY <2>1 DEF IInv, TypeOK, HiddenHasFailed, UntoldHasNone, ConflictIsNotHidden, Valid
<1>7. CASE Succeed
  <2>1. /\ item \in Item /\ item' = None
        /\ entry' = IF item.has /\ ~item.conflict THEN None ELSE entry
        /\ report' = "Success" /\ shown' = FALSE /\ failed' = {}
        /\ tag' \in {tag, None} /\ conflict' \in {conflict, FALSE}
    BY <1>7 DEF IInv, TypeOK, Succeed
  <2>2. entry' = None \/ (entry' = entry /\ item.conflict)
    BY <2>1, NoneAssumption DEF IInv, UntoldHasNone
  <2>3. entry' = None \/ (entry' = entry /\ entry.left = 0)
    BY <2>1, <2>2, NoneAssumption DEF IInv, ConflictIsNotHidden
  <2>4. TypeOK'
    BY <2>1, <2>3 DEF IInv, TypeOK, Reports
  <2>5. HiddenHasFailed'
    BY <2>3 DEF HiddenHasFailed, Valid
  <2>6. QED
    BY <2>1, <2>4, <2>5 DEF IInv, UntoldHasNone, ConflictIsNotHidden
<1>6. CASE \E status \in {"SoftError", "NormalError", "DetailError", "FatalError"}, code \in Codes, flagged \in BOOLEAN :
              Fail(status, code, flagged)
  BY <1>6, FailIInv
<1>8. CASE UNCHANGED vars
  BY <1>8 DEF IInv, TypeOK, HiddenHasFailed, UntoldHasNone, ConflictIsNotHidden, Valid, vars
<1>9. QED
  BY <1>1, <1>2, <1>3, <1>4, <1>5, <1>6, <1>7, <1>8 DEF Next

LEMMA Invariance == Spec => []IInv
BY InitIInv, StepIInv, PTL DEF Spec

-----------------------------------------------------------------------------
\* An entry never hides a file for less than the least or for more than the greatest time
\* (createBlacklistEntry, for any values of OWNCLOUD_BLACKLIST_TIME_MIN and _MAX).
THEOREM Typing == Spec => []TypeOK
<1>1. IInv => TypeOK
  BY DEF IInv
<1>2. QED
  BY Invariance, <1>1, PTL

\* "25s, 2 min, 10 min, ~1h, ~5h, ~24h": each failure for good hides a file longer than the one
\* before, and no 403 hides it for more than an hour.
THEOREM Growth == Spec => BackoffGrows
<1> DEFINE A == \A code \in Codes :
       (\E status \in {"NormalError", "DetailError"}, flagged \in BOOLEAN : Fail(status, code, flagged))
         /\ entry # None /\ entry' # None /\ entry'.duration > 0 =>
         IF code = "403" THEN entry'.duration <= Greater(Hour, MinTime)
                         ELSE entry'.duration > entry.duration \/ entry'.duration = MaxTime
<1>1. IInv => A
  <2> SUFFICES ASSUME IInv, NEW code \in Codes,
                      NEW status \in {"NormalError", "DetailError"}, NEW flagged \in BOOLEAN,
                      Fail(status, code, flagged),
                      entry # None, entry' # None, entry'.duration > 0
               PROVE  IF code = "403" THEN entry'.duration <= Greater(Hour, MinTime)
                      ELSE entry'.duration > entry.duration \/ entry'.duration = MaxTime
    OBVIOUS
  <2>1. entry \in Entry /\ item \in Item
    BY DEF IInv, TypeOK, Fail
  <2>2. entry' = NewEntry(status, code)
    BY DEF Fail, IInv, UntoldHasNone
  <2>3. status # "SoftError" /\ entry'.duration = Bounded(code)
    BY <2>1, <2>2, NewEntryType
  <2>4. OldDuration = entry.duration /\ entry.duration \in Nat /\ entry.duration <= MaxTime
    BY <2>1, TimesAssumption DEF OldDuration, Entry, Times
  <2>5. CASE code = "403"
    BY <2>3, <2>4, <2>5, TimesAssumption DEF Bounded, Wanted, Lesser, Greater
  <2>6. CASE code # "403"
    BY <2>3, <2>4, <2>6, TimesAssumption DEF Bounded, Wanted, Lesser, Greater
  <2>7. QED
    BY <2>5, <2>6
<1>2. QED
  BY Invariance, <1>1, PTL DEF BackoffGrows

\* A run leaves an upload or a download alone only if it failed for good in the state it is in: "when
\* the file changes a retry happens immediately" (test/testblacklist.cpp).  A conflict, whose state is
\* not compared (checkErrorBlacklisting), is left alone only if the file failed for good since it was
\* last in order.
THEOREM OnlyFailedIsSkipped == Spec => SkippedHasFailed
<1>1. IInv => (Discover /\ item' = None => IF conflict THEN failed # {} ELSE tag \in failed)
  <2> SUFFICES ASSUME IInv, Discover, item' = None
               PROVE  IF conflict THEN failed # {} ELSE tag \in failed
    OBVIOUS
  <2>1. Skips(tag, conflict)
    <3>1. ASSUME ~Skips(tag, conflict) PROVE FALSE
      <4>1. /\ item' = [tag |-> tag, conflict |-> conflict, has |-> Valid(entry)]
            /\ tag \in AnyTag /\ conflict \in BOOLEAN
        BY <3>1 DEF Discover, IInv, TypeOK
      <4>2. item' \in Item
        BY <4>1 DEF Item, Valid
      <4>3. QED
        BY <4>2, NoneAssumption
    <3>2. QED
      BY <3>1
  <2>2. entry.tag \in failed
    BY <2>1 DEF Skips, IInv, HiddenHasFailed
  <2>3. conflict \/ tag = entry.tag
    BY <2>1 DEF Skips
  <2>4. QED
    BY <2>2, <2>3
<1>2. QED
  BY Invariance, <1>1, PTL DEF SkippedHasFailed

=============================================================================
