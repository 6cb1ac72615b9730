----------------------------- MODULE ErrorBlacklist ----------------------------
(***************************************************************************)
(* What the journal remembers of a file that failed: how long the runs to  *)
(* come leave it alone, and whether they say so.  One file, run after run: *)
(* discovery asks checkErrorBlacklisting, and the job of the file, if it   *)
(* has one, ends in PropagateItemJob::done.                                *)
(*                                                                         *)
(* A tag stands for what tells two states of the file apart: the time of   *)
(* its change and the name it shall get (upload) or its etag (download);   *)
(* 0 if there is none.  A file that has changed on both sides is a         *)
(* conflict: its item has an etag too, but no direction.                   *)
(***************************************************************************)
EXTENDS Integers

CONSTANTS
  None,         \* no entry, no item
  Tags,         \* tags of the file, 0 excepted
  MinTime,      \* getMinBlacklistTime
  MaxTime,      \* getMaxBlacklistTime, not less than MinTime
  Hour,         \* an hour, in the same units
  MaxRetries    \* bound: the count of retries is followed up to this

ASSUME TimesAssumption ==
  /\ MinTime \in Nat \ {0} /\ MaxTime \in Nat /\ MinTime <= MaxTime
  /\ Hour \in Nat
  /\ MaxRetries \in Nat /\ 1 < MaxRetries
ASSUME TagsAssumption == Tags \subseteq Nat \ {0} /\ Tags # {} /\ None \notin Tags

VARIABLES
  tag,        \* the file on the side that has changed; None: there is nothing to synchronise
  conflict,   \* it has changed on both sides: CSYNC_INSTRUCTION_CONFLICT, direction None
  entry,      \* the row of the blacklist; left: the time until it expires
  item,       \* the item of the run that is under way; has: _hasBlacklistEntry
  report,     \* what the last run said of the file
  shown,      \* history: an error was shown since the file was last in order
  failed      \* history: the tags whose last job failed for good

vars == <<tag, conflict, entry, item, report, shown, failed>>

AnyTag  == Tags \cup {0}
Codes   == {"none", "403", "413", "other"}
Reports == {"nothing", "Success", "SoftError", "NormalError", "DetailError", "FatalError",
            "BlacklistedError", "skipped"}
Times   == {0} \cup MinTime .. MaxTime
Entry   == [tag : AnyTag, retries : 1 .. MaxRetries, duration : Times, left : 0 .. MaxTime]
Item    == [tag : AnyTag, conflict : BOOLEAN, has : BOOLEAN]

ASSUME NoneAssumption == None \notin Entry /\ None \notin Item

\* An entry hides the file for at least MinTime and at most MaxTime, or, after a soft error, not at
\* all; and never for longer than from its last failure on.
TypeOK ==
  /\ tag \in AnyTag \cup {None}
  /\ entry = None \/ (entry \in Entry /\ entry.left <= entry.duration)
  /\ item = None \/ item \in Item
  /\ {conflict, shown} \subseteq BOOLEAN
  /\ report \in Reports
  /\ failed \subseteq AnyTag

Init ==
  /\ tag = None /\ conflict = FALSE /\ entry = None /\ item = None
  /\ report = "nothing" /\ shown = FALSE /\ failed = {}

-----------------------------------------------------------------------------
\* The file changes, is new, or is what it was again.
Change ==
  /\ tag' \in AnyTag \cup {None}
  /\ conflict' \in {FALSE, tag' # None}
  /\ UNCHANGED <<entry, item, report, shown, failed>>

Tick ==
  /\ entry # None /\ entry.left > 0
  /\ entry' = [entry EXCEPT !.left = @ - 1]
  /\ UNCHANGED <<tag, conflict, item, report, shown, failed>>

\* SyncJournalErrorBlacklistRecord::isValid and checkErrorBlacklisting.
Valid(e) == e # None /\ e.tag # 0
\* The state of the file is compared for an upload (modtime) and for a download (etag), but not for
\* an item c without a direction.
\* Slip: it is never compared.
Unexpired(t, c) == Valid(entry) /\ entry.left > 0
Skips(t, c) == Valid(entry) /\ entry.left > 0 /\ (c \/ (t # 0 /\ t = entry.tag))

\* An entry is not touched when it makes a run skip the file.
\* Slip: the time starts again.
Renewed == IF Skips(tag, conflict) THEN [entry EXCEPT !.left = entry.duration] ELSE entry
Kept == entry

\* The end of discovery: entries without an item are deleted (deleteStaleErrorBlacklistEntries).
\* An item that is skipped ends with the status it has.
Discover ==
  /\ item = None /\ tag # None
  /\ IF Skips(tag, conflict)
       THEN report' = "skipped" /\ UNCHANGED item
       ELSE item' = [tag |-> tag, conflict |-> conflict, has |-> Valid(entry)] /\ UNCHANGED report
  /\ entry' = IF Valid(entry) THEN Kept ELSE None
  /\ UNCHANGED <<tag, conflict, shown, failed>>

DiscoverNothing ==
  /\ item = None /\ tag = None
  /\ entry' = None
  /\ report' = "nothing" /\ shown' = FALSE /\ failed' = {}
  /\ UNCHANGED <<tag, conflict, item>>

\* "Retry all" and "Force sync" wipe entries, whatever runs.
WipeErrorBlacklist ==
  /\ entry # None
  /\ entry' = None
  /\ UNCHANGED <<tag, conflict, item, report, shown, failed>>

\* A chunk has arrived, and the upload goes on.
ChunkSent ==
  /\ item # None /\ item.has
  /\ entry' = None
  /\ item' = [item EXCEPT !.has = FALSE]
  /\ UNCHANGED <<tag, conflict, report, shown, failed>>

-----------------------------------------------------------------------------
(* createBlacklistEntry. *)

Lesser(a, b)  == IF a < b THEN a ELSE b
Greater(a, b) == IF a < b THEN b ELSE a

\* "25s, 2 min, 10 min, ~1h, ~5h, ~24h", with the limits for three codes and for soft errors.
OldDuration == IF entry = None THEN 0 ELSE entry.duration
\* Slip: a limit for the wrong code.
HourForAll(code) == Lesser(OldDuration * 5, Hour)
Wanted(code) ==
  CASE code = "403" -> Lesser(OldDuration * 5, Hour)
    [] code = "413" -> MaxTime
    [] OTHER        -> OldDuration * 5
\* Slip: qBound is forgotten.
Unbounded(code) == Wanted(code)
Bounded(code) == Lesser(Greater(MinTime, Wanted(code)), MaxTime)

NewEntry(status, code) ==
  LET d == IF status = "SoftError" THEN 0 ELSE Bounded(code) IN
  [tag |-> item.tag, duration |-> d, left |-> d,
   retries |-> IF entry = None THEN 1 ELSE Lesser(entry.retries + 1, MaxRetries)]

\* blacklistUpdate: a repeated error is not shown again, and a soft one gets louder.
Louder(status, e) ==
  IF item.has /\ e.duration > 0 THEN "BlacklistedError"
  ELSE IF status = "SoftError" /\ e.retries > 1 THEN "NormalError" ELSE status

\* PropagateItemJob::done.  A conflict that is resolved ends with the status Conflict, which leaves the
\* entry alone.
Succeed ==
  /\ item # None
  /\ entry' = IF item.has /\ ~item.conflict THEN None ELSE entry
  /\ report' = "Success" /\ shown' = FALSE /\ failed' = {}
  /\ \/ tag = item.tag /\ conflict = item.conflict /\ tag' = None /\ conflict' = FALSE
     \/ (tag # item.tag \/ conflict # item.conflict) /\ UNCHANGED <<tag, conflict>>
  /\ item' = None

\* "flagged" is _errorMayBeBlacklisted.  Nobody sets _abortRequested, which would turn errors into
\* soft ones.
Fail(status, code, flagged) ==
  LET may == flagged \/ (status # "FatalError" /\ code # "none")
      e   == NewEntry(status, code)
  IN  /\ item # None
      /\ IF may
           THEN entry' = e /\ report' = Louder(status, e)
           ELSE entry' = (IF Valid(entry) THEN None ELSE entry) /\ report' = status
      /\ shown' = (shown \/ report' \in {"NormalError", "DetailError", "FatalError"})
      /\ failed' = IF status = "SoftError" THEN failed \ {item.tag} ELSE failed \cup {item.tag}
      /\ item' = None
      /\ UNCHANGED <<tag, conflict>>

Next ==
  \/ Change \/ Tick
  \/ Discover \/ DiscoverNothing \/ WipeErrorBlacklist
  \/ ChunkSent \/ Succeed
  \/ \E status \in {"SoftError", "NormalError", "DetailError", "FatalError"}, code \in Codes, flagged \in BOOLEAN :
       Fail(status, code, flagged)

Spec == Init /\ [][Next]_vars

\* Time passes, and runs come again.
FairSpec == Spec /\ WF_vars(Tick) /\ SF_vars(Discover)

-----------------------------------------------------------------------------
(* Properties. *)

\* "The factor of 5 feels natural": each failure for good hides the file longer than the one before,
\* up to the greatest time; but a 403, which is likely a firewall, never for more than an hour
\* unless the least time is more.
BackoffGrows ==
  [][\A code \in Codes :
       (\E status \in {"NormalError", "DetailError"}, flagged \in BOOLEAN : Fail(status, code, flagged))
         /\ entry # None /\ entry' # None /\ entry'.duration > 0 =>
         IF code = "403" THEN entry'.duration <= Greater(Hour, MinTime)
                         ELSE entry'.duration > entry.duration \/ entry'.duration = MaxTime]_vars

\* Only what has failed for good since the file was last in order is skipped; and of an upload or a
\* download only the very state that failed: "when the file changes a retry happens immediately"
\* (test/testblacklist.cpp).  A conflict may be skipped in a state that nobody has tried.
SkippedHasFailed ==
  [][Discover /\ item' = None => IF conflict THEN failed # {} ELSE tag \in failed]_vars

\* "If the file has changed locally or on the server, the blacklist entry no longer applies": what
\* checkErrorBlacklisting says of every file, conflicts included.
ChangedIsRetried == [][Discover /\ item' = None => tag \in failed]_vars

\* A file that is skipped is tried again some time, or is in order.
NotHiddenForever == report = "skipped" ~> report # "skipped" \/ item # None \/ tag = None

\* "Suppress the error if it was and continues to be blacklisted": an error is suppressed only if an
\* earlier one was shown.
SuppressedWasShown == report \in {"BlacklistedError", "skipped"} => shown

=============================================================================
