------------------------------- MODULE Connection -------------------------------
(***************************************************************************)
(* An account and its connection: AccountState with its validator, the     *)
(* credentials (HttpCredentials) with their OAuth token, and the queue in  *)
(* which network jobs wait while a check or a refresh is under way.        *)
(* Everything happens on one event loop, and one handler calls the other:  *)
(* slots are operators from an account to an account, that are composed    *)
(* the way the code calls them.                                            *)
(*                                                                         *)
(* Left out: more than one account, proxies, the dialog that asks to       *)
(* accept a new url, and what the requests are for.                        *)
(***************************************************************************)
EXTENDS Naturals, FiniteSets, FiniteSetsExt

CONSTANTS
  Requests,       \* network jobs of whoever works with the server
  MaxRetryCount,  \* retries of one job (5 in the code)
  MaxRefreshes,   \* bound: refreshes of the token under way at a time
  MaxAsks,        \* bound: login dialogs open at a time
  MaxUnblocks,    \* bound: posted unblocks
  Troubles        \* subset of {"parked check", "refused refresh", "lost refresh"}: what the code does
                  \* not get out of; see AuthSucceeds and RefreshFinished

ASSUME ConnectionAssumption ==
  /\ MaxRetryCount \in Nat \ {0} /\ MaxRefreshes \in Nat \ {0} /\ MaxAsks \in Nat \ {0}
  /\ MaxUnblocks \in Nat \ {0}
  /\ Troubles \subseteq {"parked check", "refused refresh", "lost refresh"}

VARIABLE account
  \* state      AccountState::_state
  \* status     _connectionStatus: "maintenance" (503 or maintenance mode) or "other"
  \* over       _timeSinceMaintenanceOver: "invalid", "running", or "passed" the delay;
  \*            "invalid" too with the status "other", where nobody reads it
  \* recheck    the check after that delay is to come
  \* waiting    _waitingForNewCredentials
  \* validator  _connectionValidator: "none", or what it waits for: "status", "auth", "caps", "parked"
  \*            (like "caps", with the request in the queue), or "lost" (a reply that will not come)
  \* full       its _updateConfig
  \* held       the guards whose _blocked is set: of the Account and of the AccountState
  \* blocked    JobQueue::_blocked
  \* unblocks   posted calls that unblock the guard of the AccountState
  \* req        the jobs: "idle", "sent", "waiting" (queued without a reply), "again" (queued with a
  \*            reply that asks for a retry), or "lost" (out of the queue, and never finished)
  \* tries      AbstractNetworkJob::_retryCount
  \* ready, token, renewing   HttpCredentials::_ready, _refreshToken, _isRenewingOAuthToken
  \* keychain   "unread", "reading" or "read" (wasFetched() when not unread)
  \* refreshing refreshes that will report; asks: dialogs that ask the user to log in

States  == {"SignedOut", "Disconnected", "Connected", "ServiceUnavailable", "MaintenanceMode",
            "NetworkError", "ConfigurationError", "AskingCredentials"}
Guards  == {"Account", "AccountState"}
Account == [state : States, status : {"maintenance", "other"}, over : {"invalid", "running", "passed"},
            recheck : BOOLEAN, waiting : BOOLEAN,
            validator : {"none", "status", "auth", "caps", "parked", "lost"}, full : BOOLEAN,
            held : SUBSET Guards, blocked : Nat, unblocks : 0 .. MaxUnblocks,
            req : [Requests -> {"idle", "sent", "waiting", "again", "lost"}],
            tries : [Requests -> 0 .. MaxRetryCount],
            ready : BOOLEAN, token : BOOLEAN, renewing : BOOLEAN,
            keychain : {"unread", "reading", "read"},
            refreshing : 0 .. MaxRefreshes, asks : 0 .. MaxAsks]

TypeOK == account \in Account

Init ==
  account = [state |-> "Disconnected", status |-> "other", over |-> "invalid", recheck |-> FALSE,
             waiting |-> FALSE, validator |-> "none", full |-> FALSE,
             held |-> {}, blocked |-> 0, unblocks |-> 0,
             req |-> [r \in Requests |-> "idle"], tries |-> [r \in Requests |-> 0],
             ready |-> FALSE, token |-> FALSE, renewing |-> FALSE,
             keychain |-> "unread", refreshing |-> 0, asks |-> 0]

-----------------------------------------------------------------------------
(* JobQueue and JobQueueGuard. *)

Queued(a) == {r \in Requests : a.req[r] \in {"waiting", "again"}}

\* Slip: a guard that blocks already blocks once more.
BlockAgain(a, g) == [a EXCEPT !.held = @ \cup {g}, !.blocked = @ + 1]
Block(a, g) == IF g \in a.held THEN a ELSE [a EXCEPT !.held = @ \cup {g}, !.blocked = @ + 1]

\* Slip: the jobs of the queue are left to the next unblock.
LeftInQueue(a) == a
\* The queue is emptied before its jobs are sent again.
Resent(a) ==
  [a EXCEPT !.req = [r \in Requests |-> IF r \in Queued(a) THEN "sent" ELSE a.req[r]],
            !.tries = [r \in Requests |-> a.tries[r] + (IF r \in Queued(a) THEN 1 ELSE 0)],
            !.validator = IF @ = "parked" THEN "caps" ELSE @]
Unblock(a, g) ==
  IF g \notin a.held THEN a
  ELSE LET b == [a EXCEPT !.held = @ \ {g}, !.blocked = IF @ = 0 THEN 0 ELSE @ - 1]
       IN  IF a.blocked = 1 THEN Resent(b) ELSE b

\* JobQueue::clear resets the count, whoever else blocks.  It aborts its jobs: one without a reply is
\* deleted, one with a reply aborts that reply, which has finished.
Clear(a, g) ==
  IF g \notin a.held THEN a
  ELSE [a EXCEPT !.held = @ \ {g}, !.blocked = 0,
                 !.req = [r \in Requests |-> CASE a.req[r] = "waiting" -> "idle"
                                               [] a.req[r] = "again"   -> "lost"
                                               [] OTHER                -> a.req[r]],
                 !.tries = [r \in Requests |-> IF r \in Queued(a) THEN 0 ELSE a.tries[r]],
                 !.validator = IF @ = "parked" THEN "lost" ELSE @]

\* JobQueue::retry, for a job whose reply asks for it.
\* Slip: the bound is counted one too far.
OneMoreRetry(a, r) == a.tries[r] <= MaxRetryCount
MayRetry(a, r) == a.tries[r] < MaxRetryCount
Retry(a, r) ==
  IF a.blocked > 0 THEN [a EXCEPT !.req[r] = "again"]
  ELSE [a EXCEPT !.req[r] = "sent", !.tries[r] = @ + 1]

-----------------------------------------------------------------------------
(* AccountState, and the credentials. *)

\* The validator is let go of.
Done(a) == [a EXCEPT !.validator = "none", !.full = FALSE]

\* HttpCredentials::refreshAccessToken, and authenticationStarted.
StartRefresh(a) == Block([a EXCEPT !.refreshing = @ + 1, !.renewing = TRUE], "Account")

\* A new validator.
Validate(a, blockJobs) ==
  [(IF blockJobs THEN Block(a, "AccountState") ELSE a)
     EXCEPT !.validator = "status", !.full = ~(blockJobs /\ a.state = "Connected")]

\* HttpCredentials::fetchFromKeychain, with the check that follows at once if there is nothing to fetch.
Fetch(a) ==
  CASE a.ready            -> Unblock(Validate([a EXCEPT !.keychain = "read"], FALSE), "Account")
    [] ~a.ready /\ a.token  -> StartRefresh([a EXCEPT !.waiting = TRUE, !.keychain = "read"])
    [] ~a.ready /\ ~a.token -> [a EXCEPT !.waiting = TRUE, !.keychain = "reading"]

\* checkConnectivity.  "recent" tells that an etag was fetched within the poll interval.
Check(a, blockJobs, recent) ==
  LET b == IF blockJobs /\ a.blocked = 0 THEN Done(a) ELSE a IN
  IF a.state = "SignedOut" \/ a.waiting THEN a
  ELSE IF b.validator # "none" THEN b
  ELSE IF b.keychain = "unread" THEN Fetch(b)
  ELSE IF ~blockJobs /\ b.state = "Connected" /\ recent THEN b
  ELSE Validate(b, blockJobs)

\* setState.
SetState(a, new) ==
  LET b == [a EXCEPT !.state = new]
      c == IF new = a.state THEN a
           ELSE IF new = "SignedOut" THEN [b EXCEPT !.status = "other", !.over = "invalid"]
           ELSE IF a.state = "SignedOut" /\ new = "Disconnected" THEN Check(b, FALSE, FALSE)
           ELSE IF new = "ServiceUnavailable" THEN Check(Done(b), FALSE, FALSE)
           ELSE b
  IN IF new = "Connected" THEN [c EXCEPT !.unblocks = Min({@ + 1, MaxUnblocks})]
                          ELSE Clear(c, "AccountState")

\* slotInvalidCredentials: the token is refreshed, or the user asked.
Invalid(a) ==
  IF a.state = "SignedOut" \/ a.waiting THEN a
  ELSE LET b == [SetState([a EXCEPT !.waiting = TRUE], "AskingCredentials") EXCEPT !.ready = FALSE]
       IN  IF b.token THEN StartRefresh(b) ELSE [b EXCEPT !.asks = @ + 1]

\* slotConnectionValidatorResult; the name of a result is that of the state it leads to, or
\* "CredentialsWrong".  The way back from maintenance takes a while.
\* Slip: the user is not looked at.
IgnoresNothing(a) == FALSE
Ignored(a) == a.state = "SignedOut"
Result(a, result) ==
  LET down == result \in {"ServiceUnavailable", "MaintenanceMode"}
      b == [a EXCEPT !.status = IF down THEN "maintenance" ELSE "other",
                     !.over = "invalid"]
  IN IF Ignored(a) THEN a
     ELSE IF result = "Connected" /\ a.status = "maintenance" /\ a.over # "passed"
       THEN [a EXCEPT !.over = "running", !.recheck = @ \/ a.over = "invalid"]
     ELSE IF result = "CredentialsWrong" THEN Invalid(b)
     ELSE SetState(b, result)

\* Account::slotCredentialsFetched, with AccountState::slotCredentialsFetched.
\* Slip: the queue is not unblocked.
OnlyChecks(a, recent) == Check([a EXCEPT !.waiting = FALSE], FALSE, recent)
Fetched(a, recent) == Unblock(Check([a EXCEPT !.waiting = FALSE], FALSE, recent), "Account")

\* slotCredentialsAsked.
\* Slip: it goes on waiting.
StillWaiting(a, recent) ==
  IF a.ready THEN Check(Done(a), FALSE, recent) ELSE SetState(a, "SignedOut")
Asked(a, recent) ==
  LET b == [a EXCEPT !.waiting = FALSE] IN
  IF b.ready THEN Check(Done(b), FALSE, recent) ELSE SetState(b, "SignedOut")

-----------------------------------------------------------------------------
(* Timers and the user. *)

Step(a) == a.refreshing <= MaxRefreshes /\ a.asks <= MaxAsks /\ account' = a

\* Application::slotCheckConnection.
CheckConnection(recent) ==
  /\ account.state \notin {"SignedOut", "ConfigurationError", "AskingCredentials"}
  /\ Step(Check(account, FALSE, recent))

\* The time since the end of the maintenance passes the delay, and a little later there is a check.
DelayPasses == account.over = "running" /\ Step([account EXCEPT !.over = "passed"])
Recheck ==
  /\ account.recheck
  /\ \E recent \in BOOLEAN :
       Step(Check([account EXCEPT !.recheck = (account.over = "running")], FALSE, recent))

PostedUnblock ==
  /\ account.unblocks > 0
  /\ Step(Unblock([account EXCEPT !.unblocks = @ - 1], "AccountState"))

SignOutByUi ==
  /\ account.state # "SignedOut"
  /\ Step(SetState([account EXCEPT !.token = FALSE, !.ready = FALSE], "SignedOut"))

SignIn ==
  /\ account.state = "SignedOut"
  /\ Step(SetState([account EXCEPT !.waiting = FALSE], "Disconnected"))

FreshConnectionAttempt ==
  Step(Check(IF account.state = "Connected" THEN SetState(account, "Disconnected") ELSE account,
             FALSE, FALSE))

-----------------------------------------------------------------------------
(* ConnectionValidator. *)

\* status.php, and whether there are credentials.
StatusAnswered ==
  /\ account.validator = "status"
  /\ \/ \E result \in {"NetworkError", "SignedOut", "MaintenanceMode", "ConfigurationError"} :
          Step(Result(Done(account), result))
     \/ IF account.ready THEN Step([account EXCEPT !.validator = "auth"])
        ELSE Step(Result(Done(account), "CredentialsWrong"))

\* The PROPFIND of the root.  The capabilities are asked for by a job that has to queue like any
\* other: while a token is refreshed, and also while the queue waits for this very check, so that
\* neither goes on ("parked check").
AuthSucceeds ==
  /\ account.validator = "auth"
  /\ IF ~account.full THEN Step(Result(Done(account), "Connected"))
     ELSE /\ "AccountState" \in account.held => "parked check" \in Troubles
          /\ Step([account EXCEPT !.validator = IF account.blocked > 0 THEN "parked" ELSE "caps"])

AuthFails ==
  /\ account.validator = "auth"
  /\ \E result \in {"NetworkError", "SignedOut", "ServiceUnavailable"} :
       Step(Result(Done(account), result))

\* HttpCredentials::slotAuthentication, for any reply with a 401.
Challenged(a) == IF a.ready /\ ~a.renewing /\ a.token THEN StartRefresh(a) ELSE a

AuthUnauthorized ==
  /\ account.validator = "auth"
  /\ Step(Result(Done(Challenged(account)), "CredentialsWrong"))

\* A redirect is an unknown state of the connection, and a check of its own takes the place of the
\* one that was redirected; but the old one reports all the same.
AuthRedirected ==
  /\ account.validator = "auth"
  /\ LET b == Check(account, TRUE, FALSE)
     IN  Step(Result(IF b.validator = "auth" THEN Done(b) ELSE b, "NetworkError"))

\* One of the jobs for the capabilities, the user and his picture ends, and the next one is asked for;
\* or it ends with a 401 or a redirect, and is retried or not.  It may find the queue blocked.
CapsGoOn ==
  /\ account.validator = "caps"
  /\ LET a == Challenged(account)
     IN  \E b \in {account, a, Invalid(a), Check(account, TRUE, FALSE)} :
           Step([b EXCEPT !.validator = IF @ = "caps" /\ b.blocked > 0 THEN "parked" ELSE @])

\* The last of them; what cannot be read is taken for empty.
CapsReceived ==
  /\ account.validator = "caps"
  /\ \E result \in {"Connected", "ConfigurationError"} : Step(Result(Done(account), result))

-----------------------------------------------------------------------------
(* HttpCredentials. *)

\* fetchFromKeychain: there is a token, a password, or neither.
KeychainRead ==
  /\ account.keychain = "reading"
  /\ LET a == [account EXCEPT !.keychain = "read"] IN
     \/ Step(StartRefresh([a EXCEPT !.token = TRUE]))
     \/ \E found, recent \in BOOLEAN : Step(Fetched([a EXCEPT !.ready = found], recent))

\* OAuth::refreshFinished: a new token; nothing, because of the network; or a refusal, about which
\* nobody is told if it was AccountState that waits ("refused refresh").  If status.php, which OAuth
\* asks for first, times out, OAuth does not hear of it, and never reports ("lost refresh").
RefreshFinished ==
  /\ account.refreshing > 0
  /\ LET b == [account EXCEPT !.refreshing = @ - 1]
         a == [b EXCEPT !.renewing = FALSE]
     IN  \E answer \in {"token", "network", "refused"} \cup (Troubles \cap {"lost refresh"}),
            recent \in BOOLEAN :
           CASE answer = "token"   -> Step(Fetched([a EXCEPT !.token = TRUE, !.ready = TRUE], recent))
             [] answer = "network" -> Step(Fetched([a EXCEPT !.token = TRUE], recent))
             [] answer = "refused" ->
                  /\ a.waiting /\ a.asks = 0 /\ a.refreshing = 0 => "refused refresh" \in Troubles
                  /\ Step(Clear(Invalid([a EXCEPT !.token = FALSE, !.ready = FALSE]), "Account"))
             [] OTHER -> Step(b)

\* HttpCredentialsGui: the user logs in with OAuth or a password, or closes the dialog.
UserAnswers ==
  /\ account.asks > 0
  /\ LET a == [account EXCEPT !.asks = @ - 1] IN
     \E recent \in BOOLEAN :
       \/ \E token \in BOOLEAN : Step(Asked([a EXCEPT !.token = token, !.ready = TRUE], recent))
       \/ Step(Asked(a, recent))

-----------------------------------------------------------------------------
(* AbstractNetworkJob. *)

Deleted(a, r) == [a EXCEPT !.req[r] = "idle", !.tries[r] = 0]

SendRequest(r) ==
  /\ account.req[r] = "idle"
  /\ Step([account EXCEPT !.req[r] = IF account.blocked > 0 THEN "waiting" ELSE "sent"])

\* slotFinished, for a reply that needs no retry, whatever it is; or the job is aborted.
Answered(r) ==
  /\ account.req[r] = "sent"
  /\ Step(Deleted(account, r))

Unauthorized(r) ==
  /\ account.req[r] = "sent"
  /\ LET a == Challenged(account) IN
     IF MayRetry(a, r) THEN Step(Retry(a, r)) ELSE Step(Deleted(Invalid(a), r))

Redirected(r) ==
  /\ account.req[r] = "sent"
  /\ LET a == Check(account, TRUE, FALSE) IN
     IF MayRetry(a, r) THEN Step(Retry(a, r)) ELSE Step(Deleted(a, r))

\* A job in the queue that has no reply is deleted, that of a check too, which does not hear of it.
TimesOut ==
  \E a \in {Deleted(account, r) : r \in {r \in Requests : account.req[r] = "waiting"}}
           \cup (IF account.validator = "parked" THEN {[account EXCEPT !.validator = "lost"]} ELSE {}) :
    Step(a)

Next ==
  \/ \E recent \in BOOLEAN : CheckConnection(recent)
  \/ DelayPasses \/ Recheck \/ PostedUnblock
  \/ SignOutByUi \/ SignIn \/ FreshConnectionAttempt
  \/ StatusAnswered \/ AuthSucceeds \/ AuthFails \/ AuthUnauthorized \/ AuthRedirected
  \/ CapsGoOn \/ CapsReceived
  \/ KeychainRead \/ RefreshFinished \/ UserAnswers
  \/ \E r \in Requests : SendRequest(r) \/ Answered(r) \/ Unauthorized(r) \/ Redirected(r)
  \/ TimesOut

Spec == Init /\ [][Next]_account

\* Replies, timers and posted calls come, and the user answers.  As long as the queue is blocked no
\* etag arrives, and in the end the last one is not recent any more.
FairSpec ==
  /\ Spec
  /\ WF_account(\E recent \in BOOLEAN : CheckConnection(recent))
  /\ WF_account(account.blocked > 0 /\ CheckConnection(FALSE))
  /\ WF_account(DelayPasses) /\ WF_account(Recheck)
  /\ WF_account(PostedUnblock)
  /\ WF_account(StatusAnswered)
  /\ WF_account(AuthSucceeds \/ AuthFails \/ AuthUnauthorized \/ AuthRedirected)
  /\ WF_account(CapsReceived)
  /\ WF_account(KeychainRead) /\ WF_account(RefreshFinished) /\ WF_account(UserAnswers)
  /\ \A r \in Requests : WF_account(Answered(r) \/ Unauthorized(r) \/ Redirected(r))

-----------------------------------------------------------------------------
(* Properties. *)

\* The queue is not blocked more often than there are guards that will unblock it.
BlockedIsHeld == account.blocked <= Cardinality(account.held)

\* A check for which a reply is going to come.
Checking(a) == a.validator \in {"status", "auth", "caps"}

\* Who blocks the queue is going to unblock it: a refresh that will report; a check that waits for a
\* reply, and not for the queue itself, or a check that is to come; or the account is connected, and
\* the posted call comes, or the timer, which checks again when no etag has come for a while.
HoldIsEnded ==
  /\ "Account" \in account.held => account.refreshing > 0
  /\ "AccountState" \in account.held =>
       \/ Checking(account) \/ account.recheck
       \/ account.state = "Connected" /\ account.validator = "none"

\* Whoever has signed out stays so until he signs in, whatever checks, refreshes and dialogs were
\* under way at that moment ("don't check if we're manually signed out").
SignedOutStays ==
  [][account.state = "SignedOut" /\ account'.state # "SignedOut" => SignIn]_account

\* A job in the queue is sent again, or dropped.
NobodyWaitsForever ==
  \A r \in Requests : r \in Queued(account) ~> r \notin Queued(account)

\* While the account is "asking the user for credentials" (gui/accountstate.h), which keeps the timer
\* away from it, he is asked, or the token refreshed, or a check is under way.
AskingIsAsked ==
  account.state = "AskingCredentials" =>
    account.asks > 0 \/ account.refreshing > 0 \/ Checking(account) \/ account.recheck
      \/ account.keychain = "reading"

\* While new credentials are awaited, for which every check is put off, someone is about to bring
\* them; and who asks the user is asking.  Left out: a check whose job was thrown out of the queue,
\* of which AccountState goes on thinking that it runs.
AskingGoesOn ==
  /\ account.waiting => account.keychain = "reading" \/ account.refreshing > 0 \/ account.asks > 0
  /\ account.validator # "lost" => AskingIsAsked

=============================================================================
