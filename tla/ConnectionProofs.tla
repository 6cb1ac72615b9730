---------------------------- MODULE ConnectionProofs ----------------------------
(***************************************************************************)
(* For any number of jobs, retries, refreshes and dialogs: the account has *)
(* its type, the queue is blocked by no more than those who hold it, who   *)
(* holds it is going to let it go, a user who is asked for credentials is  *)
(* not forgotten, and who has signed out stays so.  The code composes its  *)
(* handlers from one another, and so does the proof: a lemma for each      *)
(* operator says what it keeps, and the actions only cite them.            *)
(***************************************************************************)
EXTENDS Connection, FiniteSetTheorems, TLAPS

\* An account within a handler: only at its end are the bounds of the model looked at.
Handled == [state : States, status : {"maintenance", "other"}, over : {"invalid", "running", "passed"},
            recheck : BOOLEAN, waiting : BOOLEAN,
            validator : {"none", "status", "auth", "caps", "parked", "lost"}, full : BOOLEAN,
            held : SUBSET Guards, blocked : Nat, unblocks : 0 .. MaxUnblocks,
            req : [Requests -> {"idle", "sent", "waiting", "again", "lost"}],
            tries : [Requests -> 0 .. MaxRetryCount],
            ready : BOOLEAN, token : BOOLEAN, renewing : BOOLEAN,
            keychain : {"unread", "reading", "read"},
            refreshing : Nat, asks : Nat]

\* The jobs that have yet to be sent, for the first time or once more.
Unsent(a) == {r \in Requests : a.req[r] \in {"idle", "waiting", "again"}}

\* What every handler keeps, called from wherever: what has yet to be sent may be, a guard
\* counts at most once, nobody holds the queue for a user who has signed out, and the check after a
\* maintenance is to come as long as its delay runs.
Sound(a) ==
  /\ a \in Handled
  /\ a.blocked <= Cardinality(a.held)
  /\ \A r \in Unsent(a) : a.tries[r] < MaxRetryCount
  /\ a.state = "SignedOut" => "AccountState" \notin a.held
  /\ a.over = "running" => a.recheck
  /\ a.validator = "parked" => a.blocked > 0

\* The troubles by name.
Parks   == "parked check" \in Troubles
Refuses == "refused refresh" \in Troubles
Loses   == "lost refresh" \in Troubles

\* Who holds the queue for a check has credentials, and a check that has not come to the queue itself.
Fits(a) ==
  /\ "AccountState" \in a.held => a.keychain # "unread" /\ ~a.waiting
  /\ Parks \/ a.validator \notin {"caps", "parked", "lost"} \/ "AccountState" \notin a.held

\* The two halves of HoldIsEnded; the second also says that whoever asks for credentials goes on.
RefreshEnds(a) == Loses \/ "Account" \notin a.held \/ a.refreshing > 0
CheckEnds(a)   ==
  /\ \/ Parks \/ "AccountState" \notin a.held \/ Checking(a) \/ a.recheck
     \/ (a.state = "Connected" /\ a.validator = "none")
  /\ a.state = "AskingCredentials" => a.validator # "none" \/ a.waiting \/ a.recheck

\* What is waited for is about to come, unless a refusal was told to nobody or a refresh got lost.
NewsComes(a) ==
  Refuses \/ Loses \/ ~a.waiting \/ a.keychain = "reading" \/ a.refreshing > 0 \/ a.asks > 0

\* What the queue leaves alone.
Apart(a, b) ==
  /\ b.state = a.state /\ b.status = a.status /\ b.over = a.over /\ b.recheck = a.recheck
  /\ b.waiting = a.waiting /\ b.unblocks = a.unblocks /\ b.full = a.full
  /\ b.ready = a.ready /\ b.token = a.token /\ b.renewing = a.renewing /\ b.keychain = a.keychain
  /\ b.refreshing = a.refreshing /\ b.asks = a.asks
  /\ b.validator = a.validator \/ (a.validator = "parked" /\ b.validator \in {"caps", "lost"})

IInv ==
  /\ Sound(account) /\ TypeOK
  /\ Fits(account) /\ RefreshEnds(account) /\ CheckEnds(account) /\ NewsComes(account)

\* The queue changes nothing for what Fits says, as long as it holds back no more than before.
LEMMA ApartFits ==
  ASSUME NEW a, NEW b, Apart(a, b), "AccountState" \in b.held => "AccountState" \in a.held
  PROVE  Fits(a) => Fits(b)
BY DEF Apart, Fits

LEMMA ApartEnds ==
  ASSUME NEW a, NEW b, Apart(a, b), "AccountState" \in b.held => "AccountState" \in a.held
  PROVE  CheckEnds(a) => CheckEnds(b)
<1>1. /\ b.validator = a.validator \/ (a.validator = "parked" /\ b.validator \in {"caps", "lost"})
      /\ b.state = a.state /\ b.recheck = a.recheck /\ b.waiting = a.waiting
  BY DEF Apart
<1>2. QED
  BY <1>1 DEF CheckEnds, Checking

LEMMA CountHeld ==
  ASSUME NEW H \in SUBSET Guards, NEW g \in Guards
  PROVE  /\ Cardinality(H) \in Nat
         /\ H = {} <=> Cardinality(H) = 0
         /\ g \notin H => Cardinality(H \cup {g}) = Cardinality(H) + 1
         /\ g \in H => Cardinality(H \ {g}) = Cardinality(H) - 1
         /\ Cardinality(H \ {g}) \in Nat
<1>1. IsFiniteSet({"Account"})
  BY FS_Singleton
<1>2. IsFiniteSet(Guards)
  <2>1. Guards = {"Account"} \cup {"AccountState"}
    BY DEF Guards
  <2>2. QED
    BY <1>1, <2>1, FS_AddElement
<1>3. IsFiniteSet(H) /\ IsFiniteSet(H \ {g})
  BY <1>2, FS_Subset, FS_RemoveElement
<1>4. QED
  BY <1>3, FS_CardinalityType, FS_EmptySet, FS_AddElement, FS_RemoveElement

LEMMA SomeoneHolds ==
  ASSUME NEW H \in SUBSET Guards, NEW n \in Nat, n > 0, n <= Cardinality(H), "AccountState" \notin H
  PROVE  "Account" \in H
<1>1. H # {}
  <2>1. H = {} => Cardinality(H) = 0
    BY FS_EmptySet
  <2>. HIDE DEF Guards
  <2>2. Cardinality(H) # 0
    OBVIOUS
  <2>3. QED
    BY <2>1, <2>2
<1>2. QED
  BY <1>1 DEF Guards

LEMMA Bounds ==
  /\ MaxRetryCount \in Nat /\ MaxRetryCount > 0 /\ MaxRefreshes \in Nat /\ MaxAsks \in Nat
  /\ MaxUnblocks \in Nat /\ MaxUnblocks > 0
<1>1. MaxRetryCount \in Nat \ {0} /\ MaxUnblocks \in Nat \ {0}
  BY ConnectionAssumption
<1>2. MaxRefreshes \in Nat /\ MaxAsks \in Nat
  BY ConnectionAssumption
<1>3. QED
  BY <1>1, <1>2

LEMMA LeastRetries == 0 \in 0 .. MaxRetryCount
<1>1. MaxRetryCount \in Nat
  BY Bounds
<1>2. QED
  BY <1>1

LEMMA MinOfTwo ==
  ASSUME NEW x \in Nat, NEW y \in Nat
  PROVE  Min({x, y}) = IF x <= y THEN x ELSE y
BY DEF Min

-----------------------------------------------------------------------------
(* The queue. *)

LEMMA BlockKeeps ==
  ASSUME NEW a, Sound(a), NEW g \in Guards, g = "AccountState" => a.state # "SignedOut"
  PROVE  Sound(Block(a, g)) /\ Apart(a, Block(a, g)) /\ Block(a, g).held = a.held \cup {g}
<1>1. CASE g \in a.held
  <2>1. Block(a, g) = a
    BY <1>1 DEF Block
  <2>2. QED
    BY <1>1, <2>1 DEF Apart
<1>2. CASE g \notin a.held
  <2>. DEFINE H == a.held \cup {g}
              n == a.blocked + 1
              b == [a EXCEPT !.held = H, !.blocked = n]
  <2>1. Cardinality(a.held \cup {g}) = Cardinality(a.held) + 1 /\ Cardinality(a.held) \in Nat
    BY <1>2, CountHeld DEF Sound, Handled
  <2>2. Block(a, g) = b
    BY <1>2 DEF Block
  <2>a. H \in SUBSET Guards /\ n \in Nat /\ a.blocked \in Nat
    BY DEF Sound, Handled
  <2>3. b \in Handled /\ b.held = a.held \cup {g} /\ b.blocked = a.blocked + 1
    <3>1. a \in Handled
      BY DEF Sound
    <3>. HIDE DEF H, n
    <3>2. b \in Handled /\ b.held = H /\ b.blocked = n
      BY <2>a, <3>1 DEF Handled
    <3>3. QED
      BY <3>2 DEF H, n
  <2>4. Unsent(b) = Unsent(a) /\ b.tries = a.tries /\ Apart(a, b)
    BY DEF Sound, Handled, Unsent, Apart
  <2>5. Sound(b)
    BY <2>1, <2>a, <2>3, <2>4 DEF Sound, Apart
  <2>6. QED
    BY <2>2, <2>3, <2>4, <2>5
<1>3. QED
  BY <1>1, <1>2

\* The jobs of the queue are sent, each with one retry more.
LEMMA ResentKeeps ==
  ASSUME NEW a, a \in Handled,
         a.blocked <= Cardinality(a.held),
         \A r \in Unsent(a) : a.tries[r] < MaxRetryCount,
         a.state = "SignedOut" => "AccountState" \notin a.held,
         a.over = "running" => a.recheck
  PROVE  Sound(Resent(a)) /\ Apart(a, Resent(a)) /\ Resent(a).held = a.held
<1>. DEFINE b == Resent(a)
            T == [r \in Requests |-> a.tries[r] + (IF r \in Queued(a) THEN 1 ELSE 0)]
            Q == [r \in Requests |-> IF r \in Queued(a) THEN "sent" ELSE a.req[r]]
<1>1. /\ b.req = Q /\ b.tries = T /\ b.held = a.held /\ b.blocked = a.blocked
      /\ Apart(a, b) /\ b.validator # "parked"
  BY DEF Resent, Sound, Handled, Apart
<1>2. \A r \in Unsent(b) : r \in Unsent(a) /\ b.tries[r] = a.tries[r]
  <2>. SUFFICES ASSUME NEW r \in Requests, b.req[r] \in {"idle", "waiting", "again"}
                PROVE  r \in Unsent(a) /\ b.tries[r] = a.tries[r]
    BY DEF Unsent
  <2>1. r \notin Queued(a) /\ b.req[r] = a.req[r] /\ b.tries[r] = a.tries[r] + 0
    BY <1>1
  <2>2. a.tries[r] \in Nat
    BY DEF Sound, Handled
  <2>3. QED
    BY <2>1, <2>2 DEF Unsent
<1>3. T \in [Requests -> 0 .. MaxRetryCount]
  <2>. SUFFICES ASSUME NEW r \in Requests
                PROVE  a.tries[r] + (IF r \in Queued(a) THEN 1 ELSE 0) \in 0 .. MaxRetryCount
    OBVIOUS
  <2>1. a.tries[r] \in 0 .. MaxRetryCount /\ MaxRetryCount \in Nat
    BY ConnectionAssumption DEF Sound, Handled
  <2>2. r \in Queued(a) => a.tries[r] < MaxRetryCount
    BY DEF Sound, Queued, Unsent
  <2>3. QED
    BY <2>1, <2>2
<1>4. Q \in [Requests -> {"idle", "sent", "waiting", "again", "lost"}]
  BY DEF Sound, Handled
<1>5. b \in Handled
  <2>1. b = [a EXCEPT !.req = Q, !.tries = T,
                      !.validator = IF a.validator = "parked" THEN "caps" ELSE a.validator]
    BY DEF Resent
  <2>. HIDE DEF b, Q, T
  <2>2. QED
    BY <1>3, <1>4, <2>1 DEF Sound, Handled
<1>6. QED
  BY <1>1, <1>2, <1>5 DEF Sound, Apart

LEMMA UnblockKeeps ==
  ASSUME NEW a, Sound(a), NEW g \in Guards
  PROVE  Sound(Unblock(a, g)) /\ Apart(a, Unblock(a, g)) /\ Unblock(a, g).held = a.held \ {g}
<1>1. CASE g \notin a.held
  <2>1. Unblock(a, g) = a
    BY <1>1 DEF Unblock
  <2>2. QED
    BY <1>1, <2>1 DEF Apart
<1>2. CASE g \in a.held
  <2>. DEFINE H == a.held \ {g}
              n == IF a.blocked = 0 THEN 0 ELSE a.blocked - 1
              c == [a EXCEPT !.held = H, !.blocked = n]
  <2>1. /\ Cardinality(a.held \ {g}) = Cardinality(a.held) - 1
        /\ Cardinality(a.held) \in Nat /\ Cardinality(a.held \ {g}) \in Nat
    BY <1>2, CountHeld DEF Sound, Handled
  <2>2. /\ c \in Handled /\ c.held = a.held \ {g}
        /\ c.blocked = IF a.blocked = 0 THEN 0 ELSE a.blocked - 1
    <3>1. a \in Handled /\ H \in SUBSET Guards /\ n \in Nat
      BY DEF Sound, Handled
    <3>. HIDE DEF H, n
    <3>2. c \in Handled /\ c.held = H /\ c.blocked = n
      BY <3>1 DEF Handled
    <3>3. QED
      BY <3>2 DEF H, n
  <2>3. Unsent(c) = Unsent(a) /\ c.tries = a.tries /\ Apart(a, c)
    BY DEF Sound, Handled, Unsent, Apart
  <2>4. a.blocked \in Nat
    BY DEF Sound, Handled
  <2>5. c.blocked <= Cardinality(c.held)
    BY <2>1, <2>2, <2>4 DEF Sound
  <2>6. c.validator = a.validator
    BY DEF Sound, Handled
  <2>7. Unblock(a, g) = IF a.blocked = 1 THEN Resent(c) ELSE c
    BY <1>2 DEF Unblock
  <2>. HIDE DEF c
  <2>8. CASE a.blocked = 1
    <3>1. Sound(Resent(c)) /\ Apart(c, Resent(c)) /\ Resent(c).held = c.held
      BY <2>2, <2>3, <2>5, ResentKeeps DEF Sound, Apart
    <3>2. Apart(a, Resent(c))
      BY <2>3, <2>6, <3>1 DEF Apart
    <3>3. QED
      BY <2>2, <2>7, <2>8, <3>1, <3>2
  <2>9. CASE a.blocked # 1
    <3>1. a.validator = "parked" => c.blocked > 0
      <4>1. a.validator = "parked" => a.blocked > 0
        BY DEF Sound
      <4>2. a.blocked > 0 => c.blocked > 0
        BY <2>2, <2>4, <2>9
      <4>3. QED
        BY <4>1, <4>2
    <3>2. Sound(c)
      BY <2>2, <2>3, <2>5, <2>6, <3>1 DEF Sound, Apart
    <3>3. QED
      BY <2>2, <2>3, <2>7, <2>9, <3>2
  <2>10. QED
    BY <2>8, <2>9
<1>3. QED
  BY <1>1, <1>2

\* Nobody who holds the queue loses his hold, but whoever clears it.
LEMMA ClearKeeps ==
  ASSUME NEW a, a \in Handled, NEW g \in Guards,
         a.blocked <= Cardinality(a.held),
         \A r \in Unsent(a) : a.tries[r] < MaxRetryCount,
         a.state = "SignedOut" => "AccountState" \notin a.held \ {g},
         a.over = "running" => a.recheck,
         a.validator = "parked" => a.blocked > 0
  PROVE  Sound(Clear(a, g)) /\ Apart(a, Clear(a, g)) /\ Clear(a, g).held = a.held \ {g}
<1>1. CASE g \notin a.held
  <2>1. Clear(a, g) = a
    BY <1>1 DEF Clear
  <2>2. QED
    BY <1>1, <2>1 DEF Apart, Sound
<1>2. CASE g \in a.held
  <2>. DEFINE b == Clear(a, g)
              Q == [r \in Requests |-> CASE a.req[r] = "waiting" -> "idle"
                                         [] a.req[r] = "again"   -> "lost"
                                         [] OTHER                -> a.req[r]]
              T == [r \in Requests |-> IF r \in Queued(a) THEN 0 ELSE a.tries[r]]
  <2>1. b = [a EXCEPT !.held = a.held \ {g}, !.blocked = 0, !.req = Q, !.tries = T,
                      !.validator = IF a.validator = "parked" THEN "lost" ELSE a.validator]
    BY <1>2 DEF Clear
  <2>2. Q \in [Requests -> {"idle", "sent", "waiting", "again", "lost"}]
    BY DEF Handled
  <2>3. T \in [Requests -> 0 .. MaxRetryCount]
    <3>1. a.tries \in [Requests -> 0 .. MaxRetryCount]
      BY DEF Handled
    <3>2. 0 \in 0 .. MaxRetryCount
      BY LeastRetries
    <3>3. QED
      BY <3>1, <3>2
  <2>4. \A r \in Requests : Q[r] \in {"idle", "waiting", "again"} => T[r] < MaxRetryCount
    <3>. SUFFICES ASSUME NEW r \in Requests, Q[r] \in {"idle", "waiting", "again"}
                  PROVE  T[r] < MaxRetryCount
      OBVIOUS
    <3>1. CASE r \in Queued(a)
      BY <3>1, Bounds
    <3>2. CASE r \notin Queued(a)
      <4>1. Q[r] = a.req[r] /\ T[r] = a.tries[r]
        BY <3>2 DEF Queued
      <4>2. QED
        BY <4>1 DEF Unsent
    <3>3. QED
      BY <3>1, <3>2
  <2>. HIDE DEF Q, T, b
  <2>5. /\ b \in Handled /\ Apart(a, b)
        /\ b.held = a.held \ {g} /\ b.blocked = 0 /\ b.req = Q /\ b.tries = T
        /\ b.validator # "parked"
    BY <2>1, <2>2, <2>3 DEF Handled, Apart
  <2>6. \A r \in Unsent(b) : b.tries[r] < MaxRetryCount
    BY <2>4, <2>5 DEF Unsent
  <2>7. Cardinality(b.held) \in Nat
    BY <2>5, CountHeld DEF Handled
  <2>8. Sound(b)
    BY <2>5, <2>6, <2>7 DEF Sound, Apart
  <2>9. QED
    BY <2>5, <2>8 DEF b
<1>3. QED
  BY <1>1, <1>2

-----------------------------------------------------------------------------
(* The account and its credentials. *)

LEMMA DoneKeeps ==
  ASSUME NEW a, Sound(a)
  PROVE  /\ Sound(Done(a))
         /\ Done(a).state = a.state /\ Done(a).held = a.held
         /\ Done(a).refreshing = a.refreshing /\ Done(a).ready = a.ready
         /\ Done(a).waiting = a.waiting /\ Done(a).keychain = a.keychain /\ Done(a).asks = a.asks
         /\ Done(a).validator = "none"
         /\ Fits(a) => Fits(Done(a))
BY DEF Done, Sound, Handled, Unsent, Fits

LEMMA StartRefreshKeeps ==
  ASSUME NEW a, Sound(a)
  PROVE  LET b == StartRefresh(a) IN
         /\ Sound(b)
         /\ b.state = a.state /\ RefreshEnds(b) /\ NewsComes(b)
         /\ CheckEnds(a) => CheckEnds(b)
         /\ a.waiting => b.waiting
         /\ b.held = a.held \cup {"Account"}
         /\ Fits(a) => Fits(b)
<1>. DEFINE n == a.refreshing + 1
            c == [a EXCEPT !.refreshing = n, !.renewing = TRUE]
            b == Block(c, "Account")
<1>0. n \in Nat /\ n > 0
  BY DEF Sound, Handled
<1>. HIDE DEF n
<1>1. /\ Sound(c) /\ c.state = a.state /\ c.held = a.held /\ c.validator = a.validator
      /\ c.refreshing \in Nat /\ c.refreshing > 0 /\ c.unblocks = a.unblocks
      /\ c.waiting = a.waiting /\ c.recheck = a.recheck /\ c.keychain = a.keychain
  BY <1>0 DEF Sound, Handled, Unsent
<1>. HIDE DEF c
<1>2. Sound(b) /\ Apart(c, b) /\ b.held = c.held \cup {"Account"}
  BY <1>1, BlockKeeps DEF Guards
<1>3. b = StartRefresh(a)
  BY DEF StartRefresh, c, n
<1>. HIDE DEF b
<1>4. RefreshEnds(b) /\ NewsComes(b)
  BY <1>1, <1>2 DEF RefreshEnds, NewsComes, Apart
<1>5. Fits(a) => Fits(b)
  BY <1>1, <1>2 DEF Fits, Apart
<1>6. CheckEnds(a) => CheckEnds(b)
  <2>1. CheckEnds(a) => CheckEnds(c)
    BY <1>1 DEF CheckEnds, Checking
  <2>2. QED
    BY <1>1, <1>2, <2>1, ApartEnds
<1>7. QED
  BY <1>1, <1>2, <1>3, <1>4, <1>5, <1>6 DEF Apart

LEMMA ValidateKeeps ==
  ASSUME NEW a, Sound(a), a.state # "SignedOut", NEW blockJobs \in BOOLEAN
  PROVE  LET b == Validate(a, blockJobs) IN
         /\ Sound(b) /\ b.validator = "status"
         /\ b.state = a.state /\ b.refreshing = a.refreshing
         /\ "Account" \in b.held => "Account" \in a.held
         /\ b.waiting = a.waiting /\ b.keychain = a.keychain /\ b.asks = a.asks
         /\ ~blockJobs => b.held = a.held
<1>. DEFINE c == IF blockJobs THEN Block(a, "AccountState") ELSE a
            f == ~(blockJobs /\ a.state = "Connected")
            b == [c EXCEPT !.validator = "status", !.full = f]
<1>1. /\ Sound(c) /\ c.state = a.state /\ c.refreshing = a.refreshing
      /\ "Account" \in c.held => "Account" \in a.held
      /\ c.waiting = a.waiting /\ c.keychain = a.keychain /\ c.asks = a.asks
      /\ ~blockJobs => c.held = a.held
  <2>1. CASE blockJobs
    BY <2>1, BlockKeeps DEF Guards, Apart
  <2>2. CASE ~blockJobs
    BY <2>2
  <2>3. QED
    BY <2>1, <2>2
<1>2. b = Validate(a, blockJobs)
  BY DEF Validate
<1>3. f \in BOOLEAN
  OBVIOUS
<1>. HIDE DEF c, f
<1>4. /\ Sound(b) /\ b.validator = "status" /\ b.state = c.state /\ b.refreshing = c.refreshing
      /\ b.held = c.held /\ b.waiting = c.waiting /\ b.keychain = c.keychain /\ b.asks = c.asks
  BY <1>1, <1>3 DEF Sound, Handled, Unsent
<1>5. QED
  BY <1>1, <1>2, <1>4

LEMMA FetchKeeps ==
  ASSUME NEW a, Sound(a), a.state # "SignedOut", ~a.waiting, "AccountState" \notin a.held
  PROVE  /\ Sound(Fetch(a)) /\ Fetch(a).state = a.state
         /\ CheckEnds(Fetch(a)) /\ NewsComes(Fetch(a)) /\ Fits(Fetch(a))
         /\ RefreshEnds(a) => RefreshEnds(Fetch(a))
<1>1. CASE a.ready
  <2>. DEFINE c == [a EXCEPT !.keychain = "read"]
              d == Validate(c, FALSE)
              b == Unblock(d, "Account")
  <2>1. Sound(c) /\ c.state = a.state /\ ~c.waiting /\ c.held = a.held
    BY DEF Sound, Handled, Unsent
  <2>. HIDE DEF c
  <2>2. Sound(d) /\ d.validator = "status" /\ d.state = c.state /\ ~d.waiting /\ d.held = a.held
    BY <1>1, <2>1, ValidateKeeps
  <2>. HIDE DEF d
  <2>3. Sound(b) /\ Apart(d, b) /\ b.held = d.held \ {"Account"}
    BY <2>2, UnblockKeeps DEF Guards
  <2>4. Fetch(a) = b
    BY <1>1 DEF Fetch, c, d
  <2>. HIDE DEF b
  <2>5. QED
    <3>1. CheckEnds(b) /\ NewsComes(b) /\ RefreshEnds(b) /\ Fits(b)
      BY <2>2, <2>3 DEF CheckEnds, RefreshEnds, NewsComes, Fits, Apart
    <3>2. QED
      BY <2>1, <2>2, <2>3, <2>4, <3>1 DEF Apart
<1>2. CASE ~a.ready /\ a.token
  <2>. DEFINE c == [a EXCEPT !.waiting = TRUE, !.keychain = "read"]
  <2>1. Sound(c) /\ c.state = a.state /\ c.waiting /\ c.held = a.held
    BY DEF Sound, Handled, Unsent
  <2>2. Fetch(a) = StartRefresh(c)
    BY <1>2 DEF Fetch
  <2>. HIDE DEF c
  <2>3. CheckEnds(c) /\ Fits(c)
    BY <2>1 DEF CheckEnds, Fits
  <2>4. QED
    BY <2>1, <2>2, <2>3, StartRefreshKeeps
<1>3. CASE ~a.ready /\ ~a.token
  <2>1. Fetch(a) = [a EXCEPT !.waiting = TRUE, !.keychain = "reading"]
    BY <1>3 DEF Fetch
  <2>2. QED
    BY <2>1 DEF Sound, Handled, Unsent, CheckEnds, RefreshEnds, NewsComes, Fits
<1>4. QED
  BY <1>1, <1>2, <1>3 DEF Sound, Handled

\* A check is not under way in vain: it is, or is not needed, whatever was before.
LEMMA CheckKeeps ==
  ASSUME NEW a, Sound(a), Fits(a), NEW blockJobs \in BOOLEAN, NEW recent \in BOOLEAN
  PROVE  LET b == Check(a, blockJobs, recent) IN
         /\ Sound(b) /\ b.state = a.state
         /\ RefreshEnds(a) => RefreshEnds(b)
         /\ NewsComes(a) => NewsComes(b)
         /\ CheckEnds(b) /\ Fits(b)
<1>. DEFINE b == IF blockJobs /\ a.blocked = 0 THEN Done(a) ELSE a
            c == Check(a, blockJobs, recent)
<1>1. /\ Sound(b) /\ b.state = a.state /\ b.held = a.held /\ b.refreshing = a.refreshing
      /\ ~blockJobs => b = a
      /\ b.waiting = a.waiting /\ b.keychain = a.keychain /\ b.asks = a.asks
      /\ Fits(b)
  BY DoneKeeps
<1>. HIDE DEF b
<1>2. CASE a.state = "SignedOut" \/ a.waiting
  <2>1. c = a
    BY <1>2 DEF Check
  <2>2. QED
    BY <1>2, <2>1 DEF CheckEnds, Sound, Fits
<1>3. CASE ~(a.state = "SignedOut" \/ a.waiting) /\ b.validator # "none"
  <2>1. c = b
    BY <1>3 DEF Check, b
  <2>2. QED
    <3>1. CheckEnds(b)
      <4>1. b.validator \in {"none", "status", "auth", "caps", "parked", "lost"}
        BY <1>1 DEF Sound, Handled
      <4>2. QED
        BY <1>1, <1>3, <4>1 DEF CheckEnds, Checking, Fits
    <3>2. (RefreshEnds(a) => RefreshEnds(b)) /\ (NewsComes(a) => NewsComes(b))
      BY <1>1 DEF RefreshEnds, NewsComes
    <3>3. QED
      BY <1>1, <2>1, <3>1, <3>2
<1>4. CASE ~(a.state = "SignedOut" \/ a.waiting) /\ b.validator = "none"
  <2>1. c = IF b.keychain = "unread" THEN Fetch(b)
            ELSE IF ~blockJobs /\ b.state = "Connected" /\ recent THEN b
            ELSE Validate(b, blockJobs)
    BY <1>4 DEF Check, b
  <2>2. CASE b.keychain = "unread"
    <3>1. /\ c = Fetch(b) /\ Sound(b) /\ b.state # "SignedOut" /\ ~b.waiting
          /\ "AccountState" \notin b.held
      BY <1>1, <1>4, <2>1, <2>2 DEF Fits
    <3>2. RefreshEnds(a) => RefreshEnds(b)
      BY <1>1 DEF RefreshEnds
    <3>3. QED
      BY <1>1, <3>1, <3>2, FetchKeeps
  <2>3. CASE b.keychain # "unread" /\ ~blockJobs /\ b.state = "Connected" /\ recent
    <3>1. c = b /\ b = a
      BY <1>1, <2>1, <2>3
    <3>2. CheckEnds(b)
      BY <1>4, <2>3 DEF CheckEnds
    <3>3. QED
      BY <1>1, <3>1, <3>2
  <2>4. CASE b.keychain # "unread" /\ ~(~blockJobs /\ b.state = "Connected" /\ recent)
    <3>1. c = Validate(b, blockJobs)
      BY <2>1, <2>4
    <3>2. QED
      <4>. DEFINE v == Validate(b, blockJobs)
      <4>1. /\ Sound(v) /\ v.validator = "status"
            /\ v.state = b.state /\ v.refreshing = b.refreshing
            /\ "Account" \in v.held => "Account" \in b.held
            /\ v.waiting = b.waiting /\ v.keychain = b.keychain /\ v.asks = b.asks
        BY <1>1, <1>4, ValidateKeeps
      <4>. HIDE DEF v
      <4>2. CheckEnds(v) /\ Fits(v)
        BY <1>1, <1>4, <2>4, <4>1 DEF CheckEnds, Checking, Fits
      <4>3. (RefreshEnds(a) => RefreshEnds(v)) /\ (NewsComes(a) => NewsComes(v))
        BY <1>1, <4>1 DEF RefreshEnds, NewsComes
      <4>4. QED
        BY <1>1, <3>1, <4>1, <4>2, <4>3 DEF v
  <2>5. QED
    BY <2>2, <2>3, <2>4
<1>5. QED
  BY <1>2, <1>3, <1>4

\* Whatever the new state is, the hold on the queue is let go, at once or by a posted call.
LEMMA SetStateKeeps ==
  ASSUME NEW a, Sound(a), NEW new \in States,
         new = "AskingCredentials" => a.waiting,
         new # "AskingCredentials" => Fits(a),
         new = "Connected" => a.validator = "none"
  PROVE  LET b == SetState(a, new) IN
         /\ Sound(b) /\ b.state = new
         /\ CheckEnds(b) /\ Fits(b)
         /\ RefreshEnds(a) => RefreshEnds(b)
         /\ NewsComes(a) => NewsComes(b)
<1>. DEFINE b == [a EXCEPT !.state = new]
            c == IF new = a.state THEN a
                 ELSE IF new = "SignedOut" THEN [b EXCEPT !.status = "other", !.over = "invalid"]
                 ELSE IF a.state = "SignedOut" /\ new = "Disconnected" THEN Check(b, FALSE, FALSE)
                 ELSE IF new = "ServiceUnavailable" THEN Check(Done(b), FALSE, FALSE)
                 ELSE b
            u == Min({c.unblocks + 1, MaxUnblocks})
            d == [c EXCEPT !.unblocks = u]
<1>1. SetState(a, new) = IF new = "Connected" THEN d ELSE Clear(c, "AccountState")
  BY DEF SetState
<1>2. new # "SignedOut" => /\ Sound(b) /\ b.state = new
                           /\ RefreshEnds(a) => RefreshEnds(b)
                           /\ NewsComes(a) => NewsComes(b)
                           /\ Fits(a) => Fits(b)
                           /\ b.validator = a.validator
  BY DEF Sound, Handled, Unsent, RefreshEnds, NewsComes, Fits
<1>3. CASE new # "SignedOut"
  <2>0. new = "AskingCredentials" => c.waiting
    BY DEF Sound, Handled
  <2>1. Sound(c) /\ c.state = new /\ (RefreshEnds(a) => RefreshEnds(c)) /\ (NewsComes(a) => NewsComes(c))
    <3>. HIDE DEF b
    <3>1. /\ Sound(Done(b)) /\ Done(b).state = new
          /\ (RefreshEnds(a) => RefreshEnds(Done(b))) /\ (NewsComes(a) => NewsComes(Done(b)))
          /\ Fits(a) => Fits(Done(b))
      BY <1>2, <1>3, DoneKeeps DEF RefreshEnds, NewsComes
    <3>2. QED
      BY <1>2, <1>3, <3>1, CheckKeeps
  <2>a. new = "Connected" => Fits(c) /\ c.validator = "none"
    <3>. HIDE DEF b
    <3>1. QED
      BY <1>2
  <2>. HIDE DEF c
  <2>2. CASE new = "Connected"
    <3>1. u \in 0 .. MaxUnblocks /\ u > 0
      <4>1. c.unblocks \in 0 .. MaxUnblocks /\ MaxUnblocks \in Nat \ {0}
        BY <2>1, ConnectionAssumption DEF Sound, Handled
      <4>2. u = IF c.unblocks + 1 <= MaxUnblocks THEN c.unblocks + 1 ELSE MaxUnblocks
        BY <4>1, MinOfTwo
      <4>3. QED
        BY <4>1, <4>2
    <3>. HIDE DEF u
    <3>2. Sound(d) /\ d.state = new /\ CheckEnds(d) /\ Fits(d) /\ (RefreshEnds(c) => RefreshEnds(d)) /\ (NewsComes(c) => NewsComes(d))
      <4>1. /\ d \in Handled /\ Unsent(d) = Unsent(c) /\ d.tries = c.tries
            /\ d.held = c.held /\ d.blocked = c.blocked /\ d.over = c.over /\ d.recheck = c.recheck
            /\ d.state = c.state /\ d.refreshing = c.refreshing /\ d.validator = c.validator
            /\ d.waiting = c.waiting /\ d.keychain = c.keychain /\ d.asks = c.asks
        BY <2>1, <3>1 DEF Sound, Handled, Unsent
      <4>. HIDE DEF d
      <4>2. Sound(d)
        BY <2>1, <4>1 DEF Sound
      <4>3. CheckEnds(d) /\ Fits(d)
        BY <2>1, <2>2, <2>a, <4>1 DEF CheckEnds, Fits
      <4>4. QED
        BY <2>1, <4>1, <4>2, <4>3 DEF RefreshEnds, NewsComes
    <3>3. QED
      BY <1>1, <2>1, <2>2, <3>2
  <2>3. CASE new # "Connected"
    <3>. DEFINE e == Clear(c, "AccountState")
    <3>1. Sound(e) /\ Apart(c, e) /\ e.held = c.held \ {"AccountState"}
      BY <2>1, ClearKeeps DEF Sound, Guards
    <3>2. e = SetState(a, new)
      BY <1>1, <2>3
    <3>. HIDE DEF e
    <3>3. QED
      <4>1. CheckEnds(e) /\ Fits(e)
        BY <2>0, <2>1, <3>1 DEF CheckEnds, Fits, Apart
      <4>2. (RefreshEnds(c) => RefreshEnds(e)) /\ (NewsComes(c) => NewsComes(e))
        BY <3>1 DEF RefreshEnds, NewsComes, Apart
      <4>3. QED
        BY <2>1, <3>1, <3>2, <4>1, <4>2 DEF Apart
  <2>4. QED
    BY <2>2, <2>3
<1>4. CASE new = "SignedOut"
  <2>. DEFINE e == Clear(c, "AccountState")
  <2>1. /\ c \in Handled
        /\ c.blocked <= Cardinality(c.held)
        /\ \A r \in Unsent(c) : c.tries[r] < MaxRetryCount
        /\ c.over = "running" => c.recheck
        /\ c.validator = "parked" => c.blocked > 0
        /\ c.state = new /\ c.held = a.held /\ c.refreshing = a.refreshing
        /\ c.waiting = a.waiting /\ c.keychain = a.keychain /\ c.asks = a.asks
    <3>1. CASE new = a.state
      BY <1>4, <3>1 DEF Sound
    <3>2. CASE new # a.state
      <4>1. c = [a EXCEPT !.state = "SignedOut", !.status = "other", !.over = "invalid"]
        BY <1>4, <3>2 DEF Sound, Handled
      <4>. HIDE DEF c
      <4>2. QED
        BY <1>4, <4>1 DEF Sound, Handled, Unsent, States
    <3>3. QED
      BY <3>1, <3>2
  <2>2. e = SetState(a, new)
    BY <1>1, <1>4
  <2>. HIDE DEF c
  <2>3. Sound(e) /\ Apart(c, e) /\ e.held = c.held \ {"AccountState"}
    BY <2>1, ClearKeeps DEF Guards
  <2>. HIDE DEF e
  <2>4. QED
    <3>1. CheckEnds(e) /\ Fits(e)
      BY <1>4, <2>1, <2>3 DEF CheckEnds, Fits, Apart
    <3>2. (RefreshEnds(a) => RefreshEnds(e)) /\ (NewsComes(a) => NewsComes(e))
      BY <2>1, <2>3 DEF RefreshEnds, NewsComes, Apart
    <3>3. QED
      BY <2>1, <2>2, <2>3, <3>1, <3>2 DEF Apart
<1>5. QED
  BY <1>3, <1>4

\* A change of what neither the queue nor the checks have anything to do with.
LEMMA EditKeeps ==
  ASSUME NEW a, Sound(a), NEW b, b \in Handled,
         b.held = a.held, b.blocked = a.blocked, b.req = a.req, b.tries = a.tries,
         b.state = a.state, b.over = "running" => b.recheck,
         b.validator = "parked" => a.blocked > 0
  PROVE  Sound(b)
<1>1. Unsent(b) = Unsent(a)
  BY DEF Unsent
<1>2. QED
  BY <1>1 DEF Sound

LEMMA InvalidKeeps ==
  ASSUME NEW a, Sound(a), Fits(a)
  PROVE  LET b == Invalid(a) IN
         /\ Sound(b)
         /\ CheckEnds(b) /\ Fits(b)
         /\ RefreshEnds(a) => RefreshEnds(b)
         /\ NewsComes(a) => NewsComes(b)
         /\ a.state = "SignedOut" => b.state = "SignedOut"
<1>1. CASE a.state = "SignedOut" \/ a.waiting
  <2>1. Invalid(a) = a
    BY <1>1 DEF Invalid
  <2>2. QED
    BY <1>1, <2>1 DEF CheckEnds, Sound, Fits
<1>2. CASE ~(a.state = "SignedOut" \/ a.waiting)
  <2>. DEFINE c == [a EXCEPT !.waiting = TRUE]
              d == SetState(c, "AskingCredentials")
              b == [d EXCEPT !.ready = FALSE]
              e == [b EXCEPT !.asks = @ + 1]
  <2>1. Sound(c) /\ c.waiting /\ (RefreshEnds(a) => RefreshEnds(c))
    BY DEF Sound, Handled, Unsent, RefreshEnds
  <2>2. Invalid(a) = IF b.token THEN StartRefresh(b) ELSE e
    BY <1>2 DEF Invalid
  <2>. HIDE DEF c
  <2>3. Sound(d) /\ CheckEnds(d) /\ Fits(d) /\ (RefreshEnds(c) => RefreshEnds(d))
    BY <2>1, SetStateKeeps DEF States
  <2>. HIDE DEF d
  <2>4. Sound(b) /\ CheckEnds(b) /\ Fits(b) /\ (RefreshEnds(d) => RefreshEnds(b))
    <3>1. /\ b \in Handled /\ b.tries = d.tries /\ b.held = d.held /\ b.blocked = d.blocked
          /\ b.req = d.req /\ b.state = d.state /\ b.over = d.over /\ b.recheck = d.recheck
          /\ b.validator = d.validator /\ b.waiting = d.waiting /\ b.keychain = d.keychain
          /\ b.refreshing = d.refreshing
      BY <2>3 DEF Sound, Handled
    <3>. HIDE DEF b
    <3>2. Sound(b)
      BY <2>3, <3>1, EditKeeps DEF Sound
    <3>3. CheckEnds(b) /\ Fits(b)
      BY <2>3, <3>1 DEF CheckEnds, Checking, Fits
    <3>4. QED
      BY <3>1, <3>2, <3>3 DEF RefreshEnds
  <2>. HIDE DEF b
  <2>5. Sound(e) /\ CheckEnds(e) /\ Fits(e) /\ (RefreshEnds(b) => RefreshEnds(e)) /\ NewsComes(e)
    <3>0. b.asks + 1 \in Nat /\ b.asks + 1 > 0
      BY <2>4 DEF Sound, Handled
    <3>1. /\ e \in Handled /\ Unsent(e) = Unsent(b) /\ e.tries = b.tries /\ e.held = b.held
          /\ e.asks = b.asks + 1
      BY <2>4 DEF Sound, Handled, Unsent
    <3>2. QED
      BY <2>4, <3>0, <3>1 DEF Sound, Handled, RefreshEnds, NewsComes, CheckEnds, Checking, Fits
  <2>. HIDE DEF e
  <2>6. QED
    BY <1>2, <2>1, <2>2, <2>3, <2>4, <2>5, StartRefreshKeeps
<1>3. QED
  BY <1>1, <1>2

\* What a validator can report.
Results == (States \ {"AskingCredentials"}) \cup {"CredentialsWrong"}

LEMMA ResultKeeps ==
  ASSUME NEW a, Sound(a), Fits(a), NEW result \in Results,
         result = "Connected" => a.validator = "none"
  PROVE  LET b == Result(a, result) IN
         /\ Sound(b)
         /\ CheckEnds(b) /\ Fits(b)
         /\ RefreshEnds(a) => RefreshEnds(b)
         /\ NewsComes(a) => NewsComes(b)
         /\ a.state = "SignedOut" => b.state = "SignedOut"
<1>. DEFINE down == result \in {"ServiceUnavailable", "MaintenanceMode"}
            b == [a EXCEPT !.status = IF down THEN "maintenance" ELSE "other", !.over = "invalid"]
            c == [a EXCEPT !.over = "running", !.recheck = @ \/ a.over = "invalid"]
<1>1. CASE a.state = "SignedOut"
  <2>1. Result(a, result) = a
    BY <1>1 DEF Result, Ignored
  <2>2. QED
    BY <1>1, <2>1 DEF CheckEnds, Sound
<1>2. CASE /\ a.state # "SignedOut" /\ result = "Connected"
           /\ a.status = "maintenance" /\ a.over # "passed"
  <2>1. Result(a, result) = c
    BY <1>2 DEF Result, Ignored
  <2>2. (a.recheck \/ a.over = "invalid") = TRUE
    BY <1>2 DEF Sound, Handled
  <2>3. c = [a EXCEPT !.over = "running", !.recheck = TRUE]
    BY <2>2
  <2>. HIDE DEF c
  <2>4. /\ c \in Handled /\ Unsent(c) = Unsent(a) /\ c.tries = a.tries /\ c.recheck
        /\ c.held = a.held /\ c.blocked = a.blocked /\ c.state = a.state
        /\ c.refreshing = a.refreshing /\ c.waiting = a.waiting /\ c.keychain = a.keychain /\ c.asks = a.asks
        /\ c.validator = a.validator
    BY <2>3 DEF Sound, Handled, Unsent
  <2>5. QED
    BY <1>2, <2>1, <2>4 DEF Sound, CheckEnds, RefreshEnds, NewsComes, Fits
<1>3. CASE /\ a.state # "SignedOut"
           /\ ~(result = "Connected" /\ a.status = "maintenance" /\ a.over # "passed")
  <2>1. Result(a, result) = IF result = "CredentialsWrong" THEN Invalid(b) ELSE SetState(b, result)
    BY <1>3 DEF Result, Ignored
  <2>2. /\ Sound(b) /\ (RefreshEnds(a) => RefreshEnds(b)) /\ (NewsComes(a) => NewsComes(b))
        /\ Fits(b) /\ b.state = a.state /\ b.validator = a.validator
    BY DEF Sound, Handled, Unsent, RefreshEnds, NewsComes, Fits
  <2>. HIDE DEF b
  <2>3. QED
    BY <1>3, <2>1, <2>2, InvalidKeeps, SetStateKeeps DEF Results
<1>4. QED
  BY <1>1, <1>2, <1>3

\* The credentials let the queue go, whatever became of the refresh.
LEMMA FetchedKeeps ==
  ASSUME NEW a, Sound(a), Fits(a), NEW recent \in BOOLEAN
  PROVE  LET b == Fetched(a, recent) IN
         Sound(b) /\ b.state = a.state /\ CheckEnds(b) /\ RefreshEnds(b) /\ NewsComes(b) /\ Fits(b)
<1>. DEFINE c == [a EXCEPT !.waiting = FALSE]
            d == Check(c, FALSE, recent)
            b == Unblock(d, "Account")
<1>1. Sound(c) /\ c.state = a.state /\ NewsComes(c) /\ Fits(c)
  BY DEF Sound, Handled, Unsent, NewsComes, Fits
<1>. HIDE DEF c
<1>2. Sound(d) /\ d.state = c.state /\ CheckEnds(d) /\ NewsComes(d) /\ Fits(d)
  BY <1>1, CheckKeeps
<1>. HIDE DEF d
<1>3. Sound(b) /\ Apart(d, b) /\ b.held = d.held \ {"Account"}
  BY <1>2, UnblockKeeps DEF Guards
<1>4. b = Fetched(a, recent)
  BY DEF Fetched, c, d
<1>. HIDE DEF b
<1>5. RefreshEnds(b) /\ NewsComes(b) /\ Fits(b)
  BY <1>2, <1>3, ApartFits DEF RefreshEnds, NewsComes, Apart
<1>6. CheckEnds(b)
  BY <1>2, <1>3, ApartEnds
<1>7. QED
  BY <1>1, <1>2, <1>3, <1>4, <1>5, <1>6 DEF Apart

LEMMA AskedKeeps ==
  ASSUME NEW a, Sound(a), Fits(a), NEW recent \in BOOLEAN
  PROVE  LET b == Asked(a, recent) IN
         /\ Sound(b) /\ CheckEnds(b) /\ NewsComes(b) /\ Fits(b)
         /\ RefreshEnds(a) => RefreshEnds(b)
         /\ a.state = "SignedOut" => b.state = "SignedOut"
<1>. DEFINE c == [a EXCEPT !.waiting = FALSE]
            d == Done(c)
<1>1. Sound(c) /\ c.state = a.state /\ (RefreshEnds(a) => RefreshEnds(c)) /\ NewsComes(c) /\ Fits(c)
  BY DEF Sound, Handled, Unsent, RefreshEnds, NewsComes, Fits
<1>2. Asked(a, recent) = IF c.ready THEN Check(Done(c), FALSE, recent) ELSE SetState(c, "SignedOut")
  BY DEF Asked
<1>. HIDE DEF c
<1>3. Sound(d) /\ d.state = c.state /\ (RefreshEnds(c) => RefreshEnds(d)) /\ NewsComes(d) /\ Fits(d)
  BY <1>1, DoneKeeps DEF RefreshEnds, NewsComes
<1>. HIDE DEF d
<1>4. c.ready => Asked(a, recent) = Check(d, FALSE, recent)
  BY <1>2 DEF d
<1>5. CASE c.ready
  BY <1>1, <1>3, <1>4, <1>5, CheckKeeps
<1>6. CASE ~c.ready
  <2>1. Asked(a, recent) = SetState(c, "SignedOut") /\ "SignedOut" \in States
    BY <1>2, <1>6 DEF States
  <2>2. QED
    BY <1>1, <2>1, SetStateKeeps
<1>7. QED
  BY <1>5, <1>6

LEMMA ChallengedKeeps ==
  ASSUME NEW a, Sound(a)
  PROVE  LET b == Challenged(a) IN
         /\ Sound(b) /\ b.state = a.state
         /\ CheckEnds(a) => CheckEnds(b)
         /\ Fits(a) => Fits(b)
         /\ RefreshEnds(a) => RefreshEnds(b)
         /\ NewsComes(a) => NewsComes(b)
BY StartRefreshKeeps DEF Challenged

LEMMA RetryKeeps ==
  ASSUME NEW a, Sound(a), NEW r \in Requests, MayRetry(a, r)
  PROVE  LET b == Retry(a, r) IN
         /\ Sound(b) /\ b.state = a.state
         /\ CheckEnds(a) => CheckEnds(b)
         /\ Fits(a) => Fits(b)
         /\ RefreshEnds(a) => RefreshEnds(b)
         /\ NewsComes(a) => NewsComes(b)
<1>1. a.tries[r] < MaxRetryCount
  BY DEF MayRetry
<1>2. CASE a.blocked > 0
  <2>. DEFINE b == [a EXCEPT !.req[r] = "again"]
  <2>1. Retry(a, r) = b
    BY <1>2 DEF Retry
  <2>2. b \in Handled /\ Unsent(b) \subseteq Unsent(a) \cup {r} /\ b.tries = a.tries
    BY DEF Sound, Handled, Unsent
  <2>3. /\ b.held = a.held /\ b.blocked = a.blocked /\ b.state = a.state
        /\ Apart(a, b) /\ b.validator = a.validator
    BY DEF Sound, Handled, Apart
  <2>. HIDE DEF b
  <2>4. QED
    <3>1. Sound(b)
      BY <1>1, <2>2, <2>3 DEF Sound, Apart
    <3>2. (CheckEnds(a) => CheckEnds(b)) /\ (Fits(a) => Fits(b))
      BY <2>3, ApartEnds, ApartFits
    <3>3. (RefreshEnds(a) => RefreshEnds(b)) /\ (NewsComes(a) => NewsComes(b))
      BY <2>3 DEF Apart, RefreshEnds, NewsComes
    <3>4. QED
      BY <2>1, <2>3, <3>1, <3>2, <3>3
<1>3. CASE ~(a.blocked > 0)
  <2>. DEFINE b == [a EXCEPT !.req[r] = "sent", !.tries[r] = a.tries[r] + 1]
  <2>1. Retry(a, r) = b
    BY <1>3 DEF Retry
  <2>2. a.tries[r] + 1 \in 0 .. MaxRetryCount
    <3>1. a.tries[r] \in 0 .. MaxRetryCount /\ MaxRetryCount \in Nat
      BY ConnectionAssumption DEF Sound, Handled
    <3>2. QED
      BY <1>1, <3>1
  <2>3. b \in Handled
    BY <2>2 DEF Sound, Handled
  <2>4. \A s \in Unsent(b) : s \in Unsent(a) /\ b.tries[s] = a.tries[s]
    BY DEF Sound, Handled, Unsent
  <2>5. /\ b.held = a.held /\ b.blocked = a.blocked
        /\ Apart(a, b) /\ b.validator = a.validator
    BY DEF Sound, Handled, Apart
  <2>. HIDE DEF b
  <2>6. Sound(b)
    BY <2>3, <2>4, <2>5 DEF Sound, Apart
  <2>7. (CheckEnds(a) => CheckEnds(b)) /\ (Fits(a) => Fits(b))
    BY <2>5, ApartEnds, ApartFits
  <2>8. (RefreshEnds(a) => RefreshEnds(b)) /\ (NewsComes(a) => NewsComes(b))
    BY <2>5 DEF Apart, RefreshEnds, NewsComes
  <2>9. QED
    BY <2>1, <2>5, <2>6, <2>7, <2>8 DEF Apart
<1>4. QED
  BY <1>2, <1>3

LEMMA DeletedKeeps ==
  ASSUME NEW a, Sound(a), NEW r \in Requests
  PROVE  LET b == Deleted(a, r) IN
         /\ Sound(b) /\ b.state = a.state
         /\ CheckEnds(a) => CheckEnds(b)
         /\ Fits(a) => Fits(b)
         /\ RefreshEnds(a) => RefreshEnds(b)
         /\ NewsComes(a) => NewsComes(b)
<1>. DEFINE b == [a EXCEPT !.req[r] = "idle", !.tries[r] = 0]
<1>1. b \in Handled
  BY LeastRetries DEF Sound, Handled
<1>2. \A s \in Unsent(b) : s = r \/ (s \in Unsent(a) /\ b.tries[s] = a.tries[s])
  BY DEF Sound, Handled, Unsent
<1>a. b.tries[r] = 0 /\ 0 < MaxRetryCount
  BY Bounds DEF Sound, Handled
<1>3. /\ b.held = a.held /\ b.blocked = a.blocked
      /\ Apart(a, b) /\ b.validator = a.validator
  BY DEF Sound, Handled, Apart
<1>4. Deleted(a, r) = b
  BY DEF Deleted
<1>. HIDE DEF b
<1>5. Sound(b)
  BY <1>1, <1>2, <1>a, <1>3 DEF Sound, Apart
<1>6. (CheckEnds(a) => CheckEnds(b)) /\ (Fits(a) => Fits(b))
  BY <1>3, ApartEnds, ApartFits
<1>7. (RefreshEnds(a) => RefreshEnds(b)) /\ (NewsComes(a) => NewsComes(b))
  BY <1>3 DEF Apart, RefreshEnds, NewsComes
<1>8. QED
  BY <1>3, <1>4, <1>5, <1>6, <1>7 DEF Apart

-----------------------------------------------------------------------------
(* The steps. *)

\* Who has signed out stays so.
Stays       == account.state = "SignedOut" => account'.state = "SignedOut"
StaysOut(b) == account.state = "SignedOut" => b.state = "SignedOut"

Safe(b) == Sound(b) /\ Fits(b) /\ RefreshEnds(b) /\ CheckEnds(b) /\ NewsComes(b)
Kept(b) == Safe(b) /\ StaysOut(b)

LEMMA SafeStep ==
  ASSUME NEW b, Safe(b), Step(b)
  PROVE  IInv' /\ account' = b
<1>1. account' = b /\ b.refreshing <= MaxRefreshes /\ b.asks <= MaxAsks
  BY DEF Step
<1>2. b.refreshing \in 0 .. MaxRefreshes /\ b.asks \in 0 .. MaxAsks
  <2>1. b.refreshing \in Nat /\ b.asks \in Nat
    BY DEF Safe, Sound, Handled
  <2>2. QED
    BY <1>1, <2>1, Bounds
<1>3. b \in Account
  BY <1>2 DEF Safe, Sound, Handled, Account
<1>4. /\ Sound(account)' /\ Fits(account)'
      /\ RefreshEnds(account)' /\ CheckEnds(account)' /\ NewsComes(account)'
  BY <1>1 DEF Safe, Sound, Fits, RefreshEnds, NewsComes, CheckEnds, Checking, Unsent
<1>5. QED
  BY <1>1, <1>3, <1>4 DEF IInv, TypeOK

LEMMA StepKeeps ==
  ASSUME NEW b, Kept(b), Step(b)
  PROVE  IInv' /\ Stays
BY SafeStep DEF Kept, StaysOut, Stays

LEMMA InitKeeps == Init => IInv
<1>. SUFFICES ASSUME Init PROVE IInv
  OBVIOUS
<1>1. account.held = {} /\ account.blocked = 0 /\ account.state = "Disconnected" /\ account.over = "invalid"
  BY DEF Init
<1>2. account \in Account /\ account \in Handled
  <2>1. [r \in Requests |-> 0] \in [Requests -> 0 .. MaxRetryCount]
    BY LeastRetries
  <2>2. 0 \in 0 .. MaxRefreshes /\ 0 \in 0 .. MaxAsks /\ 0 \in 0 .. MaxUnblocks
    BY Bounds
  <2>3. QED
    BY <2>1, <2>2 DEF Init, Account, Handled, States, Results
<1>3. \A r \in Unsent(account) : account.tries[r] < MaxRetryCount
  BY Bounds DEF Unsent, Init
<1>4. Cardinality(account.held) = 0
  BY <1>1, FS_EmptySet
<1>5. ~account.waiting /\ account.validator = "none"
  BY DEF Init
<1>6. Sound(account) /\ TypeOK
  BY <1>1, <1>2, <1>3, <1>4, <1>5 DEF Sound, TypeOK
<1>7. Fits(account) /\ RefreshEnds(account) /\ CheckEnds(account) /\ NewsComes(account)
  BY <1>1, <1>5 DEF Fits, RefreshEnds, CheckEnds, NewsComes
<1>8. QED
  BY <1>6, <1>7 DEF IInv

\* Timers, posted calls and the user.
LEMMA TimersKeep ==
  ASSUME IInv, (\E recent \in BOOLEAN : CheckConnection(recent)) \/ DelayPasses \/ Recheck \/ PostedUnblock
  PROVE  IInv' /\ Stays
<1>. USE DEF IInv
<1>1. CASE \E recent \in BOOLEAN : CheckConnection(recent)
  <2>1. PICK recent \in BOOLEAN : Step(Check(account, FALSE, recent))
    BY <1>1 DEF CheckConnection
  <2>2. Kept(Check(account, FALSE, recent))
    BY CheckKeeps DEF Kept, Safe, StaysOut
  <2>3. QED
    BY <2>1, <2>2, StepKeeps
<1>2. CASE DelayPasses
  <2>. DEFINE b == [account EXCEPT !.over = "passed"]
  <2>1. b \in Handled
    BY DEF Sound, Handled
  <2>2. Sound(b)
    BY <2>1, EditKeeps DEF Sound, Handled
  <2>3. Kept(b)
    BY <2>2 DEF Kept, Safe, StaysOut, Fits, RefreshEnds, NewsComes, CheckEnds, Checking, Sound, Handled
  <2>4. QED
    BY <1>2, <2>3, StepKeeps DEF DelayPasses
<1>3. CASE Recheck
  <2>. DEFINE c == [account EXCEPT !.recheck = (account.over = "running")]
              b(recent) == Check(c, FALSE, recent)
  <2>1. /\ c \in Handled /\ c.held = account.held /\ c.refreshing = account.refreshing
        /\ (c.over = "running" => c.recheck) /\ c.state = account.state
    BY DEF Sound, Handled
  <2>2. Sound(c) /\ RefreshEnds(c) /\ NewsComes(c) /\ Fits(c)
    BY <2>1, EditKeeps DEF Sound, Handled, RefreshEnds, NewsComes, Fits
  <2>3. PICK recent \in BOOLEAN : Step(b(recent))
    BY <1>3 DEF Recheck
  <2>. HIDE DEF c
  <2>4. Kept(b(recent))
    BY <2>1, <2>2, CheckKeeps DEF Kept, Safe, StaysOut
  <2>5. QED
    BY <2>3, <2>4, StepKeeps
<1>4. CASE PostedUnblock
  <2>. DEFINE c == [account EXCEPT !.unblocks = account.unblocks - 1]
              b == Unblock(c, "AccountState")
  <2>1. account.unblocks - 1 \in 0 .. MaxUnblocks
    <3>1. account.unblocks \in 0 .. MaxUnblocks /\ account.unblocks > 0
      BY <1>4 DEF PostedUnblock, Sound, Handled
    <3>2. QED
      BY <3>1, Bounds
  <2>2. /\ c \in Handled /\ c.state = account.state /\ c.validator = account.validator
        /\ c.waiting = account.waiting /\ c.recheck = account.recheck
        /\ c.held = account.held /\ c.keychain = account.keychain
    BY <2>1 DEF Sound, Handled
  <2>3. Sound(c) /\ RefreshEnds(c) /\ NewsComes(c) /\ Fits(c)
    BY <2>2, EditKeeps DEF Sound, Handled, RefreshEnds, NewsComes, Fits
  <2>a. CheckEnds(c)
    BY <2>2 DEF CheckEnds, Checking
  <2>4. Step(b)
    BY <1>4 DEF PostedUnblock
  <2>. HIDE DEF c
  <2>5. Sound(b) /\ Apart(c, b) /\ b.held = c.held \ {"AccountState"}
    BY <2>3, UnblockKeeps DEF Guards
  <2>. HIDE DEF b
  <2>6. CheckEnds(b) /\ Fits(b)
    BY <2>3, <2>a, <2>5, ApartEnds, ApartFits
  <2>7. RefreshEnds(b) /\ NewsComes(b) /\ StaysOut(b)
    BY <2>2, <2>3, <2>5 DEF StaysOut, RefreshEnds, NewsComes, Apart
  <2>8. Kept(b)
    BY <2>5, <2>6, <2>7 DEF Kept, Safe
  <2>9. QED
    BY <2>4, <2>8, StepKeeps
<1>5. QED
  BY <1>1, <1>2, <1>3, <1>4

LEMMA UserKeeps ==
  ASSUME IInv, SignOutByUi \/ FreshConnectionAttempt
  PROVE  IInv' /\ Stays
<1>. USE DEF IInv
<1>1. CASE SignOutByUi
  <2>. DEFINE c == [account EXCEPT !.token = FALSE, !.ready = FALSE]
              b == SetState(c, "SignedOut")
  <2>1. /\ c \in Handled /\ c.held = account.held /\ c.refreshing = account.refreshing
        /\ c.state = account.state /\ c.over = account.over /\ c.recheck = account.recheck
        /\ c.req = account.req /\ c.tries = account.tries /\ c.blocked = account.blocked
        /\ c.waiting = account.waiting /\ c.keychain = account.keychain /\ c.asks = account.asks
        /\ c.validator = account.validator
    BY DEF Sound, Handled
  <2>. HIDE DEF c
  <2>2. Sound(c) /\ RefreshEnds(c) /\ NewsComes(c) /\ Fits(c)
    BY <2>1, EditKeeps DEF Sound, RefreshEnds, NewsComes, Fits
  <2>3. Step(b)
    BY <1>1 DEF SignOutByUi, c
  <2>4. Kept(b)
    BY <2>2, SetStateKeeps DEF Kept, Safe, StaysOut, States, Results
  <2>5. QED
    BY <2>3, <2>4, StepKeeps
<1>2. CASE FreshConnectionAttempt
  <2>. DEFINE c == IF account.state = "Connected" THEN SetState(account, "Disconnected") ELSE account
              b == Check(c, FALSE, FALSE)
  <2>1. Sound(c) /\ RefreshEnds(c) /\ NewsComes(c) /\ StaysOut(c) /\ Fits(c)
    BY SetStateKeeps DEF States, StaysOut
  <2>2. Step(b)
    BY <1>2 DEF FreshConnectionAttempt
  <2>. HIDE DEF c
  <2>3. Kept(b)
    BY <2>1, CheckKeeps DEF Kept, Safe, StaysOut
  <2>4. QED
    BY <2>2, <2>3, StepKeeps
<1>3. QED
  BY <1>1, <1>2

LEMMA SignInKeeps ==
  ASSUME IInv, SignIn
  PROVE  IInv'
<1>. USE DEF IInv
<1>. DEFINE c == [account EXCEPT !.waiting = FALSE]
            b == SetState(c, "Disconnected")
<1>1. c \in Handled
  BY DEF Sound, Handled
<1>2. Sound(c) /\ RefreshEnds(c) /\ NewsComes(c) /\ Fits(c)
  BY <1>1, EditKeeps DEF Sound, Handled, RefreshEnds, NewsComes, Fits
<1>3. Step(b)
  BY DEF SignIn
<1>. HIDE DEF c
<1>4. Safe(b)
  BY <1>2, SetStateKeeps DEF Safe, States, Results
<1>5. QED
  BY <1>3, <1>4, SafeStep

\* A report of the validator, which is let go of first.
LEMMA ReportKeeps ==
  ASSUME NEW a, Sound(a), Fits(a), RefreshEnds(a), NewsComes(a), StaysOut(a), NEW result \in Results,
         Step(Result(Done(a), result))
  PROVE  IInv' /\ Stays
<1>1. /\ Sound(Done(a)) /\ RefreshEnds(Done(a)) /\ NewsComes(Done(a)) /\ Done(a).state = a.state
      /\ Fits(Done(a)) /\ Done(a).validator = "none"
  BY DoneKeeps DEF RefreshEnds, NewsComes
<1>2. Kept(Result(Done(a), result))
  BY <1>1, ResultKeeps DEF Kept, Safe, StaysOut
<1>3. QED
  BY <1>2, StepKeeps

\* A job of the check that finds the queue blocked waits in it.
LEMMA ParkedKeeps ==
  ASSUME NEW b, Kept(b)
  PROVE  Kept([b EXCEPT !.validator = IF @ = "caps" /\ b.blocked > 0 THEN "parked" ELSE @])
<1>. DEFINE v == IF b.validator = "caps" /\ b.blocked > 0 THEN "parked" ELSE b.validator
            c == [b EXCEPT !.validator = v]
<1>1. CASE b.validator = "caps" /\ b.blocked > 0
  <2>1. c = [b EXCEPT !.validator = "parked"]
    BY <1>1
  <2>2. b \in Handled
    BY DEF Kept, Safe, Sound
  <2>. HIDE DEF c
  <2>3. /\ c \in Handled /\ c.validator = "parked" /\ c.state = b.state /\ c.held = b.held
        /\ c.keychain = b.keychain /\ c.waiting = b.waiting /\ c.refreshing = b.refreshing
        /\ c.asks = b.asks /\ c.recheck = b.recheck
        /\ c.blocked = b.blocked /\ c.req = b.req /\ c.tries = b.tries /\ c.over = b.over
    BY <2>1, <2>2 DEF Handled
  <2>4. Sound(c)
    BY <1>1, <2>3, EditKeeps DEF Kept, Safe, Sound
  <2>5. Fits(c)
    BY <1>1, <2>3 DEF Kept, Safe, Fits
  <2>6. CheckEnds(c)
    BY <1>1, <2>3, <2>5 DEF Kept, Safe, CheckEnds, Fits
  <2>7. RefreshEnds(c) /\ NewsComes(c) /\ StaysOut(c)
    BY <2>3 DEF Kept, Safe, RefreshEnds, NewsComes, StaysOut
  <2>8. QED
    BY <2>4, <2>5, <2>6, <2>7 DEF Kept, Safe, c
<1>2. CASE ~(b.validator = "caps" /\ b.blocked > 0)
  <2>1. c = b
    BY <1>2 DEF Kept, Safe, Sound, Handled
  <2>2. QED
    BY <2>1
<1>3. QED
  BY <1>1, <1>2

LEMMA ValidatorKeeps ==
  ASSUME IInv,
         StatusAnswered \/ AuthSucceeds \/ AuthFails \/ AuthUnauthorized \/ AuthRedirected
           \/ CapsGoOn \/ CapsReceived
  PROVE  IInv' /\ Stays
<1>. USE DEF IInv
<1>1. CASE StatusAnswered
  <2>1. CASE \E result \in {"NetworkError", "SignedOut", "MaintenanceMode", "ConfigurationError"} :
               Step(Result(Done(account), result))
    BY <2>1, ReportKeeps DEF StaysOut, States, Results
  <2>2. CASE Step([account EXCEPT !.validator = "auth"])
    <3>. DEFINE b == [account EXCEPT !.validator = "auth"]
    <3>1. b \in Handled
      BY DEF Sound, Handled
    <3>2. Sound(b)
      BY <3>1, EditKeeps DEF Sound, Handled
    <3>3. Kept(b)
      BY <3>2 DEF Kept, Safe, StaysOut, Fits, RefreshEnds, NewsComes, CheckEnds, Checking, Sound, Handled
    <3>4. QED
      BY <2>2, <3>3, StepKeeps
  <2>3. CASE Step(Result(Done(account), "CredentialsWrong"))
    BY <2>3, ReportKeeps DEF StaysOut, Results
  <2>4. QED
    BY <1>1, <2>1, <2>2, <2>3 DEF StatusAnswered
<1>2. CASE AuthSucceeds
  <2>1. CASE ~account.full
    BY <1>2, <2>1, ReportKeeps DEF StaysOut, AuthSucceeds, States, Results
  <2>2. CASE account.full
    <3>. DEFINE v == IF account.blocked > 0 THEN "parked" ELSE "caps"
                b == [account EXCEPT !.validator = v]
    <3>1. b \in Handled /\ v # "none" /\ (v = "parked" => account.blocked > 0)
      BY DEF Sound, Handled
    <3>2. Step(b) /\ (Parks \/ "AccountState" \notin account.held)
      BY <1>2, <2>2 DEF AuthSucceeds, Parks
    <3>. HIDE DEF v
    <3>3. Sound(b)
      BY <3>1, EditKeeps DEF Sound, Handled
    <3>4. Kept(b)
      BY <3>1, <3>2, <3>3 DEF Kept, Safe, StaysOut, Fits, RefreshEnds, NewsComes, CheckEnds, Sound, Handled
    <3>5. QED
      BY <3>2, <3>4, StepKeeps
  <2>3. QED
    BY <2>1, <2>2
<1>3. CASE AuthFails
  BY <1>3, ReportKeeps DEF StaysOut, AuthFails, States, Results
<1>4. CASE AuthUnauthorized
  BY <1>4, ChallengedKeeps, ReportKeeps DEF StaysOut, AuthUnauthorized, Results
<1>5. CASE AuthRedirected
  <2>. DEFINE c == Check(account, TRUE, FALSE)
              d == IF c.validator = "auth" THEN Done(c) ELSE c
              b == Result(d, "NetworkError")
  <2>1. Sound(c) /\ RefreshEnds(c) /\ NewsComes(c) /\ c.state = account.state /\ Fits(c)
    BY CheckKeeps
  <2>2. Step(b)
    BY <1>5 DEF AuthRedirected
  <2>. HIDE DEF c
  <2>3. Sound(d) /\ RefreshEnds(d) /\ NewsComes(d) /\ d.state = account.state /\ Fits(d)
    BY <2>1, DoneKeeps DEF RefreshEnds, NewsComes
  <2>. HIDE DEF d
  <2>4. Kept(b)
    BY <2>3, ResultKeeps DEF Kept, Safe, StaysOut, States, Results
  <2>5. QED
    BY <2>2, <2>4, StepKeeps
<1>6. CASE CapsGoOn
  <2>. DEFINE a == Challenged(account)
              d == Invalid(a)
              c == Check(account, TRUE, FALSE)
  <2>1. Kept(account)
    BY DEF Kept, Safe, StaysOut
  <2>2. Kept(a) /\ Kept(c)
    BY <2>1, ChallengedKeeps, CheckKeeps DEF Kept, Safe, StaysOut
  <2>3. PICK b \in {account, a, d, c} :
          Step([b EXCEPT !.validator = IF @ = "caps" /\ b.blocked > 0 THEN "parked" ELSE @])
    BY <1>6 DEF CapsGoOn
  <2>. HIDE DEF a, c
  <2>4. Kept(d)
    BY <2>2, InvalidKeeps DEF Kept, Safe, StaysOut
  <2>. HIDE DEF d
  <2>5. Kept(b)
    BY <2>1, <2>2, <2>3, <2>4
  <2>6. QED
    BY <2>3, <2>5, ParkedKeeps, StepKeeps
<1>7. CASE CapsReceived
  BY <1>7, ReportKeeps DEF StaysOut, CapsReceived, States, Results
<1>8. QED
  BY <1>1, <1>2, <1>3, <1>4, <1>5, <1>6, <1>7

LEMMA CredentialsKeep ==
  ASSUME IInv, KeychainRead \/ RefreshFinished \/ UserAnswers
  PROVE  IInv' /\ Stays
<1>. USE DEF IInv
<1>1. CASE KeychainRead
  <2>. DEFINE a == [account EXCEPT !.keychain = "read"]
              t == [a EXCEPT !.token = TRUE]
              p(found) == [a EXCEPT !.ready = found]
  <2>1. \/ Step(StartRefresh(t))
        \/ \E found, recent \in BOOLEAN : Step(Fetched(p(found), recent))
    BY <1>1 DEF KeychainRead
  <2>2. Sound(a) /\ CheckEnds(a) /\ a.state = account.state /\ Fits(a)
    <3>1. /\ a \in Handled /\ a.held = account.held /\ a.blocked = account.blocked
          /\ a.req = account.req /\ a.tries = account.tries
          /\ a.state = account.state /\ a.over = account.over /\ a.recheck = account.recheck
          /\ a.validator = account.validator /\ a.waiting = account.waiting /\ a.keychain # "unread"
      BY DEF Sound, Handled
    <3>. HIDE DEF a
    <3>2. Sound(a)
      BY <3>1, EditKeeps DEF Sound
    <3>3. CheckEnds(a) /\ Fits(a)
      BY <3>1 DEF CheckEnds, Checking, Fits
    <3>4. QED
      BY <3>1, <3>2, <3>3
  <2>. HIDE DEF a
  <2>3. CASE Step(StartRefresh(t))
    <3>1. /\ t \in Handled /\ t.held = a.held /\ t.blocked = a.blocked
          /\ t.req = a.req /\ t.tries = a.tries
          /\ t.state = a.state /\ t.over = a.over /\ t.recheck = a.recheck
          /\ t.validator = a.validator /\ t.waiting = a.waiting /\ t.keychain = a.keychain
      BY <2>2 DEF Sound, Handled
    <3>. HIDE DEF t
    <3>2. Sound(t) /\ (CheckEnds(a) => CheckEnds(t)) /\ Fits(t)
      <4>1. Sound(t)
        BY <2>2, <3>1, EditKeeps DEF Sound
      <4>2. (CheckEnds(a) => CheckEnds(t)) /\ Fits(t)
        BY <2>2, <3>1 DEF CheckEnds, Checking, Fits
      <4>3. QED
        BY <4>1, <4>2
    <3>3. Kept(StartRefresh(t))
      BY <2>2, <3>1, <3>2, StartRefreshKeeps DEF Kept, Safe, StaysOut
    <3>4. QED
      BY <2>3, <3>3, StepKeeps
  <2>4. ASSUME NEW found \in BOOLEAN, NEW recent \in BOOLEAN, Step(Fetched(p(found), recent))
        PROVE  IInv' /\ Stays
    <3>1. p(found) \in Handled /\ p(found).state = a.state /\ Fits(p(found))
      BY <2>2 DEF Sound, Handled, Fits
    <3>2. Sound(p(found))
      BY <2>2, <3>1, EditKeeps DEF Sound, Handled
    <3>. HIDE DEF p
    <3>3. Kept(Fetched(p(found), recent))
      BY <2>2, <3>1, <3>2, FetchedKeeps DEF Kept, Safe, StaysOut
    <3>4. QED
      BY <2>4, <3>3, StepKeeps
  <2>5. QED
    BY <2>1, <2>3, <2>4
<1>2. CASE RefreshFinished
  <2>. DEFINE n == account.refreshing - 1
              l == [account EXCEPT !.refreshing = n]
              a == [l EXCEPT !.renewing = FALSE]
              t == [a EXCEPT !.token = TRUE, !.ready = TRUE]
              u == [a EXCEPT !.token = TRUE]
              w == [a EXCEPT !.token = FALSE, !.ready = FALSE]
  <2>1. \/ \E recent \in BOOLEAN : Step(Fetched(t, recent)) \/ Step(Fetched(u, recent))
        \/ /\ a.waiting /\ a.asks = 0 /\ a.refreshing = 0 => Refuses
           /\ Step(Clear(Invalid(w), "Account"))
        \/ Loses /\ Step(l)
    <3>1. PICK answer \in {"token", "network", "refused"} \cup (Troubles \cap {"lost refresh"}),
               recent \in BOOLEAN :
            CASE answer = "token"   -> Step(Fetched(t, recent))
              [] answer = "network" -> Step(Fetched(u, recent))
              [] answer = "refused" ->
                   /\ a.waiting /\ a.asks = 0 /\ a.refreshing = 0 => "refused refresh" \in Troubles
                   /\ Step(Clear(Invalid(w), "Account"))
              [] OTHER -> Step(l)
      BY <1>2 DEF RefreshFinished
    <3>. HIDE DEF a, t, u, w, l
    <3>2. CASE answer = "token"
      BY <3>1, <3>2
    <3>3. CASE answer = "network"
      BY <3>1, <3>3
    <3>4. CASE answer = "refused"
      BY <3>1, <3>4 DEF Refuses
    <3>5. CASE answer = "lost refresh" /\ "lost refresh" \in Troubles
      BY <3>1, <3>5 DEF Loses
    <3>6. QED
      BY <3>2, <3>3, <3>4, <3>5
  <2>2. n \in Nat
    <3>1. account.refreshing \in Nat /\ account.refreshing > 0
      BY <1>2 DEF RefreshFinished, Sound, Handled
    <3>2. QED
      BY <3>1
  <2>. HIDE DEF n
  <2>3. /\ a \in Handled
        /\ a.validator = account.validator /\ a.waiting = account.waiting /\ a.keychain = account.keychain
    <3>1. account \in Handled
      BY DEF Sound
    <3>. HIDE DEF t, u, w
    <3>2. QED
      BY <2>2, <3>1 DEF Handled
  <2>c. Loses => Kept(l)
    <3>1. /\ l \in Handled /\ l.held = account.held /\ l.blocked = account.blocked
          /\ l.req = account.req /\ l.tries = account.tries
          /\ l.state = account.state /\ l.over = account.over /\ l.recheck = account.recheck
          /\ l.validator = account.validator /\ l.waiting = account.waiting /\ l.keychain = account.keychain
      BY <2>2 DEF Sound, Handled
    <3>. HIDE DEF l
    <3>2. Sound(l)
      BY <3>1, EditKeeps DEF Sound
    <3>3. Fits(l) /\ CheckEnds(l)
      BY <3>1 DEF Fits, CheckEnds, Checking
    <3>4. QED
      BY <3>1, <3>2, <3>3 DEF Kept, Safe, StaysOut, RefreshEnds, NewsComes
  <2>4. /\ a.held = account.held /\ a.blocked = account.blocked /\ a.req = account.req /\ a.tries = account.tries
        /\ a.state = account.state /\ a.over = account.over /\ a.recheck = account.recheck
    BY DEF Sound, Handled
  <2>. HIDE DEF l
  <2>. HIDE DEF a
  <2>b. Sound(a) /\ Fits(a)
    BY <2>3, <2>4, EditKeeps DEF Sound, Fits
  <2>5. /\ t \in Handled /\ u \in Handled /\ w \in Handled
        /\ t.state = a.state /\ u.state = a.state /\ w.state = a.state
        /\ Fits(t) /\ Fits(u) /\ Fits(w)
        /\ w.waiting = a.waiting /\ w.asks = a.asks /\ w.refreshing = a.refreshing
    <3>1. t \in Handled /\ t.state = a.state /\ Fits(t)
      BY <2>3, <2>b DEF Handled, Fits
    <3>2. u \in Handled /\ u.state = a.state /\ Fits(u)
      BY <2>3, <2>b DEF Handled, Fits
    <3>3. /\ w \in Handled /\ w.state = a.state /\ Fits(w)
          /\ w.waiting = a.waiting /\ w.asks = a.asks /\ w.refreshing = a.refreshing
      BY <2>3, <2>b DEF Handled, Fits
    <3>4. QED
      BY <3>1, <3>2, <3>3
  <2>6. Sound(t) /\ Sound(u) /\ Sound(w)
    <3>1. Sound(t)
      <4>1. /\ t.held = a.held /\ t.blocked = a.blocked /\ t.req = a.req /\ t.tries = a.tries
            /\ t.state = a.state /\ t.over = a.over /\ t.recheck = a.recheck
            /\ t.validator = a.validator
        BY <2>3 DEF Handled
      <4>. HIDE DEF t
      <4>2. QED
        BY <2>b, <2>5, <4>1, EditKeeps DEF Sound
    <3>2. Sound(u)
      <4>1. /\ u.held = a.held /\ u.blocked = a.blocked /\ u.req = a.req /\ u.tries = a.tries
            /\ u.state = a.state /\ u.over = a.over /\ u.recheck = a.recheck
            /\ u.validator = a.validator
        BY <2>3 DEF Handled
      <4>. HIDE DEF u
      <4>2. QED
        BY <2>b, <2>5, <4>1, EditKeeps DEF Sound
    <3>3. Sound(w)
      <4>1. /\ w.held = a.held /\ w.blocked = a.blocked /\ w.req = a.req /\ w.tries = a.tries
            /\ w.state = a.state /\ w.over = a.over /\ w.recheck = a.recheck
            /\ w.validator = a.validator
        BY <2>3 DEF Handled
      <4>. HIDE DEF w
      <4>2. QED
        BY <2>b, <2>5, <4>1, EditKeeps DEF Sound
    <3>4. QED
      BY <3>1, <3>2, <3>3
  <2>. HIDE DEF t, u, w
  <2>7. ASSUME NEW recent \in BOOLEAN PROVE Kept(Fetched(t, recent)) /\ Kept(Fetched(u, recent))
    BY <2>4, <2>5, <2>6, FetchedKeeps DEF Kept, Safe, StaysOut
  <2>8. ASSUME a.waiting /\ a.asks = 0 /\ a.refreshing = 0 => Refuses
        PROVE  Kept(Clear(Invalid(w), "Account"))
    <3>0. NewsComes(w)
      <4>1. w.asks \in Nat /\ w.refreshing \in Nat
        BY <2>5 DEF Handled
      <4>2. CASE a.waiting /\ ~Refuses
        <5>1. w.asks # 0 \/ w.refreshing # 0
          BY <2>5, <2>8, <4>2
        <5>2. \A k \in Nat : k # 0 => k > 0
          OBVIOUS
        <5>3. w.asks > 0 \/ w.refreshing > 0
          BY <4>1, <5>1, <5>2
        <5>4. QED
          BY <5>3 DEF NewsComes
      <4>3. CASE ~a.waiting \/ Refuses
        BY <2>5, <4>3 DEF NewsComes
      <4>4. QED
        BY <4>2, <4>3
    <3>1. /\ Sound(Invalid(w)) /\ CheckEnds(Invalid(w)) /\ StaysOut(Invalid(w)) /\ NewsComes(Invalid(w))
          /\ Fits(Invalid(w))
      BY <2>4, <2>5, <2>6, <3>0, InvalidKeeps DEF StaysOut
    <3>. DEFINE c == Invalid(w)
                b == Clear(c, "Account")
    <3>. HIDE DEF c
    <3>2. Sound(c) /\ CheckEnds(c) /\ StaysOut(c) /\ NewsComes(c) /\ Fits(c)
      BY <3>1 DEF c
    <3>3. Sound(b) /\ Apart(c, b) /\ b.held = c.held \ {"Account"}
      BY <3>2, ClearKeeps DEF Sound, Guards
    <3>. HIDE DEF b
    <3>4. CheckEnds(b) /\ Fits(b)
      BY <3>2, <3>3, ApartEnds, ApartFits
    <3>5. RefreshEnds(b) /\ NewsComes(b) /\ StaysOut(b)
      BY <3>2, <3>3 DEF StaysOut, RefreshEnds, NewsComes, Apart
    <3>6. QED
      BY <3>3, <3>4, <3>5 DEF Kept, Safe, b, c
  <2>9. QED
    BY <2>1, <2>c, <2>7, <2>8, StepKeeps
<1>3. CASE UserAnswers
  <2>. DEFINE n == account.asks - 1
              a == [account EXCEPT !.asks = n]
              p(token) == [a EXCEPT !.token = token, !.ready = TRUE]
  <2>1. PICK recent \in BOOLEAN : \/ \E token \in BOOLEAN : Step(Asked(p(token), recent))
                                 \/ Step(Asked(a, recent))
    BY <1>3 DEF UserAnswers
  <2>2. n \in Nat
    <3>1. account.asks \in Nat /\ account.asks > 0
      BY <1>3 DEF UserAnswers, Sound, Handled
    <3>2. QED
      BY <3>1
  <2>. HIDE DEF n
  <2>3. /\ a \in Handled /\ a.held = account.held /\ a.refreshing = account.refreshing
        /\ a.state = account.state
    BY <2>2 DEF Sound, Handled
  <2>4. Sound(a) /\ RefreshEnds(a) /\ Fits(a)
    BY <2>3, EditKeeps DEF Sound, Handled, RefreshEnds, Fits
  <2>. HIDE DEF a
  <2>5. CASE Step(Asked(a, recent))
    <3>1. Kept(Asked(a, recent))
      BY <2>3, <2>4, AskedKeeps DEF Kept, Safe, StaysOut
    <3>2. QED
      BY <2>5, <3>1, StepKeeps
  <2>6. ASSUME NEW token \in BOOLEAN, Step(Asked(p(token), recent)) PROVE IInv' /\ Stays
    <3>1. p(token) \in Handled /\ p(token).state = a.state
      BY <2>3 DEF Handled
    <3>a. (RefreshEnds(a) => RefreshEnds(p(token))) /\ (Fits(a) => Fits(p(token)))
      BY <2>3 DEF Handled, RefreshEnds, Fits
    <3>2. Sound(p(token))
      <4>1. /\ p(token).held = a.held /\ p(token).blocked = a.blocked /\ p(token).req = a.req /\ p(token).tries = a.tries
            /\ p(token).state = a.state /\ p(token).over = a.over /\ p(token).recheck = a.recheck
            /\ p(token).validator = a.validator
        BY <2>3 DEF Handled
      <4>. HIDE DEF p
      <4>2. QED
        BY <2>4, <3>1, <4>1, EditKeeps DEF Sound
    <3>. HIDE DEF p
    <3>3. Kept(Asked(p(token), recent))
      BY <2>3, <2>4, <3>1, <3>a, <3>2, AskedKeeps DEF Kept, Safe, StaysOut
    <3>4. QED
      BY <2>6, <3>3, StepKeeps
  <2>7. QED
    BY <2>1, <2>5, <2>6
<1>4. QED
  BY <1>1, <1>2, <1>3

LEMMA JobsKeep ==
  ASSUME IInv, NEW r \in Requests,
         SendRequest(r) \/ Answered(r) \/ Unauthorized(r) \/ Redirected(r)
  PROVE  IInv' /\ Stays
<1>. USE DEF IInv
<1>0. Kept(account)
  BY DEF Kept, Safe, StaysOut
<1>1. CASE SendRequest(r)
  <2>. DEFINE v == IF account.blocked > 0 THEN "waiting" ELSE "sent"
              b == [account EXCEPT !.req[r] = v]
  <2>1. Step(b)
    BY <1>1 DEF SendRequest
  <2>2. v \in {"waiting", "sent"} /\ account.req[r] = "idle"
    BY <1>1 DEF SendRequest
  <2>. HIDE DEF v
  <2>3. b \in Handled /\ Apart(account, b) /\ b.tries = account.tries
    BY <2>2 DEF Sound, Handled, Apart
  <2>4. /\ Unsent(b) \subseteq Unsent(account) \cup {r}
        /\ b.held = account.held /\ b.blocked = account.blocked /\ b.validator = account.validator
    BY DEF Sound, Handled, Unsent
  <2>5. account.tries[r] < MaxRetryCount
    BY <2>2 DEF Sound, Unsent
  <2>. HIDE DEF b
  <2>a. Sound(b)
    BY <2>3, <2>4, <2>5 DEF Sound, Apart
  <2>b. CheckEnds(b) /\ Fits(b)
    BY <2>3, <2>4, ApartEnds, ApartFits
  <2>6. Kept(b)
    BY <2>3, <2>4, <2>a, <2>b DEF Kept, Safe, StaysOut, Apart, RefreshEnds, NewsComes
  <2>7. QED
    BY <2>1, <2>6, StepKeeps
<1>2. CASE Answered(r)
  <2>1. Kept(Deleted(account, r))
    BY DeletedKeeps DEF Kept, Safe, StaysOut
  <2>2. QED
    BY <1>2, <2>1, StepKeeps DEF Answered
<1>3. CASE Unauthorized(r)
  <2>. DEFINE a == Challenged(account)
  <2>1. Kept(a)
    BY <1>0, ChallengedKeeps DEF Kept, Safe, StaysOut
  <2>2. IF MayRetry(a, r) THEN Step(Retry(a, r)) ELSE Step(Deleted(Invalid(a), r))
    BY <1>3 DEF Unauthorized
  <2>. HIDE DEF a
  <2>3. CASE MayRetry(a, r)
    BY <2>1, <2>2, <2>3, RetryKeeps, StepKeeps DEF Kept, Safe, StaysOut
  <2>4. CASE ~MayRetry(a, r)
    <3>1. Kept(Invalid(a))
      BY <2>1, InvalidKeeps DEF Kept, Safe, StaysOut
    <3>2. Kept(Deleted(Invalid(a), r))
      BY <3>1, DeletedKeeps DEF Kept, Safe, StaysOut
    <3>3. QED
      BY <2>2, <2>4, <3>2, StepKeeps
  <2>5. QED
    BY <2>3, <2>4
<1>4. CASE Redirected(r)
  <2>. DEFINE a == Check(account, TRUE, FALSE)
  <2>1. Kept(a)
    BY <1>0, CheckKeeps DEF Kept, Safe, StaysOut
  <2>2. IF MayRetry(a, r) THEN Step(Retry(a, r)) ELSE Step(Deleted(a, r))
    BY <1>4 DEF Redirected
  <2>. HIDE DEF a
  <2>3. CASE MayRetry(a, r)
    BY <2>1, <2>2, <2>3, RetryKeeps, StepKeeps DEF Kept, Safe, StaysOut
  <2>4. CASE ~MayRetry(a, r)
    <3>1. Kept(Deleted(a, r))
      BY <2>1, DeletedKeeps DEF Kept, Safe, StaysOut
    <3>2. QED
      BY <2>2, <2>4, <3>1, StepKeeps
  <2>5. QED
    BY <2>3, <2>4
<1>5. QED
  BY <1>1, <1>2, <1>3, <1>4

LEMMA TimesOutKeeps ==
  ASSUME IInv, TimesOut
  PROVE  IInv' /\ Stays
<1>. USE DEF IInv
<1>1. CASE \E r \in Requests : Step(Deleted(account, r))
  <2>1. PICK r \in Requests : Step(Deleted(account, r))
    BY <1>1
  <2>2. Kept(Deleted(account, r))
    BY DeletedKeeps DEF Kept, Safe, StaysOut
  <2>3. QED
    BY <2>1, <2>2, StepKeeps
<1>2. CASE account.validator = "parked" /\ Step([account EXCEPT !.validator = "lost"])
  <2>. DEFINE b == [account EXCEPT !.validator = "lost"]
  <2>1. /\ b \in Handled /\ b.held = account.held /\ b.state = account.state
        /\ b.recheck = account.recheck /\ b.waiting = account.waiting
        /\ b.keychain = account.keychain /\ b.refreshing = account.refreshing /\ b.asks = account.asks
        /\ b.validator = "lost"
    BY DEF Sound, Handled
  <2>2. Sound(b)
    BY <2>1, EditKeeps DEF Sound, Handled
  <2>. HIDE DEF b
  <2>3. Fits(b)
    BY <1>2, <2>1 DEF Fits
  <2>4. CheckEnds(b)
    BY <2>1, <2>3 DEF CheckEnds, Fits
  <2>5. Kept(b)
    BY <2>1, <2>2, <2>3, <2>4 DEF Kept, Safe, StaysOut, RefreshEnds, NewsComes
  <2>6. QED
    BY <1>2, <2>5, StepKeeps DEF b
<1>3. QED
  BY <1>1, <1>2 DEF TimesOut

-----------------------------------------------------------------------------
(* The theorems. *)

\* The invariant holds of every account.
THEOREM Inductive == Spec => []IInv
<1>1. Init => IInv
  BY InitKeeps
<1>2. IInv /\ [Next]_account => IInv'
  <2>1. CASE Next
    BY <2>1, TimersKeep, UserKeeps, SignInKeeps, ValidatorKeeps, CredentialsKeep, JobsKeep,
       TimesOutKeeps DEF Next
  <2>2. CASE UNCHANGED account
    BY <2>2 DEF IInv, Sound, TypeOK, Fits, RefreshEnds, NewsComes, CheckEnds, Checking, Unsent
  <2>3. QED
    BY <2>1, <2>2
<1>3. QED
  BY <1>1, <1>2, PTL DEF Spec

\* Every account has its type: no job is sent more often than it may be.
THEOREM Typing == Spec => []TypeOK
<1>1. IInv => TypeOK
  BY DEF IInv
<1>2. QED
  BY <1>1, Inductive, PTL

\* JobQueue::_blocked counts no more holds than there are guards that hold the queue, so that it can
\* always come down to zero.
THEOREM QueueIsHeld == Spec => []BlockedIsHeld
<1>1. IInv => BlockedIsHeld
  BY DEF IInv, Sound, BlockedIsHeld
<1>2. QED
  BY <1>1, Inductive, PTL

\* Whoever holds the queue is about to let it go: a refresh, if none gets lost, and a check that waits
\* for a reply of the server, if none waits for the very queue that it holds.
THEOREM HoldsEnd ==
  ASSUME "parked check" \notin Troubles, "lost refresh" \notin Troubles
  PROVE  Spec => []HoldIsEnded
<1>1. ~Parks /\ ~Loses
  BY DEF Parks, Loses
<1>2. IInv => HoldIsEnded
  BY <1>1 DEF IInv, RefreshEnds, CheckEnds, HoldIsEnded
<1>3. QED
  BY <1>2, Inductive, PTL

\* Whoever has signed out stays so until he signs in.
THEOREM SignedOutIsKept == Spec => SignedOutStays
<1>1. IInv /\ [Next]_account =>
        [account.state = "SignedOut" /\ account'.state # "SignedOut" => SignIn]_account
  BY TimersKeep, UserKeeps, ValidatorKeeps, CredentialsKeep, JobsKeep, TimesOutKeeps
     DEF Next, Stays
<1>2. QED
  BY <1>1, Inductive, PTL DEF Spec, SignedOutStays

\* Who waits for credentials, or asks the user for them, is going to hear of them: he is asked, or a
\* refresh or a check is under way that will have a reply.  A check whose job waits in the queue waits
\* for the refresh that holds it; one whose job was thrown out of it has no such promise.
THEOREM AskingIsAnswered ==
  ASSUME "refused refresh" \notin Troubles, "lost refresh" \notin Troubles,
         "parked check" \notin Troubles
  PROVE  Spec => []AskingGoesOn
<1>1. ~Parks /\ ~Loses /\ ~Refuses
  BY DEF Parks, Loses, Refuses
<1>2. ASSUME IInv, account.validator = "parked" PROVE account.refreshing > 0
  <2>1. "AccountState" \notin account.held
    BY <1>1, <1>2 DEF IInv, Fits
  <2>2. /\ account.blocked > 0 /\ account.blocked \in Nat /\ account.held \in SUBSET Guards
        /\ account.blocked <= Cardinality(account.held)
    BY <1>2 DEF IInv, Sound, Handled
  <2>3. "Account" \in account.held
    BY <2>1, <2>2, SomeoneHolds
  <2>4. QED
    BY <1>1, <1>2, <2>3 DEF IInv, RefreshEnds
<1>3. ASSUME IInv PROVE AskingGoesOn
  <2>1. account.waiting => account.keychain = "reading" \/ account.refreshing > 0 \/ account.asks > 0
    BY <1>1, <1>3 DEF IInv, NewsComes
  <2>2. account.validator \in {"none", "status", "auth", "caps", "parked", "lost"}
    BY <1>3 DEF IInv, Sound, Handled
  <2>3. account.state = "AskingCredentials" =>
          account.validator # "none" \/ account.waiting \/ account.recheck
    BY <1>3 DEF IInv, CheckEnds
  <2>4. account.validator = "parked" => account.refreshing > 0
    BY <1>2, <1>3
  <2>5. QED
    BY <2>1, <2>2, <2>3, <2>4 DEF AskingGoesOn, AskingIsAsked, Checking
<1>4. QED
  BY <1>3, Inductive, PTL
=============================================================================
