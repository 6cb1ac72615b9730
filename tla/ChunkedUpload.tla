----------------------------- MODULE ChunkedUpload -----------------------------
(***************************************************************************)
(* One large file and its upload in chunks (PropagateUploadFileNG): an     *)
(* upload directory on the server that is named by a transfer id, chunks   *)
(* named by their offset, and a MOVE that makes the file of them.  The     *)
(* journal keeps the id, so that a later run resumes what is there.        *)
(*                                                                         *)
(* A version of the file stands for its time and size, as the client sees  *)
(* it, and for its content and checksum.  Only this client changes the     *)
(* file.  The server (external) puts the chunks together in the order of   *)
(* their names and compares the total with the OC-Total-Length, and, if it *)
(* knows checksums, the content with the OC-Checksum.                      *)
(***************************************************************************)
EXTENDS Integers, Sequences, FiniteSets, FiniteSetsExt

CONSTANTS
  None,        \* no upload in the journal
  Sizes,       \* the size of each version of the file
  ChunkSizes,  \* sizes the dynamic chunk size may take
  ErrorLimit,  \* errors of one transfer after which it is given up (3 in the code)
  MaxFaults,   \* bound: errors, lost replies and crashes
  LateRuns     \* bound: whether the requests of several runs may be late at a time

ASSUME UploadAssumption ==
  /\ Sizes \in Seq(Nat \ {0}) /\ Sizes # <<>>
  /\ ChunkSizes \subseteq Nat \ {0} /\ ChunkSizes # {}
  /\ ErrorLimit \in Nat /\ MaxFaults \in Nat /\ LateRuns \in BOOLEAN
  /\ None \notin [id : Nat, ver : Nat, errors : Nat]

Versions == DOMAIN Sizes
Size(v)  == IF v = 0 THEN 0 ELSE Sizes[v]

VARIABLES
  file,       \* the version on the disk
  latest,     \* the newest version there ever was
  synced,     \* the journal's record of the file: its version (0: no record) ...
  dbEtag,     \* ... and the etag
  info,       \* SyncJournalDb::UploadInfo, or None
  checksums,  \* the server knows checksums
  remote,     \* the file on the server: its version by time and checksum, content and etag
  dirs,       \* upload directories on the server
  chunks,     \* the chunks in them
  late,       \* requests of a client that has given up on them
  nextId,     \* fresh transfer ids
  job,        \* PropagateUploadFileNG
  found,      \* what the last discovery has found besides: "conflict", or a "newer" file to download
  faults      \* bounds the faults

serverVars == <<checksums, remote, dirs, chunks, late>>
vars == <<file, latest, synced, dbEtag, info, serverVars, nextId, job, found, faults>>

Phases == {"idle", "listing", "deleting", "mkcol", "ready", "putting", "moving"}
NoChunk == [start |-> 0, size |-> 0, len |-> 0, ver |-> 0]
Idle    == [phase |-> "idle", item |-> 0, base |-> 0, id |-> 0, next |-> 0, sent |-> 0,
            chunk |-> NoChunk, toDelete |-> {}, removeError |-> FALSE]

TypeOK ==
  /\ {file, latest} \subseteq Versions /\ synced \in Versions \cup {0} /\ dbEtag \in 0 .. remote.etag
  /\ info = None \/ (info.id \in 1 .. nextId - 1 /\ info.ver \in Versions /\ info.errors \in 0 .. ErrorLimit)
  /\ remote.ver \in Versions \cup {0} /\ remote.content \in Seq(Versions \X Nat)
  /\ dirs \subseteq 1 .. nextId - 1 /\ nextId \in Nat \ {0}
  /\ \A c, d \in chunks : c.id \in dirs /\ (c.id = d.id /\ c.start = d.start => c = d)
  /\ job.phase \in Phases /\ job.item \in Versions \cup {0}
  /\ job.next \in 0 .. Size(job.item) /\ job.sent \in 0 .. Size(job.item)
  /\ {checksums, job.removeError} \subseteq BOOLEAN /\ found \in {"nothing", "conflict", "newer"}
  /\ faults \in 0 .. MaxFaults

-----------------------------------------------------------------------------
(* The server. *)

ChunksOf(id) == {c \in chunks : c.id = id}

\* The bytes in a set of chunks, each with its place in the file, in the order of the chunks' names.
BytesOf(c)   == [start : {c.start}, pos : c.start + 1 .. c.start + c.len, ver : {c.ver}]
Stored(K)    == UNION {BytesOf(c) : c \in K}
Before(a, b) == a.start < b.start \/ (a.start = b.start /\ a.pos < b.pos)
Rank(B, b)   == Cardinality({a \in B : Before(a, b)})
InOrder(B)   == [k \in 1 .. Cardinality(B) |-> CHOOSE b \in B : Rank(B, b) = k - 1]

Whole(v)    == [i \in 1 .. Size(v) |-> <<v, i>>]
Assembled(id) ==
  LET B == Stored(ChunksOf(id))
  IN [k \in 1 .. Cardinality(B) |-> <<InOrder(B)[k].ver, InOrder(B)[k].pos>>]

\* What requests for chunks do: a chunk is written over the one of its name, or removed.
PutRequest(id, start, len, ver) ==
  [op |-> "PUT", id |-> id, start |-> start, len |-> len, ver |-> ver]
DeleteRequest(id, start) == [op |-> "DELETE", id |-> id, start |-> start]
Written(R) == {[id |-> r.id, start |-> r.start, len |-> r.len, ver |-> r.ver] :
                r \in {p \in R : p.op = "PUT" /\ p.id \in dirs}}
Handled(R) == {c \in chunks : \A r \in R : c.id # r.id \/ c.start # r.start} \cup Written(R)

Accepts ==
  /\ job.id \in dirs
  /\ remote.etag = job.base
  /\ Len(Assembled(job.id)) = Size(job.item)
  /\ checksums => Assembled(job.id) = Whole(job.item)

ServerMoves ==
  /\ remote' = [ver |-> job.item, content |-> Assembled(job.id), etag |-> remote.etag + 1]
  /\ dirs' = dirs \ {job.id}
  /\ chunks' = {c \in chunks : c.id # job.id}

\* A request that the client no longer waits for is handled all the same, or lost.
LateRequest(r) ==
  /\ late' = late \ {r}
  /\ chunks' \in {chunks, Handled({r})}
  /\ UNCHANGED <<file, latest, synced, dbEtag, info, checksums, remote, dirs, nextId, job, found, faults>>

-----------------------------------------------------------------------------
Init ==
  /\ file = 1 /\ latest = 1
  /\ synced = 0 /\ dbEtag = 0 /\ info = None
  /\ checksums \in BOOLEAN
  /\ remote = [ver |-> 0, content |-> <<>>, etag |-> 0]
  /\ dirs = {} /\ chunks = {} /\ late = {} /\ nextId = 1
  /\ job = Idle
  /\ found = "nothing" /\ faults = 0

\* The user saves the file.
Edit ==
  /\ latest < Len(Sizes)
  /\ latest' = latest + 1 /\ file' = latest + 1
  /\ UNCHANGED <<synced, dbEtag, info, serverVars, nextId, job, found, faults>>

\* An old version comes back, with its old time.  Without checksums nobody could tell.
Restore ==
  /\ checksums /\ faults < MaxFaults
  /\ \E v \in 1 .. latest : v # file /\ file' = v
  /\ faults' = faults + 1
  /\ UNCHANGED <<latest, synced, dbEtag, info, serverVars, nextId, job, found>>

Fault == faults < MaxFaults /\ faults' = faults + 1

\* What the client still waits for when it gives up, or is gone.  If requests of an earlier run are
\* late already, and no more than one run's may be, these are handled or lost at once.
Outstanding ==
  CASE job.phase = "putting" ->
         {PutRequest(job.id, job.chunk.start, job.chunk.len, job.chunk.ver)}
    [] job.phase = "deleting" -> {DeleteRequest(job.id, c) : c \in job.toDelete}
    [] OTHER -> {}
GiveUp ==
  /\ job' = Idle
  /\ \/ /\ late = {} \/ LateRuns
        /\ late' = late \cup Outstanding
        /\ UNCHANGED chunks
     \/ /\ late # {} /\ ~LateRuns
        /\ \E R \in SUBSET Outstanding : chunks' = Handled(R)
        /\ UNCHANGED late

-----------------------------------------------------------------------------
(* Discovery, as far as it decides about the file and its upload. *)

\* deleteStaleUploadInfos: the file is not uploaded in this run.  Nobody waits for the DELETE.
StaleDeleted ==
  \E gone \in {{}, IF info = None THEN {} ELSE {info.id}} :
    dirs' = dirs \ gone /\ chunks' = {c \in chunks : c.id \notin gone}

ForgetUpload ==
  /\ job.phase = "idle" /\ found = "nothing" /\ remote.etag = dbEtag /\ file = synced /\ info # None
  /\ info' = None
  /\ StaleDeleted
  /\ UNCHANGED <<file, latest, synced, dbEtag, checksums, remote, late, nextId, job, found, faults>>

\* processFileConflict: the server's file is an upload of ours whose reply was lost.
\* Slip: the time and size are compared instead of the checksum.
SameFile == info # None /\ info.ver = file
OwnUpload == info # None /\ info.ver = remote.ver

Same == remote.ver = file

\* The file has changed on both sides.
Discover ==
  /\ job.phase = "idle" /\ found = "nothing" /\ remote.etag # dbEtag /\ file # synced
  /\ \/ /\ (checksums /\ OwnUpload) \/ Same
        /\ synced' = remote.ver /\ dbEtag' = remote.etag
        /\ UNCHANGED found
     \/ /\ ~(checksums /\ OwnUpload) /\ ~Same
        /\ found' = "conflict"
        /\ UNCHANGED <<synced, dbEtag>>
  /\ UNCHANGED <<file, latest, info, serverVars, nextId, job, faults>>

\* The file is as the journal has it, and another one on the server: whoever sent that, it is downloaded.
FindNewer ==
  /\ job.phase = "idle" /\ found = "nothing" /\ remote.etag # dbEtag /\ file = synced
  /\ found' = "newer"
  /\ info' = None
  /\ StaleDeleted
  /\ UNCHANGED <<file, latest, synced, dbEtag, checksums, remote, late, nextId, job, faults>>

\* PropagateDownloadFile: its end, where it looks once more whether the file has changed, or an error
\* or the end of the client, as often as you like.
Downloaded ==
  /\ found = "newer" /\ file = synced
  /\ file' = remote.ver /\ synced' = remote.ver /\ dbEtag' = remote.etag
  /\ found' = "nothing"
  /\ UNCHANGED <<latest, info, serverVars, nextId, job, faults>>
DownloadFails ==
  /\ found = "newer"
  /\ found' = "nothing"
  /\ UNCHANGED <<file, latest, synced, dbEtag, info, serverVars, nextId, job, faults>>

-----------------------------------------------------------------------------
(* The upload. *)

\* startNewUpload, with j the job so far: its ranges stay what they are.
StartNewUpload(j) ==
  /\ job' = [j EXCEPT !.phase = "mkcol", !.id = nextId, !.sent = 0, !.toDelete = {}, !.removeError = FALSE]
  /\ info' = [id |-> nextId, ver |-> j.item, errors |-> 0]
  /\ nextId' = nextId + 1

\* doStartUpload and doStartUploadNext.
\* Slip: what is there is resumed, of whatever version.
AnyInfo == info # None
Resumable == info # None /\ info.ver = file
StartUpload ==
  /\ job.phase = "idle" /\ found = "nothing" /\ remote.etag = dbEtag /\ file # synced
  /\ LET j == [Idle EXCEPT !.item = file, !.base = remote.etag] IN
     \/ /\ Resumable
        /\ job' = [j EXCEPT !.phase = "listing", !.id = info.id]
        /\ UNCHANGED <<info, nextId, dirs, chunks>>
     \/ /\ ~Resumable
        /\ StartNewUpload(j)
        /\ StaleDeleted
  /\ UNCHANGED <<file, latest, synced, dbEtag, checksums, remote, late, found, faults>>

\* slotPropfindFinished: markRangeAsDone for each chunk in the order of the offsets keeps those that
\* follow one another from the start of the file.  What remains to upload is one range, up to its end.
Covers(c, p) == c.start < p /\ p <= c.start + c.len
IsRow(K, n) ==
  /\ \A c \in K : c.start + c.len <= n /\ (c.len = 0 => c.start = n)
  /\ \A p \in 1 .. n : \E c \in K : Covers(c, p) /\ \A d \in K : Covers(d, p) => d = c
Fits(c, n, size) == c.start = n /\ n < size /\ c.len <= size - n
Reuses(C, size, K, n) ==
  /\ IsRow(K, n)
  /\ n = size => \A c \in K : c.len # 0
  /\ \A c \in C \ K : ~Fits(c, n, size)
Listed ==
  /\ job.phase = "listing" /\ job.id \in dirs
  /\ \E K \in SUBSET ChunksOf(job.id), n \in 0 .. Size(job.item) :
       LET rest == {c.start : c \in ChunksOf(job.id) \ K}
       IN /\ Reuses(ChunksOf(job.id), Size(job.item), K, n)
          /\ job' = [job EXCEPT !.next = n, !.sent = n, !.toDelete = rest,
                                !.phase = IF rest = {} THEN "ready" ELSE "deleting"]
  /\ UNCHANGED <<file, latest, synced, dbEtag, info, serverVars, nextId, found, faults>>

\* slotPropfindFinishedWithError: there is no directory, or another error.
ListingFails ==
  /\ job.phase = "listing"
  /\ (job.id \notin dirs /\ UNCHANGED faults) \/ Fault
  /\ StartNewUpload(job)
  /\ UNCHANGED <<file, latest, synced, dbEtag, serverVars, found>>

\* slotDeleteJobFinished: a chunk that does not fit is deleted ...
Deleted(c) ==
  /\ job.phase = "deleting" /\ c \in job.toDelete
  /\ chunks' = Handled({DeleteRequest(job.id, c)})
  /\ IF job.toDelete # {c}
       THEN /\ job' = [job EXCEPT !.toDelete = @ \ {c}]
            /\ UNCHANGED <<info, nextId>>
       ELSE IF job.removeError
         THEN StartNewUpload(job)
         ELSE /\ job' = [job EXCEPT !.toDelete = {}, !.phase = "ready"]
              /\ UNCHANGED <<info, nextId>>
  /\ UNCHANGED <<file, latest, synced, dbEtag, checksums, remote, dirs, late, found, faults>>

\* ... or cannot be, and after the last one "just start over".
DeleteFails(c) ==
  /\ job.phase = "deleting" /\ c \in job.toDelete
  /\ Fault
  /\ IF job.toDelete # {c}
       THEN /\ job' = [job EXCEPT !.toDelete = @ \ {c}, !.removeError = TRUE]
            /\ UNCHANGED <<info, nextId>>
       ELSE StartNewUpload(job)
  /\ UNCHANGED <<file, latest, synced, dbEtag, serverVars, found>>

\* slotMkColFinished.
MkColFinished ==
  /\ job.phase = "mkcol"
  /\ dirs' = dirs \cup {job.id}
  /\ job' = [job EXCEPT !.phase = "ready"]
  /\ UNCHANGED <<file, latest, synced, dbEtag, info, checksums, remote, chunks, late, nextId, found, faults>>

\* startNextChunk.  A device that was opened on a file that has shrunk reads less.
\* Slip: the last chunk is not cut.
FullChunk(s) == s
ChunkSize(s) == Min({s, Size(job.item) - job.next})
StartNextChunk ==
  /\ job.phase = "ready" /\ job.next < Size(job.item)
  /\ \E s \in ChunkSizes :
       job' = [job EXCEPT !.phase = "putting",
                 !.chunk = [start |-> job.next, size |-> ChunkSize(s), ver |-> file,
                            len |-> Max({0, Min({ChunkSize(s), Size(file) - job.next})})]]
  /\ UNCHANGED <<file, latest, synced, dbEtag, info, serverVars, nextId, found, faults>>

\* slotPutFinished.  The file may have changed while it was read; if it is shorter than the request
\* has announced by now, the request fails.
ReadInFull(c) == Size(file) >= c.start + c.len
PutFinished ==
  /\ job.phase = "putting" /\ (job.chunk.ver # file => ReadInFull(job.chunk))
  /\ \E ver \in {job.chunk.ver, file} :
       chunks' = Handled({PutRequest(job.id, job.chunk.start, job.chunk.len, ver)})
  /\ LET j == [job EXCEPT !.phase = "ready", !.next = @ + job.chunk.size,
                          !.sent = @ + job.chunk.size, !.chunk = NoChunk]
         finished == j.sent = Size(j.item)
     IN IF finished
          THEN job' = j /\ UNCHANGED info
          ELSE IF file # j.item
            THEN job' = Idle /\ UNCHANGED info
            ELSE job' = j /\ info' = IF info = None THEN info ELSE [info EXCEPT !.errors = 0]
  /\ UNCHANGED <<file, latest, synced, dbEtag, checksums, remote, dirs, late, nextId, found, faults>>

\* checkResettingErrors.
\* Slip: the error is not counted.
NotCounted == info
AfterError ==
  IF info = None \/ info.errors = ErrorLimit THEN None ELSE [info EXCEPT !.errors = @ + 1]

PutFails ==
  /\ job.phase = "putting"
  /\ Fault \/ (job.chunk.ver # file /\ ~ReadInFull(job.chunk) /\ UNCHANGED faults)
  /\ info' \in {info, AfterError}
  /\ GiveUp
  /\ UNCHANGED <<file, latest, synced, dbEtag, checksums, remote, dirs, nextId, found>>

\* doFinalMove.
DoFinalMove ==
  /\ job.phase = "ready" /\ job.next = Size(job.item)
  /\ job' = [job EXCEPT !.phase = "moving"]
  /\ UNCHANGED <<file, latest, synced, dbEtag, info, serverVars, nextId, found, faults>>

\* slotMoveJobFinished and finalize.
MoveFinished ==
  /\ job.phase = "moving" /\ Accepts
  /\ ServerMoves
  /\ synced' = job.item /\ dbEtag' = remote'.etag
  /\ info' = None
  /\ job' = Idle
  /\ UNCHANGED <<file, latest, checksums, late, nextId, found, faults>>

\* The server refuses, with a code for which it wants chunked uploads to be reset.
MoveRefused ==
  /\ job.phase = "moving" /\ ~Accepts
  /\ info' = AfterError
  /\ GiveUp
  /\ UNCHANGED <<file, latest, synced, dbEtag, checksums, remote, dirs, nextId, found, faults>>

\* The file is there, and the client does not get to know.
MoveReplyLost ==
  /\ job.phase = "moving" /\ Accepts /\ Fault
  /\ ServerMoves
  /\ job' = Idle
  /\ UNCHANGED <<file, latest, synced, dbEtag, info, checksums, late, nextId, found>>

\* A fatal error, an abort, or the end of the client, at any moment of the upload.
Break ==
  /\ job.phase # "idle" /\ Fault
  /\ GiveUp
  /\ dirs' \in {dirs, IF job.phase = "mkcol" THEN dirs \cup {job.id} ELSE dirs}
  /\ UNCHANGED <<file, latest, synced, dbEtag, info, checksums, remote, nextId, found>>

Next ==
  \/ Edit \/ Restore
  \/ ForgetUpload \/ Discover \/ FindNewer \/ Downloaded \/ DownloadFails
  \/ StartUpload
  \/ Listed \/ ListingFails \/ MkColFinished
  \/ \E c \in job.toDelete : Deleted(c) \/ DeleteFails(c)
  \/ StartNextChunk \/ PutFinished \/ PutFails
  \/ DoFinalMove \/ MoveFinished \/ MoveRefused \/ MoveReplyLost
  \/ Break
  \/ \E r \in late : LateRequest(r)

Spec == Init /\ [][Next]_vars

\* Runs are started again and again, and the requests of the upload are answered.
FairSpec ==
  /\ Spec
  /\ WF_vars(ForgetUpload \/ Discover \/ FindNewer \/ StartUpload)
  /\ WF_vars(Downloaded \/ DownloadFails)
  /\ WF_vars(Listed \/ ListingFails \/ MkColFinished \/ \E c \in job.toDelete : Deleted(c))
  /\ WF_vars(StartNextChunk \/ PutFinished \/ PutFails)
  /\ WF_vars(DoFinalMove \/ MoveFinished \/ MoveRefused)

-----------------------------------------------------------------------------
(* Properties. *)

\* When the client takes its file for synchronised, the server has it: each byte once, in order and
\* of one version, whatever was resumed, re-cut, changed or handled late.  With checksums the server
\* sees to it; without them it is up to the chunks, the ids and the total length.
BelievedIsStored ==
  synced = file /\ remote.etag = dbEtag => remote.content = Whole(file)

\* Nothing is asked to be put together before all of it was sent to that directory: "There should
\* not be holes or extra files" (test/testutils/syncenginetestutils.cpp).
MoveIsComplete == job.phase = "moving" => job.sent = Size(job.item)

\* An upload that was completed, but whose reply was lost, is not taken for somebody else's change
\* of the file, also if the file has been changed since (issue #5106).  The client remembers the
\* upload until then, unless a run finds the file back in the state of the journal; whoever changes
\* it after that run may see a conflict.
OwnUploadIsNoConflict ==
  [][checksums =>
       /\ found' = "conflict" => found = "conflict" \/ info = None
       /\ remote.etag # dbEtag /\ info # None /\ info' = None => file = synced]_vars

\* Each version that stays is uploaded, unless there is a conflict, or the user has gone back to the
\* version of the journal while the server has a later upload that the client does not know of.
ChangesArrive ==
  \A v \in Versions :
    file = v ~> (file = v /\ synced = v /\ remote.etag = dbEtag) \/ file # v \/ found # "nothing"

\* What the user has brought back is not replaced by what this client has uploaded in the meantime.
BroughtBackStays == [][Downloaded => file' = file]_vars

=============================================================================
