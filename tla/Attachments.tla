---------------------------- MODULE Attachments ----------------------------
(***************************************************************************)
(* Attachments of group messages: uploads with quota reservations          *)
(* (attachments/storage), the message that carries them                    *)
(* (groups.SendWithAttachments), the minute-by-minute cleanup pass         *)
(* (attachments/cleanup) and delete-all requests (attachments/account).    *)
(*                                                                         *)
(* A file lives in two places, the storage directory and a row of the      *)
(* attachments table, which no transaction covers together.  A message is  *)
(* identified with the set of files it was sent with.  Bytes are counted   *)
(* in abstract units.                                                      *)
(***************************************************************************)
EXTENDS Integers, FiniteSets, FiniteSetsExt

CONSTANTS
    Users,          \* accounts, all registered at time 0
    Files,          \* attachment ids; a random id is drawn once
    Uploads,        \* multipart requests in flight at the same time
    Kinds,          \* kinds of files uploaded: a subset of AllKinds
    Schedulers,     \* users who ask for delete-all
    MaxArchive,     \* ATTACHMENT_MAX_ARCHIVE_BYTES
    MaxOutputMedia, \* ATTACHMENT_MAX_OUTPUT_MEDIA_BYTES
    MaxInputMedia,  \* ATTACHMENT_MAX_INPUT_MEDIA_BYTES
    MaxFiles,       \* ATTACHMENT_MAX_FILES_PER_MESSAGE
    UserQuota,      \* ATTACHMENT_MAX_USER_STORED_BYTES
    NewQuota,       \* 20 MB, stored and per day, of an account younger than NewGrace
    TotalQuota,     \* ATTACHMENT_MAX_TOTAL_BYTES
    NewGrace,       \* NewAccountGracePeriod, also the window of the daily sum
    Retention,      \* ATTACHMENT_RETENTION
    DeleteGrace,    \* deleteGracePeriod
    MaxTime,        \* bound on the clock
    MaxRestarts     \* bound on crashes

AllKinds == {"archive", "image", "video", "audio", "file"}

ASSUME AttachmentsAssumption ==
    /\ Users # {} /\ IsFiniteSet(Files) /\ IsFiniteSet(Uploads)
    /\ Kinds \subseteq AllKinds /\ Schedulers \subseteq Users
    /\ {MaxArchive, MaxOutputMedia, MaxInputMedia, MaxFiles, DeleteGrace} \subseteq Nat \ {0}
    /\ {UserQuota, NewQuota, TotalQuota, NewGrace, Retention, MaxTime, MaxRestarts} \subseteq Nat

None == -1                      \* no row in attachment_delete_requests

VARIABLES
    now,            \* the clock
    users,          \* rows of users
    messages,       \* group messages with attachments, as sets of files
    rows,           \* rows of attachments
    owner, size, createdAt, \* their columns
    disk,           \* files in the storage directory
    drawn,          \* ids ever drawn
    pending,        \* execute_at of a user's delete request, or None
    reserved,       \* Service.reserved, under Service.mu
    up,             \* uploads in flight
    pass,           \* the cleanup pass
    restarts

dbVars == <<users, messages, rows, owner, size, createdAt, pending>>
vars   == <<now, dbVars, disk, drawn, reserved, up, pass, restarts>>

UploadPC == {"idle", "process", "send", "move", "failed", "add"}
PassPC   == {"idle", "due", "remove", "expired", "deleteRow", "sweep", "unlink"}

\* Batch: files, moved, held (its reserved), closed; bytes is what Process made.
UploadRecord == [pc : UploadPC, user : Users, files : SUBSET Files, moved : SUBSET Files,
                 bytes : [Files -> Nat], held : Nat, closed : BOOLEAN, at : Nat]
PassRecord   == [pc : PassPC, at : Nat, due : SUBSET Users, todo : SUBSET Files, file : SUBSET Files]

\* Types; every message's files were drawn, and a row belongs to a message.
TypeOK ==
    /\ now \in Nat /\ restarts \in Nat
    /\ users \subseteq Users
    /\ messages \subseteq SUBSET drawn
    /\ rows \subseteq UNION messages
    /\ owner \in [Files -> Users] /\ size \in [Files -> Nat] /\ createdAt \in [Files -> Nat]
    /\ disk \subseteq drawn /\ drawn \subseteq Files
    /\ pending \in [Users -> Nat \cup {None}]
    /\ reserved \in Nat
    /\ up \in [Uploads -> UploadRecord]
    /\ pass \in PassRecord

SomeUser   == CHOOSE u \in Users : TRUE
NoBytes    == [f \in Files |-> 0]
NoRequests == [u \in Users |-> None]
IdleUpload == [pc |-> "idle", user |-> SomeUser, files |-> {}, moved |-> {},
               bytes |-> NoBytes, held |-> 0, closed |-> FALSE, at |-> 0]
IdlePass   == [pc |-> "idle", at |-> 0, due |-> {}, todo |-> {}, file |-> {}]

Init ==
    /\ now = 0
    /\ users = Users
    /\ messages = {} /\ rows = {} /\ disk = {} /\ drawn = {}
    /\ owner = [f \in Files |-> SomeUser] /\ size = NoBytes /\ createdAt = NoBytes
    /\ pending = NoRequests
    /\ reserved = 0
    /\ up = [p \in Uploads |-> IdleUpload]
    /\ pass = IdlePass
    /\ restarts = 0

-----------------------------------------------------------------------------
(* Queries and limits.                                                     *)

Owned(u)     == {f \in rows : owner[f] = u}
Bytes(F)     == MapThenSumSet(LAMBDA f : size[f], F)
Expired(f, at) == createdAt[f] + Retention <= at
IsNew        == now < NewGrace
Smaller(a, b) == IF a < b THEN a ELSE b
Larger(a, b)  == IF a > b THEN a ELSE b

\* EffectiveLimits(...).MaxUserStoredBytes; accounts are as old as the clock.
StoredLimit == IF IsNew THEN Smaller(UserQuota, NewQuota) ELSE UserQuota

\* reserve's check.  Reservations of every user count against the owner's
\* limit; the daily sum does not count reservations.
WithinQuotaIgnoresRequest(u, bytes) ==                                \* mutant
    /\ Bytes(Owned(u)) + reserved <= StoredLimit
    /\ IsNew => Bytes({f \in Owned(u) : createdAt[f] >= now - NewGrace}) <= NewQuota
    /\ Bytes(rows) + reserved <= TotalQuota
WithinQuota(u, bytes) ==
    /\ Bytes(Owned(u)) + reserved + bytes <= StoredLimit
    /\ IsNew => Bytes({f \in Owned(u) : createdAt[f] >= now - NewGrace}) + bytes <= NewQuota
    /\ Bytes(rows) + reserved + bytes <= TotalQuota

\* What Processor.Process may return: archives are capped, pictures and videos
\* are re-encoded, audio and plain files are kept as they came.
ProcessedSizes(kind) ==
    1 .. (CASE kind = "archive"           -> MaxArchive
            [] kind \in {"image", "video"} -> MaxOutputMedia
            [] OTHER                       -> Larger(MaxInputMedia, MaxArchive))

-----------------------------------------------------------------------------
(* An upload: Prepare, SendWithAttachments, Commit, AddMessage.            *)

\* Batch.Rollback: stored files are removed, an open reservation is released.
RollbackKeepsReservation(p) ==                                        \* mutant
    /\ disk' = disk \ up[p].moved
    /\ UNCHANGED reserved
Rollback(p) ==
    /\ disk' = disk \ up[p].moved
    /\ reserved' = IF up[p].closed THEN reserved ELSE reserved - up[p].held

\* Prepare passes its checks and reserves MaxArchive for every file.  A refused
\* request changes nothing.
Prepare(p, u, F) ==
    LET bytes == Cardinality(F) * MaxArchive IN
    /\ up[p].pc = "idle"
    /\ u \in users
    /\ F # {} /\ Cardinality(F) <= MaxFiles
    /\ WithinQuota(u, bytes)
    /\ reserved' = reserved + bytes
    /\ drawn' = drawn \cup F
    /\ up' = [up EXCEPT ![p] = [IdleUpload EXCEPT !.pc = "process", !.user = u,
                                                  !.files = F, !.held = bytes]]
    /\ UNCHANGED <<now, dbVars, disk, pass, restarts>>

Process(p) ==
    /\ up[p].pc = "process"
    /\ \E made \in [up[p].files -> UNION {ProcessedSizes(k) : k \in Kinds}] :
          up' = [up EXCEPT ![p].pc = "send",
                           ![p].bytes = [f \in Files |-> IF f \in up[p].files THEN made[f] ELSE 0]]
    /\ UNCHANGED <<now, dbVars, disk, drawn, reserved, pass, restarts>>

\* A file cannot be processed; or the sender is no member, the idempotency key
\* was used, or the guard refuses the text.
Reject(p) ==
    /\ up[p].pc \in {"process", "send"}
    /\ Rollback(p)
    /\ up' = [up EXCEPT ![p] = IdleUpload]
    /\ UNCHANGED <<now, dbVars, drawn, pass, restarts>>

CommitBegin(p) ==
    /\ up[p].pc = "send"
    /\ up' = [up EXCEPT ![p].pc = "move", ![p].at = now]
    /\ UNCHANGED <<now, dbVars, disk, drawn, reserved, pass, restarts>>

MoveFile(p) ==
    /\ up[p].pc = "move"
    /\ \E f \in up[p].files \ up[p].moved :
        /\ disk' = disk \cup {f}
        /\ up' = [up EXCEPT ![p].moved = @ \cup {f}]
    /\ UNCHANGED <<now, dbVars, drawn, reserved, pass, restarts>>

\* Commit fails halfway and rolls back; its caller rolls back once more.
CommitFails(p) ==
    /\ up[p].pc = "move"
    /\ Rollback(p)
    /\ up' = [up EXCEPT ![p].pc = "failed", ![p].held = 0, ![p].closed = TRUE]
    /\ UNCHANGED <<now, dbVars, drawn, pass, restarts>>

\* Commit ends: the reservation is released before the rows exist.
CommitEnd(p) ==
    /\ up[p].pc = "move" /\ up[p].moved = up[p].files
    /\ reserved' = reserved - up[p].held
    /\ up' = [up EXCEPT ![p].pc = "add", ![p].held = 0, ![p].closed = TRUE]
    /\ UNCHANGED <<now, dbVars, disk, drawn, pass, restarts>>

\* AddMessageWithAttachments: the message and its rows in one transaction.
AddMessage(p) ==
    LET F == up[p].files IN
    /\ up[p].pc = "add"
    /\ up[p].user \in users                      \* foreign keys
    /\ messages' = messages \cup {F}
    /\ rows' = rows \cup F
    /\ owner' = [f \in Files |-> IF f \in F THEN up[p].user ELSE owner[f]]
    /\ size' = [f \in Files |-> IF f \in F THEN up[p].bytes[f] ELSE size[f]]
    /\ createdAt' = [f \in Files |-> IF f \in F THEN up[p].at ELSE createdAt[f]]
    /\ up' = [up EXCEPT ![p] = IdleUpload]
    /\ UNCHANGED <<now, users, pending, disk, drawn, reserved, pass, restarts>>

\* The commit or the insert failed (the group or the account is gone).
SendFails(p) ==
    /\ up[p].pc \in {"failed", "add"}
    /\ Rollback(p)
    /\ up' = [up EXCEPT ![p] = IdleUpload]
    /\ UNCHANGED <<now, dbVars, drawn, pass, restarts>>

-----------------------------------------------------------------------------
(* What users do to what is stored.                                        *)

\* DELETE FROM group_messages; attachments follow ON DELETE CASCADE.
DropMessagesNoCascade(M) == messages' = messages \ M /\ UNCHANGED rows \* mutant
DropMessages(M) ==
    /\ messages' = messages \ M
    /\ rows' = rows \ UNION M

\* DeleteMessage, a deleted group, or the retention of messages.
DeleteMessage(m) ==
    /\ m \in messages
    /\ DropMessages({m})
    /\ UNCHANGED <<now, users, owner, size, createdAt, pending, disk, drawn,
                   reserved, up, pass, restarts>>

DeleteUser(u) ==
    /\ u \in users
    /\ users' = users \ {u}
    /\ DropMessages({m \in messages : \E f \in m : owner[f] = u})
    /\ pending' = [pending EXCEPT ![u] = None]
    /\ UNCHANGED <<now, owner, size, createdAt, disk, drawn, reserved, up, pass, restarts>>

\* INSERT OR IGNORE: a second call returns the request that is waiting.
ScheduleDeleteAll(u) ==
    /\ u \in users /\ pending[u] = None
    /\ pending' = [pending EXCEPT ![u] = now + DeleteGrace]
    /\ UNCHANGED <<now, users, messages, rows, owner, size, createdAt, disk, drawn,
                   reserved, up, pass, restarts>>

CancelDeleteAll(u) ==
    /\ pending[u] # None
    /\ pending' = [pending EXCEPT ![u] = None]
    /\ UNCHANGED <<now, users, messages, rows, owner, size, createdAt, disk, drawn,
                   reserved, up, pass, restarts>>

-----------------------------------------------------------------------------
(* The cleanup pass.                                                       *)

\* RunOnce lists the requests that are due ...
ListDueDeleteRequests ==
    /\ pass.pc = "idle"
    /\ pass' = [IdlePass EXCEPT !.pc = "due", !.at = now,
                                !.due = {u \in Users : pending[u] # None /\ pending[u] <= now}]
    /\ UNCHANGED <<now, dbVars, disk, drawn, reserved, up, restarts>>

\* ... runs one: lists the user's files.  The request is not read again ...
RunDelete(u) ==
    /\ pass.pc = "due" /\ u \in pass.due
    /\ pass' = [pass EXCEPT !.pc = "remove", !.due = @ \ {u}, !.todo = Owned(u)]
    /\ UNCHANGED <<now, dbVars, disk, drawn, reserved, up, restarts>>

\* ... removes them; a file that is not there is not an error ...
RemoveListed ==
    /\ pass.pc = "remove"
    /\ \E f \in pass.todo : disk' = disk \ {f} /\ pass' = [pass EXCEPT !.todo = @ \ {f}]
    /\ UNCHANGED <<now, dbVars, drawn, reserved, up, restarts>>

\* ... and fails: a file cannot be removed, or all are gone and the messages are
\* next.  Deleting those needs a handle with BeginTx; the one main.go passes, a
\* *store.Store, has none, so that call returns an error before it touches the
\* database.  The error is logged; messages, rows and the request stay.
RunDeleteFails ==
    /\ pass.pc = "remove"
    /\ pass' = [pass EXCEPT !.pc = "due", !.todo = {}]
    /\ UNCHANGED <<now, dbVars, disk, drawn, reserved, up, restarts>>

ListExpired ==
    /\ pass.pc = "due" /\ pass.due = {}
    /\ pass' = [pass EXCEPT !.pc = "expired", !.todo = {f \in rows : Expired(f, pass.at)}]
    /\ UNCHANGED <<now, dbVars, disk, drawn, reserved, up, restarts>>

\* The file first, then its row; a file that is not there is not an error.
RemoveExpiredStrict(f) ==                                             \* mutant
    /\ pass.pc = "expired" /\ f \in pass.todo \cap disk
    /\ disk' = disk \ {f}
    /\ pass' = [pass EXCEPT !.pc = "deleteRow", !.file = {f}, !.todo = @ \ {f}]
    /\ UNCHANGED <<now, dbVars, drawn, reserved, up, restarts>>
RemoveExpired(f) ==
    /\ pass.pc = "expired" /\ f \in pass.todo
    /\ disk' = disk \ {f}
    /\ pass' = [pass EXCEPT !.pc = "deleteRow", !.file = {f}, !.todo = @ \ {f}]
    /\ UNCHANGED <<now, dbVars, drawn, reserved, up, restarts>>

DeleteRow ==
    /\ pass.pc = "deleteRow"
    /\ rows' = rows \ pass.file
    /\ pass' = [pass EXCEPT !.pc = "expired", !.file = {}]
    /\ UNCHANGED <<now, users, messages, owner, size, createdAt, pending, disk, drawn,
                   reserved, up, restarts>>

\* removeOrphans reads the directory (every id starts alike, so there is one) ...
ReadDir ==
    /\ pass.pc = "expired" /\ pass.todo = {}
    /\ pass' = [pass EXCEPT !.pc = "sweep", !.todo = disk]
    /\ UNCHANGED <<now, dbVars, disk, drawn, reserved, up, restarts>>

\* ... asks for each file's row, and removes the file in a later step.
HasPathAlways(f) ==                                                   \* mutant
    /\ pass.pc = "sweep" /\ f \in pass.todo
    /\ pass' = [pass EXCEPT !.todo = @ \ {f}]
    /\ UNCHANGED <<now, dbVars, disk, drawn, reserved, up, restarts>>
HasPath(f) ==
    /\ pass.pc = "sweep" /\ f \in pass.todo
    /\ pass' = IF f \in rows THEN [pass EXCEPT !.todo = @ \ {f}]
               ELSE [pass EXCEPT !.pc = "unlink", !.todo = @ \ {f}, !.file = {f}]
    /\ UNCHANGED <<now, dbVars, disk, drawn, reserved, up, restarts>>

RemoveOrphan ==
    /\ pass.pc = "unlink"
    /\ disk' = disk \ pass.file
    /\ pass' = [pass EXCEPT !.pc = "sweep", !.file = {}]
    /\ UNCHANGED <<now, dbVars, drawn, reserved, up, restarts>>

PassEnd ==
    /\ pass.pc = "sweep" /\ pass.todo = {}
    /\ pass' = IdlePass
    /\ UNCHANGED <<now, dbVars, disk, drawn, reserved, up, restarts>>

\* Any other error ends the pass.
PassFails ==
    /\ \/ pass.pc \in {"expired", "deleteRow", "sweep", "unlink"}
       \/ pass.pc = "due" /\ pass.due = {}
    /\ pass' = IdlePass
    /\ UNCHANGED <<now, dbVars, disk, drawn, reserved, up, restarts>>

-----------------------------------------------------------------------------
Tick ==
    /\ now < MaxTime
    /\ now' = now + 1
    /\ UNCHANGED <<dbVars, disk, drawn, reserved, up, pass, restarts>>

\* The process dies: uploads, the pass and the reservations are forgotten.
Restart ==
    /\ restarts < MaxRestarts
    /\ restarts' = restarts + 1
    /\ reserved' = 0
    /\ up' = [p \in Uploads |-> IdleUpload]
    /\ pass' = IdlePass
    /\ UNCHANGED <<now, dbVars, disk, drawn>>

UploadStep(p) ==
    \/ \E u \in Users, F \in SUBSET (Files \ drawn) : Prepare(p, u, F)
    \/ Process(p) \/ Reject(p)
    \/ CommitBegin(p) \/ MoveFile(p) \/ CommitFails(p) \/ CommitEnd(p)
    \/ AddMessage(p) \/ SendFails(p)

UserStep ==
    \/ \E m \in messages : DeleteMessage(m)
    \/ \E u \in Users : DeleteUser(u)
    \/ \E u \in Schedulers : ScheduleDeleteAll(u) \/ CancelDeleteAll(u)

PassStep ==
    \/ ListDueDeleteRequests
    \/ \E u \in Users : RunDelete(u)
    \/ RemoveListed \/ RunDeleteFails
    \/ ListExpired \/ (\E f \in Files : RemoveExpired(f)) \/ DeleteRow
    \/ ReadDir \/ (\E f \in Files : HasPath(f)) \/ RemoveOrphan
    \/ PassEnd \/ PassFails

Next ==
    \/ \E p \in Uploads : UploadStep(p)
    \/ UserStep
    \/ PassStep
    \/ Tick
    \/ Restart

Spec == Init /\ [][Next]_vars

\* The cleanup goroutine runs a pass every minute and errors of the disk and
\* the database do not recur for ever at the same call.
Fairness ==
    /\ WF_vars(ListDueDeleteRequests)
    /\ \A u \in Users : SF_vars(RunDelete(u))
    /\ SF_vars(RemoveListed)
    /\ WF_vars(RunDeleteFails)
    /\ SF_vars(ListExpired) /\ SF_vars(DeleteRow)
    /\ SF_vars(ReadDir) /\ SF_vars(RemoveOrphan) /\ WF_vars(PassEnd)
    /\ \A f \in Files : SF_vars(RemoveExpired(f)) /\ SF_vars(HasPath(f))

FairSpec == Spec /\ Fairness

-----------------------------------------------------------------------------
(* Properties.                                                             *)

\* The reservations add up: Service.reserved is what the open batches hold, after
\* any mix of rollbacks, failed commits (which roll back twice) and successes.
\* A leak would eat into every user's quota until the next restart.
ReservationsAddUp ==
    reserved = SumFunction([p \in Uploads |-> up[p].held])

\* What a user has stored stays within the limit of their account's age, and
\* all attachments within the total quota.
QuotaRespected ==
    /\ \A u \in Users : Bytes(Owned(u)) <= StoredLimit
    /\ Bytes(rows) <= TotalQuota

\* How far the code can exceed a quota: reserve admits a batch by MaxArchive a
\* file, an audio or plain file may be as large as MaxInputMedia, and a batch that
\* Commit has released is seen by nobody until its rows exist.  At worst every
\* upload in flight stores a full batch of the largest files, the last of them
\* admitted with only MaxArchive a file left.
MaxFile == Larger(Larger(MaxInputMedia, MaxArchive), MaxOutputMedia)
Overrun == MaxFiles * (Cardinality(Uploads) * MaxFile - MaxArchive)
QuotaOverrunBounded ==
    /\ \A u \in Users : Bytes(Owned(u)) <= StoredLimit + Overrun
    /\ Bytes(rows) <= TotalQuota + Overrun

\* An attachment can be downloaded until it expires: its row has its file.
RowHasFile ==
    \A f \in rows : f \in disk \/ Expired(f, now)

\* A file without a row does not stay: it gets its row, or the sweep removes it,
\* after a crash between Commit and AddMessage and after every deletion that
\* only cascades in the database.
OrphansGo ==
    \A f \in Files : (f \in disk \ rows) ~> (f \notin disk \/ f \in rows)

\* An expired attachment loses its row, also when a crash or an error struck
\* between the removal of its file and of its row.
ExpiredGo ==
    \A f \in Files : (f \in rows /\ Expired(f, now)) ~> f \notin rows

\* A delete-all request that is due is carried out and removed.
DeleteAllCompletes ==
    \A u \in Users : (pending[u] # None /\ pending[u] <= now) ~> pending[u] = None
=============================================================================
