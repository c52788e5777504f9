------------------------- MODULE AttachmentsProofs -------------------------
(***************************************************************************)
(* Proofs about attachments for any number of uploads, files and users.    *)
(***************************************************************************)
EXTENDS Attachments, Sums, TLAPS

\* What the uploads hold, as a function of the uploads.
Held(us) == [p \in Uploads |-> us[p].held]

\* A batch that is closed, or is not in use, holds nothing.
Open == {"process", "send", "move"}
ClosedIsEmpty == \A p \in Uploads : up[p].closed \/ up[p].pc \notin Open => up[p].held = 0

\* The files of an upload were drawn for it alone: no other upload and no message has one.
FilesApart ==
    /\ \A p \in Uploads : up[p].files \subseteq drawn /\ up[p].files \cap UNION messages = {}
    /\ \A p, q \in Uploads : p # q => up[p].files \cap up[q].files = {}

IInv == TypeOK /\ ClosedIsEmpty /\ FilesApart /\ ReservationsAddUp

\* The limits are natural numbers.
LEMMA Limits ==
    /\ MaxArchive \in Nat /\ MaxFiles \in Nat /\ UserQuota \in Nat /\ NewQuota \in Nat
    /\ TotalQuota \in Nat /\ NewGrace \in Nat /\ Retention \in Nat /\ DeleteGrace \in Nat
    /\ MaxTime \in Nat /\ MaxRestarts \in Nat /\ MaxOutputMedia \in Nat /\ MaxInputMedia \in Nat
  BY AttachmentsAssumption

\* Idle records have the types of their records.
LEMMA IdleOK ==
    /\ SomeUser \in Users /\ NoBytes \in [Files -> Nat]
    /\ IdleUpload \in UploadRecord /\ IdlePass \in PassRecord
    /\ IdleUpload.pc = "idle" /\ IdleUpload.held = 0 /\ IdleUpload.files = {} /\ IdleUpload.closed = FALSE
  <1>1. SomeUser \in Users
    BY AttachmentsAssumption DEF SomeUser
  <1>2. NoBytes \in [Files -> Nat]
    BY DEF NoBytes
  <1>3. IdleUpload \in UploadRecord
    BY <1>1, <1>2 DEF IdleUpload, UploadRecord, UploadPC
  <1>4. IdlePass \in PassRecord
    BY DEF IdlePass, PassRecord, PassPC
  <1> QED BY <1>1, <1>2, <1>3, <1>4 DEF IdleUpload

\* What an upload holds is a natural number, and so is the sum.
LEMMA HeldNat ==
    ASSUME NEW us \in [Uploads -> UploadRecord]
    PROVE  /\ Held(us) \in [Uploads -> Nat] /\ \A p \in Uploads : Held(us)[p] = us[p].held
           /\ SumFunction(Held(us)) = SumOver(Held(us), Uploads)
           /\ SumOver(Held(us), Uploads) \in Nat
  <1>1. Held(us) \in [Uploads -> Nat] /\ \A p \in Uploads : Held(us)[p] = us[p].held
    BY DEF Held, UploadRecord
  <1>2. SumFunction(Held(us)) = SumOver(Held(us), Uploads)
    BY <1>1, SumOfFunction
  <1>3. SumOver(Held(us), Uploads) \in Nat
    BY <1>1, SumNat, AttachmentsAssumption
  <1> QED BY <1>1, <1>2, <1>3

\* The reservation of one upload changes: the sum changes by as much.
LEMMA HeldUpdate ==
    ASSUME NEW us \in [Uploads -> UploadRecord], NEW p \in Uploads, NEW q \in UploadRecord,
           NEW vs, vs = [us EXCEPT ![p] = q]
    PROVE  SumOver(Held(vs), Uploads) = SumOver(Held(us), Uploads) - us[p].held + q.held
  <1>1. vs \in [Uploads -> UploadRecord] /\ vs[p] = q /\ \A x \in Uploads \ {p} : vs[x] = us[x]
    OBVIOUS
  <1>2. /\ \A x \in Uploads : Held(us)[x] \in Nat /\ Held(vs)[x] \in Nat
        /\ \A x \in Uploads \ {p} : Held(us)[x] = Held(vs)[x]
        /\ Held(us)[p] = us[p].held /\ Held(vs)[p] = q.held
    BY <1>1, HeldNat
  <1>3. SumOver(Held(vs), Uploads) = SumOver(Held(us), Uploads) - Held(us)[p] + Held(vs)[p]
    <2>1. PICK f, g : f = Held(us) /\ g = Held(vs)
      OBVIOUS
    <2>2. /\ IsFiniteSet(Uploads) /\ \A x \in Uploads : f[x] \in Nat /\ g[x] \in Nat
          /\ \A x \in Uploads \ {p} : f[x] = g[x]
      BY <1>2, <2>1, AttachmentsAssumption
    <2>3. SumOver(g, Uploads) = SumOver(f, Uploads) - f[p] + g[p]
      BY ONLY <2>2, p \in Uploads, SumUpdate
    <2> QED BY <2>1, <2>3
  <1> QED BY <1>2, <1>3

\* An upload's own share is part of the sum, so that giving it back leaves a
\* natural number.
LEMMA HeldShare ==
    ASSUME IInv, NEW p \in Uploads
    PROVE  /\ up[p].held \in Nat /\ up[p].held <= reserved /\ reserved \in Nat
           /\ reserved = SumOver(Held(up), Uploads)
  <1>1. up \in [Uploads -> UploadRecord] /\ reserved \in Nat
    BY DEF IInv, TypeOK
  <1>2. reserved = SumOver(Held(up), Uploads)
    BY <1>1, HeldNat DEF IInv, ReservationsAddUp, Held
  <1>3. /\ Held(up) \in [Uploads -> Nat] /\ Held(up)[p] = up[p].held
        /\ SumOver(Held(up), Uploads) = Held(up)[p] + SumOver(Held(up), Uploads \ {p})
    BY <1>1, HeldNat, SumRemove, AttachmentsAssumption
  <1>4. SumOver(Held(up), Uploads \ {p}) \in Nat
    <2>1. IsFiniteSet(Uploads \ {p})
      BY FS_Subset, AttachmentsAssumption
    <2> QED BY <1>3, <2>1, SumNat
  <1> QED BY <1>1, <1>2, <1>3, <1>4

\* The reservations add up again when one upload's share and the total change alike.
LEMMA AddUpAgain ==
    ASSUME IInv, NEW p \in Uploads, NEW q \in UploadRecord, up' = [up EXCEPT ![p] = q],
           reserved' = reserved - up[p].held + q.held
    PROVE  reserved' \in Nat /\ ReservationsAddUp'
  <1>1. up \in [Uploads -> UploadRecord] /\ up' \in [Uploads -> UploadRecord]
    BY DEF IInv, TypeOK
  <1>2. reserved' = SumOver(Held(up'), Uploads)
    <2>1. PICK us, vs : us = up /\ vs = up'
      OBVIOUS
    <2>2. us \in [Uploads -> UploadRecord] /\ vs = [us EXCEPT ![p] = q]
      BY <1>1, <2>1
    <2>3. SumOver(Held(vs), Uploads) = SumOver(Held(us), Uploads) - us[p].held + q.held
      BY ONLY <2>2, p \in Uploads, q \in UploadRecord, HeldUpdate
    <2> QED BY <2>1, <2>3, HeldShare
  <1>3. SumFunction(Held(up')) = SumOver(Held(up'), Uploads) /\ SumOver(Held(up'), Uploads) \in Nat
    BY <1>1, HeldNat
  <1> QED BY <1>2, <1>3 DEF ReservationsAddUp, Held

-----------------------------------------------------------------------------
(* Uploads.                                                                *)

\* An upload moves on with the files it has, or ends.
LEMMA UploadMoves ==
    ASSUME IInv, NEW p \in Uploads, NEW q \in UploadRecord, up' = [up EXCEPT ![p] = q],
           q.files \in {up[p].files, {}}, q.closed \/ q.pc \notin Open => q.held = 0,
           reserved' = reserved - up[p].held + q.held,
           drawn' = drawn, messages' = messages
    PROVE  /\ up' \in [Uploads -> UploadRecord] /\ reserved' \in Nat
           /\ ClosedIsEmpty' /\ FilesApart' /\ ReservationsAddUp'
  <1>1. up \in [Uploads -> UploadRecord]
    BY DEF IInv, TypeOK
  <1>2. up' \in [Uploads -> UploadRecord] /\ up'[p] = q /\ \A x \in Uploads \ {p} : up'[x] = up[x]
    BY <1>1
  <1>3. ClosedIsEmpty'
    BY <1>2 DEF IInv, ClosedIsEmpty
  <1>4. FilesApart'
    BY <1>2 DEF IInv, FilesApart
  <1>5. reserved' \in Nat /\ ReservationsAddUp'
    BY AddUpAgain
  <1> QED BY <1>2, <1>3, <1>4, <1>5

\* Rollback gives back what an open batch holds, and a closed one holds nothing.
LEMMA RollbackGivesBack ==
    ASSUME IInv, NEW p \in Uploads, Rollback(p)
    PROVE  reserved' = reserved - up[p].held /\ disk' \subseteq disk
  <1>1. up[p].held \in Nat /\ reserved \in Nat
    BY HeldShare
  <1> QED BY <1>1 DEF Rollback, IInv, ClosedIsEmpty

\* Nothing but the upload, its reservation and the disk changes.
LEMMA UploadEnds ==
    ASSUME IInv, NEW p \in Uploads, NEW q \in UploadRecord, up' = [up EXCEPT ![p] = q],
           q.files \in {up[p].files, {}}, q.closed \/ q.pc \notin Open => q.held = 0,
           reserved' = reserved - up[p].held + q.held,
           disk' \subseteq disk \cup up[p].files,
           UNCHANGED <<now, dbVars, drawn, pass, restarts>>
    PROVE  IInv'
  <1>1. /\ up' \in [Uploads -> UploadRecord] /\ reserved' \in Nat
        /\ ClosedIsEmpty' /\ FilesApart' /\ ReservationsAddUp'
    BY UploadMoves DEF dbVars
  <1>2. disk' \subseteq drawn
    BY DEF IInv, TypeOK, FilesApart
  <1>3. TypeOK'
    BY <1>1, <1>2 DEF IInv, TypeOK, dbVars
  <1> QED BY <1>1, <1>3 DEF IInv

\* The steps of an upload that is under way.
LEMMA UploadInv ==
    ASSUME IInv, NEW p \in Uploads,
           \/ Process(p) \/ Reject(p) \/ CommitBegin(p) \/ MoveFile(p)
           \/ CommitFails(p) \/ CommitEnd(p) \/ SendFails(p)
    PROVE  IInv'
  <1>t. /\ up \in [Uploads -> UploadRecord] /\ up[p] \in UploadRecord /\ now \in Nat
        /\ up[p].held \in Nat /\ reserved \in Nat
        /\ up[p].held <= reserved /\ (up[p].closed => up[p].held = 0)
    BY HeldShare DEF IInv, TypeOK, ClosedIsEmpty
  <1>1. CASE Process(p)
    <2>1. PICK made \in [up[p].files -> UNION {ProcessedSizes(k) : k \in Kinds}] :
             up' = [up EXCEPT ![p].pc = "send",
                              ![p].bytes = [f \in Files |-> IF f \in up[p].files THEN made[f] ELSE 0]]
      BY <1>1 DEF Process
    <2> DEFINE b == [f \in Files |-> IF f \in up[p].files THEN made[f] ELSE 0]
               q == [up[p] EXCEPT !.pc = "send", !.bytes = b]
    <2>2. \A k \in Kinds : ProcessedSizes(k) \subseteq Nat
      BY Limits DEF ProcessedSizes, Larger
    <2>3. b \in [Files -> Nat]
      BY <2>2
    <2>4. up' = [up EXCEPT ![p] = q]
      BY <1>t, <2>1
    <2> HIDE DEF b
    <2>5. /\ q \in UploadRecord /\ q.files = up[p].files /\ q.held = up[p].held
          /\ q.closed = up[p].closed /\ q.pc \in Open
      BY <1>t, <2>3 DEF UploadRecord, UploadPC, Open
    <2> HIDE DEF q
    <2>6. reserved' = reserved - up[p].held + q.held
      <3>1. reserved' = reserved
        BY <1>1 DEF Process
      <3> QED BY <1>t, <2>5, <3>1
    <2>7. UNCHANGED <<now, dbVars, disk, drawn, pass, restarts>>
      BY <1>1 DEF Process
    <2> QED BY <1>t, <2>4, <2>5, <2>6, <2>7, UploadEnds
  <1>2. CASE Reject(p) \/ SendFails(p)
    <2>1. reserved' = reserved - up[p].held + IdleUpload.held /\ disk' \subseteq disk
      BY <1>2, <1>t, IdleOK, RollbackGivesBack DEF Reject, SendFails
    <2> QED BY <1>2, <2>1, IdleOK, UploadEnds DEF Reject, SendFails
  <1>3. CASE CommitBegin(p)
    <2> DEFINE q == [up[p] EXCEPT !.pc = "move", !.at = now]
    <2>1. up' = [up EXCEPT ![p] = q]
      BY <1>t, <1>3 DEF CommitBegin
    <2>2. /\ q \in UploadRecord /\ q.files = up[p].files /\ q.held = up[p].held
          /\ q.closed = up[p].closed /\ q.pc \in Open
      BY <1>t DEF UploadRecord, UploadPC, Open
    <2> HIDE DEF q
    <2>3. reserved' = reserved - up[p].held + q.held
      BY <1>3, <1>t, <2>2 DEF CommitBegin
    <2>4. UNCHANGED <<now, dbVars, disk, drawn, pass, restarts>>
      BY <1>3 DEF CommitBegin
    <2> QED BY <1>t, <2>1, <2>2, <2>3, <2>4, UploadEnds
  <1>4. CASE MoveFile(p)
    <2>1. PICK f \in up[p].files : disk' = disk \cup {f} /\ up' = [up EXCEPT ![p].moved = @ \cup {f}]
      BY <1>4 DEF MoveFile
    <2> DEFINE q == [up[p] EXCEPT !.moved = @ \cup {f}]
    <2>2. up' = [up EXCEPT ![p] = q]
      BY <1>t, <2>1
    <2>3. /\ q \in UploadRecord /\ q.files = up[p].files /\ q.held = up[p].held
          /\ q.closed = up[p].closed /\ q.pc \in Open
      BY <1>4, <1>t, <2>1 DEF UploadRecord, MoveFile, Open
    <2> HIDE DEF q
    <2>4. reserved' = reserved - up[p].held + q.held
      BY <1>4, <1>t, <2>3 DEF MoveFile
    <2>5. UNCHANGED <<now, dbVars, drawn, pass, restarts>>
      BY <1>4 DEF MoveFile
    <2> QED BY <1>t, <2>1, <2>2, <2>3, <2>4, <2>5, UploadEnds
  <1>5. ASSUME NEW pc \in UploadPC, up' = [up EXCEPT ![p].pc = pc, ![p].held = 0, ![p].closed = TRUE],
               reserved' = reserved - up[p].held, disk' \subseteq disk,
               UNCHANGED <<now, dbVars, drawn, pass, restarts>>
        PROVE  IInv'
    <2> DEFINE q == [up[p] EXCEPT !.pc = pc, !.held = 0, !.closed = TRUE]
    <2>1. up' = [up EXCEPT ![p] = q]
      BY <1>t, <1>5
    <2>2. q \in UploadRecord /\ q.files = up[p].files /\ q.held = 0
      BY <1>t, <1>5 DEF UploadRecord
    <2> HIDE DEF q
    <2>3. reserved' = reserved - up[p].held + q.held
      BY <1>5, <1>t, <2>2
    <2> QED BY <1>5, <2>1, <2>2, <2>3, UploadEnds
  <1>6. CASE CommitFails(p)
    BY <1>5, <1>6, RollbackGivesBack DEF CommitFails, UploadPC
  <1>7. CASE CommitEnd(p)
    BY <1>5, <1>7 DEF CommitEnd, UploadPC
  <1> QED BY <1>1, <1>2, <1>3, <1>4, <1>6, <1>7

\* Prepare draws new ids and reserves for them.
LEMMA PrepareInv ==
    ASSUME IInv, NEW p \in Uploads, NEW u \in Users, NEW F \in SUBSET (Files \ drawn), Prepare(p, u, F)
    PROVE  IInv'
  <1> DEFINE bytes == Cardinality(F) * MaxArchive
             q == [IdleUpload EXCEPT !.pc = "process", !.user = u, !.files = F, !.held = bytes]
  <1>1. bytes \in Nat
    <2>1. F \subseteq Files /\ IsFiniteSet(Files)
      BY AttachmentsAssumption
    <2>2. Cardinality(F) \in Nat
      BY <2>1, FS_Subset, FS_CardinalityType
    <2> QED BY <2>2, Limits
  <1>2. up' = [up EXCEPT ![p] = q] /\ up[p].pc = "idle" /\ reserved' = reserved + bytes
    BY DEF Prepare
  <1> HIDE DEF bytes
  <1>3. q \in UploadRecord /\ q.files = F /\ q.held = bytes /\ q.closed = FALSE
    BY <1>1, IdleOK DEF UploadRecord, UploadPC
  <1>4. up[p].held = 0 /\ reserved \in Nat
    BY <1>2 DEF IInv, ClosedIsEmpty, Open, TypeOK
  <1>5. reserved' = reserved - up[p].held + q.held
    <2> HIDE DEF q
    <2> QED BY <1>1, <1>2, <1>3, <1>4
  <1>6. reserved' \in Nat /\ ReservationsAddUp'
    <2> HIDE DEF q
    <2> QED BY <1>2, <1>3, <1>5, AddUpAgain
  <1> HIDE DEF q
  <1>7. /\ up \in [Uploads -> UploadRecord] /\ up' \in [Uploads -> UploadRecord]
        /\ up'[p] = q /\ \A x \in Uploads \ {p} : up'[x] = up[x]
    BY <1>2, <1>3 DEF IInv, TypeOK
  <1>8. ClosedIsEmpty'
    <2>1. q.pc = "process"
      BY IdleOK DEF q, UploadRecord
    <2> QED BY <1>3, <1>7, <2>1 DEF IInv, ClosedIsEmpty, Open
  <1>9. drawn' = drawn \cup F /\ UNCHANGED <<now, dbVars, disk, pass, restarts>>
    BY DEF Prepare
  <1>10. FilesApart'
    <2>1. F \cap drawn = {} /\ UNION messages \subseteq drawn /\ messages' = messages
      BY <1>9 DEF IInv, TypeOK, dbVars
    <2> QED BY <1>3, <1>7, <1>9, <2>1 DEF IInv, FilesApart
  <1>11. TypeOK'
    BY <1>6, <1>7, <1>9 DEF IInv, TypeOK, dbVars
  <1> QED BY <1>6, <1>8, <1>10, <1>11 DEF IInv

\* AddMessage hands its files over to the message.
LEMMA AddMessageInv ==
    ASSUME IInv, NEW p \in Uploads, AddMessage(p)
    PROVE  IInv'
  <1> DEFINE F == up[p].files
  <1>1. /\ up \in [Uploads -> UploadRecord] /\ up[p] \in UploadRecord /\ F \subseteq drawn /\ drawn \subseteq Files
    BY DEF IInv, TypeOK, FilesApart
  <1>2. /\ messages' = messages \cup {F} /\ rows' = rows \cup F
        /\ up' = [up EXCEPT ![p] = IdleUpload]
        /\ UNCHANGED <<now, users, pending, disk, drawn, reserved, pass, restarts>>
    BY DEF AddMessage
  <1>3. up'[p] = IdleUpload /\ (\A x \in Uploads \ {p} : up'[x] = up[x]) /\ up' \in [Uploads -> UploadRecord]
    BY <1>1, <1>2, IdleOK
  <1>4. owner' \in [Files -> Users] /\ size' \in [Files -> Nat] /\ createdAt' \in [Files -> Nat]
    BY <1>1 DEF AddMessage, IInv, TypeOK, UploadRecord
  <1>5. reserved' \in Nat /\ ReservationsAddUp'
    <2>1. up[p].held = 0 /\ reserved \in Nat
      BY DEF AddMessage, IInv, ClosedIsEmpty, Open, TypeOK
    <2>2. reserved' = reserved - up[p].held + IdleUpload.held
      BY <1>2, <2>1, IdleOK
    <2> QED BY <1>2, <2>2, IdleOK, AddUpAgain
  <1>6. ClosedIsEmpty'
    BY <1>3, IdleOK DEF IInv, ClosedIsEmpty
  <1>7. FilesApart'
    <2>1. UNION messages' = (UNION messages) \cup F
      BY <1>2
    <2> HIDE DEF F
    <2>2. \A x \in Uploads \ {p} : up[x].files \cap F = {}
      BY DEF IInv, FilesApart, F
    <2> QED BY <1>2, <1>3, <2>1, <2>2, IdleOK DEF IInv, FilesApart
  <1>8. TypeOK'
    <2>1. messages' \subseteq SUBSET drawn' /\ rows' \subseteq UNION messages'
      BY <1>1, <1>2 DEF IInv, TypeOK
    <2> QED BY <1>2, <1>3, <1>4, <1>5, <2>1 DEF IInv, TypeOK
  <1> QED BY <1>5, <1>6, <1>7, <1>8 DEF IInv

-----------------------------------------------------------------------------
(* The other steps leave uploads and reservations alone.                   *)

\* Messages go, with their rows.
LEMMA UploadsUntouched ==
    ASSUME IInv, UNCHANGED <<up, reserved, drawn>>, messages' \subseteq messages, TypeOK'
    PROVE  IInv'
  <1>1. UNION messages' \subseteq UNION messages
    OBVIOUS
  <1> QED BY <1>1 DEF IInv, ClosedIsEmpty, FilesApart, ReservationsAddUp

\* What users do to what is stored.
LEMMA UserInv ==
    ASSUME IInv, UserStep
    PROVE  IInv'
  <1>t. TypeOK /\ None \in Int
    BY DEF IInv, None
  <1>1. ASSUME NEW M, DropMessages(M), UNCHANGED <<now, owner, size, createdAt, disk, drawn, reserved, up, pass, restarts>>,
               users' \subseteq users, pending' \in [Users -> Nat \cup {None}]
        PROVE  IInv'
    <2>1. messages' \subseteq messages /\ rows' \subseteq UNION messages'
      BY <1>1, <1>t DEF DropMessages, TypeOK
    <2>2. TypeOK'
      BY <1>1, <1>t, <2>1 DEF TypeOK
    <2> QED BY <1>1, <2>1, <2>2, UploadsUntouched
  <1>2. ASSUME NEW m \in messages, DeleteMessage(m) PROVE IInv'
    BY <1>1, <1>2, <1>t DEF DeleteMessage, TypeOK
  <1>3. ASSUME NEW u \in Users, DeleteUser(u) PROVE IInv'
    <2>1. pending' \in [Users -> Nat \cup {None}]
      BY <1>3, <1>t DEF DeleteUser, TypeOK
    <2> QED BY <1>1, <1>3, <2>1 DEF DeleteUser
  <1>4. ASSUME NEW u \in Users, ScheduleDeleteAll(u) \/ CancelDeleteAll(u) PROVE IInv'
    <2>1. pending' \in [Users -> Nat \cup {None}]
      BY <1>4, <1>t, Limits DEF ScheduleDeleteAll, CancelDeleteAll, TypeOK
    <2>2. UNCHANGED <<now, users, messages, rows, owner, size, createdAt, disk, drawn, reserved, up, pass, restarts>>
      BY <1>4 DEF ScheduleDeleteAll, CancelDeleteAll
    <2>3. TypeOK'
      BY <1>t, <2>1, <2>2 DEF TypeOK
    <2> QED BY <2>2, <2>3, UploadsUntouched
  <1> QED BY <1>2, <1>3, <1>4, AttachmentsAssumption DEF UserStep

\* The pass keeps its record's type and only removes.
LEMMA PassInv ==
    ASSUME IInv, PassStep
    PROVE  IInv'
  <1>t. TypeOK /\ pass \in PassRecord /\ None \in Int /\ drawn \subseteq Files /\ rows \subseteq Files
    BY DEF IInv, TypeOK, None
  <1>1. ASSUME pass' \in PassRecord, UNCHANGED <<now, users, owner, size, createdAt, drawn, reserved, up, restarts>>,
               messages' \subseteq messages, rows' \subseteq UNION messages', disk' \subseteq disk,
               pending' \in [Users -> Nat \cup {None}]
        PROVE  IInv'
    <2>1. TypeOK'
      BY <1>1, <1>t DEF TypeOK
    <2> QED BY <1>1, <2>1, UploadsUntouched
  <1>2. ASSUME pass' \in PassRecord, disk' \subseteq disk, UNCHANGED <<now, dbVars, drawn, reserved, up, restarts>>
        PROVE  IInv'
    BY <1>1, <1>2, <1>t DEF TypeOK, dbVars
  <1>3. CASE ListDueDeleteRequests
    <2> DEFINE due == {u \in Users : pending[u] # None /\ pending[u] <= now}
    <2>1. due \in SUBSET Users /\ now \in Nat
      BY <1>t DEF TypeOK
    <2> HIDE DEF due
    <2>2. [IdlePass EXCEPT !.pc = "due", !.at = now, !.due = due] \in PassRecord
      BY <2>1, IdleOK DEF PassRecord, PassPC
    <2> QED BY <1>2, <1>3, <2>2 DEF ListDueDeleteRequests, due
  <1>4. ASSUME NEW u \in Users, RunDelete(u) PROVE IInv'
    <2>1. pass' = [pass EXCEPT !.pc = "remove", !.due = pass.due \ {u}, !.todo = Owned(u)]
      BY <1>4, <1>t DEF RunDelete, PassRecord
    <2>2. pass.due \ {u} \in SUBSET Users /\ Owned(u) \in SUBSET Files
      BY <1>t DEF PassRecord, Owned
    <2>3. pass' \in PassRecord
      BY <1>t, <2>1, <2>2 DEF PassRecord, PassPC
    <2> QED BY <1>2, <1>4, <2>3 DEF RunDelete
  <1>5. CASE RemoveListed
    <2>1. PICK f \in pass.todo : disk' = disk \ {f} /\ pass' = [pass EXCEPT !.todo = @ \ {f}]
      BY <1>5 DEF RemoveListed
    <2>2. pass' \in PassRecord
      BY <1>t, <2>1 DEF PassRecord
    <2> QED BY <1>2, <1>5, <2>1, <2>2 DEF RemoveListed
  <1>6. CASE RunDeleteFails
    <2>1. pass' \in PassRecord
      BY <1>6, <1>t DEF RunDeleteFails, PassRecord, PassPC
    <2> QED BY <1>2, <1>6, <2>1 DEF RunDeleteFails
  <1>7. CASE ListExpired
    <2>1. {f \in rows : Expired(f, pass.at)} \in SUBSET Files
      BY <1>t
    <2>2. pass' \in PassRecord
      BY <1>7, <1>t, <2>1 DEF ListExpired, PassRecord, PassPC
    <2> QED BY <1>2, <1>7, <2>2 DEF ListExpired
  <1>8. ASSUME NEW f \in Files, RemoveExpired(f) PROVE IInv'
    <2>1. pass' \in PassRecord
      BY <1>8, <1>t DEF RemoveExpired, PassRecord, PassPC
    <2> QED BY <1>2, <1>8, <2>1 DEF RemoveExpired
  <1>9. CASE DeleteRow
    <2>1. pass' \in PassRecord
      BY <1>9, <1>t DEF DeleteRow, PassRecord, PassPC
    <2> QED BY <1>1, <1>9, <1>t, <2>1 DEF DeleteRow, TypeOK
  <1>10. CASE ReadDir
    <2>1. pass' \in PassRecord
      BY <1>10, <1>t DEF ReadDir, PassRecord, PassPC, TypeOK
    <2> QED BY <1>2, <1>10, <2>1 DEF ReadDir
  <1>11. ASSUME NEW f \in Files, HasPath(f) PROVE IInv'
    <2>1. pass' \in PassRecord
      BY <1>11, <1>t DEF HasPath, PassRecord, PassPC
    <2> QED BY <1>2, <1>11, <2>1 DEF HasPath
  <1>12. CASE RemoveOrphan
    <2>1. pass' \in PassRecord
      BY <1>12, <1>t DEF RemoveOrphan, PassRecord, PassPC
    <2> QED BY <1>2, <1>12, <2>1 DEF RemoveOrphan
  <1>13. CASE PassEnd \/ PassFails
    BY <1>2, <1>13, IdleOK DEF PassEnd, PassFails
  <1> QED BY <1>3, <1>4, <1>5, <1>6, <1>7, <1>8, <1>9, <1>10, <1>11, <1>12, <1>13 DEF PassStep

\* Nothing is reserved when nothing is in flight.
LEMMA NothingHeld ==
    ASSUME NEW us, us = [p \in Uploads |-> IdleUpload]
    PROVE  us \in [Uploads -> UploadRecord] /\ SumOver(Held(us), Uploads) = 0
  <1>1. us \in [Uploads -> UploadRecord]
    BY IdleOK
  <1>2. PICK f : f = Held(us)
    OBVIOUS
  <1>3. IsFiniteSet(Uploads) /\ \A p \in Uploads : f[p] = 0
    BY <1>1, <1>2, HeldNat, IdleOK, AttachmentsAssumption
  <1>4. SumOver(f, Uploads) <= Cardinality(Uploads) * 0 /\ SumOver(f, Uploads) \in Nat
    BY ONLY <1>3, SumBound, SumNat
  <1>5. Cardinality(Uploads) \in Nat
    BY <1>3, FS_CardinalityType
  <1> QED BY <1>1, <1>2, <1>4, <1>5

\* Nothing is in flight: the process has just started.
LEMMA StartInv ==
    ASSUME NEW us, us = [p \in Uploads |-> IdleUpload]
    PROVE  SumFunction([p \in Uploads |-> us[p].held]) = 0
  BY NothingHeld, HeldNat DEF Held

\* The store starts empty.
LEMMA InitInv == Init => IInv
  <1> SUFFICES ASSUME Init PROVE IInv
    OBVIOUS
  <1>1. TypeOK
    BY IdleOK DEF Init, TypeOK, NoRequests
  <1>2. ClosedIsEmpty /\ FilesApart
    BY IdleOK DEF Init, ClosedIsEmpty, FilesApart
  <1>3. ReservationsAddUp
    BY StartInv DEF Init, ReservationsAddUp
  <1> QED BY <1>1, <1>2, <1>3 DEF IInv

\* Every step keeps the inductive invariant.
LEMMA StepInv == IInv /\ [Next]_vars => IInv'
  <1> SUFFICES ASSUME IInv, [Next]_vars PROVE IInv'
    OBVIOUS
  <1>1. ASSUME NEW p \in Uploads, UploadStep(p) PROVE IInv'
    BY <1>1, UploadInv, PrepareInv, AddMessageInv DEF UploadStep
  <1>2. CASE Tick
    BY <1>2 DEF Tick, IInv, TypeOK, ClosedIsEmpty, FilesApart, ReservationsAddUp, dbVars
  <1>3. CASE Restart
    <2>1. TypeOK'
      BY <1>3, IdleOK DEF Restart, IInv, TypeOK, dbVars
    <2>2. ClosedIsEmpty' /\ FilesApart'
      BY <1>3, IdleOK DEF Restart, ClosedIsEmpty, FilesApart
    <2>3. ReservationsAddUp'
      BY <1>3, StartInv DEF Restart, ReservationsAddUp
    <2> QED BY <2>1, <2>2, <2>3 DEF IInv
  <1>4. CASE UNCHANGED vars
    BY <1>4 DEF vars, IInv, TypeOK, ClosedIsEmpty, FilesApart, ReservationsAddUp, dbVars
  <1> QED BY <1>1, <1>2, <1>3, <1>4, UserInv, PassInv DEF Next

\* The inductive invariant holds in every reachable state.
LEMMA Invariant == Spec => []IInv
  BY InitInv, StepInv, PTL DEF Spec

\* The tables, the uploads and the pass keep their types; a row belongs to a
\* message, and what is on disk was drawn.
THEOREM TypeCorrect == Spec => []TypeOK
  <1>1. IInv => TypeOK
    BY DEF IInv
  <1> QED BY <1>1, Invariant, PTL

\* Service.reserved is what the open batches hold: reserve, Rollback (called
\* twice after a failed Commit), Commit and a restart leave no share behind and
\* give none back twice, for any number of concurrent uploads.
THEOREM ReservationsBalance == Spec => []ReservationsAddUp
  <1>1. IInv => ReservationsAddUp
    BY DEF IInv
  <1> QED BY <1>1, Invariant, PTL

-----------------------------------------------------------------------------
(* Quotas.  reserve admits a batch by MaxArchive a file, whatever the      *)
(* files turn out to be, and does not see an upload between the end of     *)
(* Commit, which gives the reservation back, and AddMessage, which writes  *)
(* the rows.  Both gaps are bounded by the uploads in flight.              *)

\* A full batch of the largest files, and what reserve does not count of it.
MaxBatch == MaxFiles * MaxFile
Unseen   == MaxFiles * (MaxFile - MaxArchive)

\* A batch is as large as its files allow.
BatchOK(q) ==
    /\ q.pc # "idle" => Cardinality(q.files) <= MaxFiles
    /\ q.pc \in Open => q.held = Cardinality(q.files) * MaxArchive
    /\ q.pc \in {"send", "move", "add"} => \A f \in q.files : q.bytes[f] <= MaxFile
BatchesOK == \A p \in Uploads : BatchOK(up[p])

\* What an upload may add to what is stored: at worst its number of the largest
\* files, and from the end of Commit the files that were made.
Weight(q)      == CASE q.pc \in Open -> Cardinality(q.files) * MaxFile
                    [] q.pc = "add"   -> SumOver(q.bytes, q.files)
                    [] OTHER          -> 0
Share(q, W)    == IF q.user \in W THEN Weight(q) ELSE 0
Carried(us, W) == [p \in Uploads |-> Share(us[p], W)]

\* What the users in W have stored or may be about to store.
Stored(W) == {f \in rows : owner[f] \in W}
Load(W)   == Bytes(Stored(W)) + SumOver(Carried(up, W), Uploads)

LoadsOK ==
    /\ \A u \in Users : Load({u}) <= StoredLimit + Overrun
    /\ Load(Users) <= TotalQuota + Overrun

QInv == BatchesOK /\ LoadsOK

\* No file is larger than MaxFile.
LEMMA LargestFile ==
    /\ MaxFile \in Nat /\ MaxArchive <= MaxFile /\ MaxFile - MaxArchive \in Nat
    /\ \A k \in Kinds : ProcessedSizes(k) \subseteq 1 .. MaxFile
  BY Limits DEF MaxFile, Larger, ProcessedSizes

\* Products of natural numbers.
LEMMA Products ==
    /\ \A a, b \in Nat : a * b \in Nat
    /\ \A a, b, c \in Nat : a <= b => a * c <= b * c
    /\ \A a, b, c \in Int : a * (b - c) = a * b - a * c /\ (a - b) * c = a * c - b * c
    /\ \A a, b, c \in Int : a * (b * c) = b * (a * c)
  OBVIOUS

\* A batch, and the bound, in terms of one another.
LEMMA Bounds ==
    /\ MaxBatch \in Nat /\ Unseen \in Nat /\ Unseen <= MaxBatch
    /\ Cardinality(Uploads) \in Nat /\ Overrun \in Int
    /\ Overrun = Unseen + (Cardinality(Uploads) - 1) * MaxBatch
  <1>1. Cardinality(Uploads) \in Nat
    BY FS_CardinalityType, AttachmentsAssumption
  <1>2. PICK k, n, m, a : k = Cardinality(Uploads) /\ n = MaxFiles /\ m = MaxFile /\ a = MaxArchive
    OBVIOUS
  <1>3. k \in Nat /\ n \in Nat /\ m \in Nat /\ a \in Nat /\ a <= m /\ m - a \in Nat
    BY <1>1, <1>2, LargestFile, Limits
  <1>4. n * m \in Nat /\ n * (m - a) \in Nat /\ n * a \in Nat /\ n * (m - a) = n * m - n * a
    BY ONLY <1>3, Products
  <1>5. k * m \in Nat /\ n * (k * m - a) = n * (k * m) - n * a /\ n * (k * m) = k * (n * m)
    BY ONLY <1>3, Products
  <1>6. (k - 1) * (n * m) = k * (n * m) - 1 * (n * m) /\ k * (n * m) \in Nat
    BY ONLY <1>3, <1>4, Products
  <1>7. n * (k * m - a) = n * (m - a) + (k - 1) * (n * m) /\ n * (k * m - a) \in Int
    BY ONLY <1>4, <1>5, <1>6
  <1> QED BY <1>1, <1>2, <1>4, <1>7 DEF MaxBatch, Unseen, Overrun

\* Sums of bytes are natural numbers.
LEMMA BytesNat ==
    ASSUME NEW b \in [Files -> Nat], NEW F \in SUBSET Files
    PROVE  IsFiniteSet(F) /\ Cardinality(F) \in Nat /\ SumOver(b, F) \in Nat
  <1>1. IsFiniteSet(F)
    BY FS_Subset, AttachmentsAssumption
  <1> QED BY <1>1, FS_CardinalityType, SumNat

\* So is what is carried.
LEMMA WeightNat ==
    ASSUME NEW q \in UploadRecord, NEW W
    PROVE  Weight(q) \in Nat /\ Share(q, W) \in Nat
  <1>1. q.bytes \in [Files -> Nat] /\ q.files \in SUBSET Files
    BY DEF UploadRecord
  <1>2. SumOver(q.bytes, q.files) \in Nat /\ Cardinality(q.files) \in Nat
    BY <1>1, BytesNat
  <1>3. Cardinality(q.files) * MaxFile \in Nat
    BY <1>2, LargestFile, Products
  <1> QED BY <1>2, <1>3 DEF Weight, Share, Open

\* What the uploads carry, one by one and together.
LEMMA CarriedNat ==
    ASSUME NEW us \in [Uploads -> UploadRecord], NEW W
    PROVE  /\ \A p \in Uploads : Carried(us, W)[p] \in Nat /\ Carried(us, W)[p] = Share(us[p], W)
           /\ SumOver(Carried(us, W), Uploads) \in Nat
  <1>1. PICK c : c = Carried(us, W)
    OBVIOUS
  <1>2. \A p \in Uploads : c[p] \in Nat /\ c[p] = Share(us[p], W)
    BY <1>1, WeightNat DEF Carried
  <1>3. SumOver(c, Uploads) \in Nat
    BY <1>2, SumNat, AttachmentsAssumption
  <1> QED BY <1>1, <1>2, <1>3

\* An idle upload carries nothing.
LEMMA IdleCarries == Weight(IdleUpload) = 0
  BY IdleOK DEF Weight, Open

\* One upload changes what it carries.
LEMMA CarriedUpdate ==
    ASSUME NEW us \in [Uploads -> UploadRecord], NEW vs \in [Uploads -> UploadRecord],
           NEW p \in Uploads, \A x \in Uploads \ {p} : vs[x] = us[x], NEW W
    PROVE  SumOver(Carried(vs, W), Uploads)
               = SumOver(Carried(us, W), Uploads) - Share(us[p], W) + Share(vs[p], W)
  <1>2. PICK f, g : f = Carried(us, W) /\ g = Carried(vs, W)
    OBVIOUS
  <1>f. \A x \in Uploads : f[x] \in Nat /\ f[x] = Share(us[x], W)
    BY <1>2, CarriedNat
  <1>g. \A x \in Uploads : g[x] \in Nat /\ g[x] = Share(vs[x], W)
    BY <1>2, CarriedNat
  <1>3. /\ \A x \in Uploads : f[x] \in Nat /\ g[x] \in Nat
        /\ \A x \in Uploads \ {p} : f[x] = g[x]
    BY <1>f, <1>g
  <1>4. SumOver(g, Uploads) = SumOver(f, Uploads) - f[p] + g[p]
    BY ONLY <1>3, p \in Uploads, SumUpdate, AttachmentsAssumption
  <1> QED BY <1>2, <1>4, <1>f, <1>g

\* A load is a natural number.
LoadTyped(W) ==
    /\ Stored(W) \in SUBSET Files /\ Bytes(Stored(W)) = SumOver(size, Stored(W))
    /\ Bytes(Stored(W)) \in Nat /\ SumOver(Carried(up, W), Uploads) \in Nat /\ Load(W) \in Nat

\* Every load is one.
LEMMA LoadNat == TypeOK => \A W : LoadTyped(W)
  <1> SUFFICES ASSUME TypeOK, NEW W PROVE LoadTyped(W)
    OBVIOUS
  <1>1. Stored(W) \in SUBSET Files /\ size \in [Files -> Nat] /\ up \in [Uploads -> UploadRecord]
    BY DEF TypeOK, Stored
  <1>2. Bytes(Stored(W)) = SumOver(size, Stored(W))
    BY DEF Bytes, SumOver
  <1>3. SumOver(size, Stored(W)) \in Nat
    BY <1>1, BytesNat
  <1>4. SumOver(Carried(up, W), Uploads) \in Nat
    <2>1. PICK us : us = up
      OBVIOUS
    <2> QED BY <1>1, <2>1, CarriedNat
  <1> QED BY <1>1, <1>2, <1>3, <1>4 DEF Load, LoadTyped

\* Also in the next state.
LEMMA LoadNatNext == TypeOK' => \A W : LoadTyped(W)'
  <1>1. (TypeOK => \A W : LoadTyped(W))'
    BY LoadNat, PTL
  <1> QED BY <1>1

\* The limit of an account only grows with its age.
LEMMA StoredLimitGrows ==
    ASSUME now \in Nat, now' \in Nat, now <= now'
    PROVE  StoredLimit \in Nat /\ StoredLimit' \in Nat /\ StoredLimit <= StoredLimit' /\ Overrun \in Int
  BY Bounds, Limits DEF StoredLimit, IsNew, Smaller

\* The limits hold again when no load grows.
LEMMA LoadsShrink ==
    ASSUME TypeOK, TypeOK', LoadsOK, now <= now',
           \A W \in SUBSET Users : Load(W)' <= Load(W)
    PROVE  LoadsOK'
  <1>1. now \in Nat /\ now' \in Nat
    BY DEF TypeOK
  <1>2. StoredLimit \in Nat /\ StoredLimit' \in Nat /\ StoredLimit <= StoredLimit' /\ Overrun \in Int
    BY <1>1, StoredLimitGrows
  <1>3. ASSUME NEW W \in SUBSET Users PROVE Load(W) \in Nat /\ Load(W)' \in Nat /\ Load(W)' <= Load(W)
    <2>1. Load(W) \in Nat
      BY LoadNat DEF LoadTyped
    <2>2. Load(W)' \in Nat
      BY LoadNatNext DEF LoadTyped
    <2> QED BY <2>1, <2>2
  <1>4. ASSUME NEW u \in Users PROVE Load({u})' <= StoredLimit' + Overrun
    <2>1. Load({u}) <= StoredLimit + Overrun
      BY DEF LoadsOK
    <2>2. Load({u}) \in Nat /\ Load({u})' \in Nat /\ Load({u})' <= Load({u})
      BY <1>3
    <2> QED BY ONLY <1>2, <2>1, <2>2
  <1>5. Load(Users)' <= TotalQuota + Overrun
    <2>1. Load(Users) <= TotalQuota + Overrun
      BY DEF LoadsOK
    <2>2. Load(Users) \in Nat /\ Load(Users)' \in Nat /\ Load(Users)' <= Load(Users)
      BY <1>3
    <2> QED BY ONLY <1>2, <2>1, <2>2, Limits
  <1> QED BY <1>4, <1>5 DEF LoadsOK, Overrun, MaxFile, Larger

\* What is carried after a step of one upload.
LEMMA CarriedStep ==
    ASSUME TypeOK, NEW p \in Uploads, NEW q \in UploadRecord, up' = [up EXCEPT ![p] = q], NEW W
    PROVE  /\ SumOver(Carried(up, W), Uploads)'
                  = SumOver(Carried(up, W), Uploads) - Share(up[p], W) + Share(q, W)
           /\ Share(up[p], W) \in Nat /\ Share(q, W) \in Nat
           /\ Weight(up[p]) \in Nat /\ Weight(q) \in Nat
  <1>1. PICK us, vs : us = up /\ vs = up'
    OBVIOUS
  <1>2. /\ us \in [Uploads -> UploadRecord] /\ vs \in [Uploads -> UploadRecord]
        /\ vs[p] = q /\ \A x \in Uploads \ {p} : vs[x] = us[x]
    BY <1>1 DEF TypeOK
  <1>3. SumOver(Carried(vs, W), Uploads) = SumOver(Carried(us, W), Uploads) - Share(us[p], W) + Share(vs[p], W)
    BY ONLY <1>2, p \in Uploads, CarriedUpdate
  <1>4. up[p] \in UploadRecord
    BY DEF TypeOK
  <1> QED BY <1>1, <1>2, <1>3, <1>4, WeightNat

\* What is stored is as large as before when its rows are the same.
LEMMA StoredSame ==
    ASSUME TypeOK, TypeOK', UNCHANGED <<rows, owner, size>>, NEW W
    PROVE  Bytes(Stored(W))' = Bytes(Stored(W)) /\ Bytes(Stored(W)) \in Nat
  <1>1. Bytes(Stored(W)) = SumOver(size, Stored(W)) /\ Bytes(Stored(W)) \in Nat
    BY LoadNat DEF LoadTyped
  <1>2. Bytes(Stored(W))' = SumOver(size', Stored(W)')
    BY LoadNatNext DEF LoadTyped
  <1>3. Stored(W)' = Stored(W) /\ size' = size
    BY DEF Stored
  <1> QED BY <1>1, <1>2, <1>3

\* An upload moves on and carries no more than before.
LEMMA UploadLoads ==
    ASSUME IInv, QInv, TypeOK', NEW p \in Uploads, NEW q \in UploadRecord, up' = [up EXCEPT ![p] = q],
           q.user = up[p].user \/ Weight(q) = 0, Weight(q) <= Weight(up[p]), BatchOK(q),
           UNCHANGED <<now, rows, owner, size>>
    PROVE  QInv'
  <1>1. TypeOK /\ LoadsOK /\ now \in Nat /\ up'[p] = q /\ \A x \in Uploads \ {p} : up'[x] = up[x]
    BY DEF IInv, QInv, TypeOK
  <1>2. BatchesOK'
    BY <1>1 DEF QInv, BatchesOK
  <1>3. ASSUME NEW W \in SUBSET Users PROVE Load(W)' <= Load(W)
    <2>1. Bytes(Stored(W))' = Bytes(Stored(W)) /\ Bytes(Stored(W)) \in Nat
      BY <1>1, StoredSame
    <2>2. /\ SumOver(Carried(up, W), Uploads)'
                 = SumOver(Carried(up, W), Uploads) - Share(up[p], W) + Share(q, W)
          /\ Share(up[p], W) \in Nat /\ Share(q, W) \in Nat
          /\ Weight(up[p]) \in Nat /\ Weight(q) \in Nat
      BY <1>1, CarriedStep
    <2>3. Share(q, W) <= Share(up[p], W)
      BY <2>2 DEF Share
    <2>4. SumOver(Carried(up, W), Uploads) \in Nat
      BY <1>1, LoadNat DEF LoadTyped
    <2>5. /\ Load(W) = Bytes(Stored(W)) + SumOver(Carried(up, W), Uploads)
          /\ Load(W)' = Bytes(Stored(W))' + SumOver(Carried(up, W), Uploads)'
      BY DEF Load
    <2> QED BY ONLY <2>1, <2>2, <2>3, <2>4, <2>5
  <1>4. LoadsOK'
    BY <1>1, <1>3, LoadsShrink
  <1> QED BY <1>2, <1>4 DEF QInv

\* A batch is no larger than its number of the largest files, which is what
\* was reserved for it and what reserve does not count.
LEMMA BatchFits ==
    ASSUME NEW q \in UploadRecord, BatchOK(q), q.pc # "idle"
    PROVE  /\ Cardinality(q.files) * MaxFile \in Nat
           /\ Cardinality(q.files) * MaxFile <= MaxBatch
           /\ Cardinality(q.files) * MaxFile <= Cardinality(q.files) * MaxArchive + Unseen
           /\ Cardinality(q.files) * MaxArchive \in Nat
           /\ q.pc \in {"send", "move", "add"} =>
                 /\ SumOver(q.bytes, q.files) \in Nat
                 /\ SumOver(q.bytes, q.files) <= Cardinality(q.files) * MaxFile
  <1>1. q.bytes \in [Files -> Nat] /\ q.files \in SUBSET Files
    BY DEF UploadRecord
  <1>2. IsFiniteSet(q.files) /\ Cardinality(q.files) \in Nat /\ SumOver(q.bytes, q.files) \in Nat
    BY <1>1, BytesNat
  <1>3. PICK b, F, c : b = q.bytes /\ F = q.files /\ c = Cardinality(q.files)
    OBVIOUS
  <1>4. ASSUME q.pc \in {"send", "move", "add"} PROVE SumOver(b, F) <= Cardinality(F) * MaxFile
    <2>1. IsFiniteSet(F) /\ MaxFile \in Nat /\ \A f \in F : b[f] \in Nat /\ b[f] <= MaxFile
      BY <1>1, <1>2, <1>3, <1>4, LargestFile DEF BatchOK
    <2> QED BY ONLY <2>1, SumBound
  <1>5. c \in Nat /\ c <= MaxFiles /\ MaxFiles \in Nat /\ MaxFile \in Nat /\ MaxArchive \in Nat
        /\ MaxFile - MaxArchive \in Nat
    BY <1>2, <1>3, LargestFile, Limits DEF BatchOK
  <1>6. c * MaxFile \in Nat /\ c * MaxArchive \in Nat /\ c * MaxFile <= MaxFiles * MaxFile
        /\ c * (MaxFile - MaxArchive) <= MaxFiles * (MaxFile - MaxArchive)
        /\ c * (MaxFile - MaxArchive) = c * MaxFile - c * MaxArchive
        /\ MaxFiles * (MaxFile - MaxArchive) \in Nat
    BY ONLY <1>5, Products
  <1>7. c * MaxFile <= c * MaxArchive + MaxFiles * (MaxFile - MaxArchive)
    BY ONLY <1>6
  <1> QED BY <1>2, <1>3, <1>4, <1>6, <1>7 DEF MaxBatch, Unseen

\* The steps of an upload that is under way carry no more than before.
LEMMA UploadQuota ==
    ASSUME IInv, QInv, IInv', NEW p \in Uploads,
           \/ Process(p) \/ Reject(p) \/ CommitBegin(p) \/ MoveFile(p)
           \/ CommitFails(p) \/ CommitEnd(p) \/ SendFails(p)
    PROVE  QInv'
  <1>t. /\ up \in [Uploads -> UploadRecord] /\ up[p] \in UploadRecord /\ now \in Nat
        /\ BatchOK(up[p]) /\ TypeOK' /\ Weight(up[p]) \in Nat /\ up[p].held \in Nat
        /\ up[p].files \in SUBSET Files
    BY WeightNat DEF IInv, TypeOK, QInv, BatchesOK, UploadRecord
  <1>u. UNCHANGED <<now, rows, owner, size>>
    BY DEF Process, Reject, CommitBegin, MoveFile, CommitFails, CommitEnd, SendFails, dbVars
  <1>e. ASSUME NEW q \in UploadRecord, up' = [up EXCEPT ![p] = q], BatchOK(q),
               q.user = up[p].user, Weight(q) <= Weight(up[p])
        PROVE  QInv'
    BY <1>e, <1>t, <1>u, UploadLoads
  <1>1. CASE Process(p)
    <2>1. PICK made \in [up[p].files -> UNION {ProcessedSizes(k) : k \in Kinds}] :
             up' = [up EXCEPT ![p].pc = "send",
                              ![p].bytes = [f \in Files |-> IF f \in up[p].files THEN made[f] ELSE 0]]
      BY <1>1 DEF Process
    <2> DEFINE b == [f \in Files |-> IF f \in up[p].files THEN made[f] ELSE 0]
               q == [up[p] EXCEPT !.pc = "send", !.bytes = b]
    <2>2. \A f \in up[p].files : made[f] \in Nat /\ made[f] <= MaxFile
      BY LargestFile
    <2>3. b \in [Files -> Nat] /\ \A f \in up[p].files : b[f] <= MaxFile
      BY <1>t, <2>2
    <2>4. up' = [up EXCEPT ![p] = q]
      BY <1>t, <2>1
    <2> HIDE DEF b
    <2>5. /\ q \in UploadRecord /\ q.files = up[p].files /\ q.held = up[p].held
          /\ q.user = up[p].user /\ q.pc = "send" /\ q.bytes = b /\ up[p].pc = "process"
      BY <1>1, <1>t, <2>3 DEF UploadRecord, UploadPC, Process
    <2> HIDE DEF q
    <2>6. BatchOK(q)
      BY <1>t, <2>3, <2>5 DEF BatchOK, Open
    <2>7. Weight(q) <= Weight(up[p])
      BY <1>t, <2>5 DEF Weight, Open
    <2> QED BY <1>e, <2>4, <2>5, <2>6, <2>7
  <1>2. CASE Reject(p) \/ SendFails(p)
    <2>1. up' = [up EXCEPT ![p] = IdleUpload]
      BY <1>2 DEF Reject, SendFails
    <2>2. BatchOK(IdleUpload) /\ Weight(IdleUpload) = 0 /\ IdleUpload \in UploadRecord
      BY IdleOK, IdleCarries DEF BatchOK, Open
    <2>3. Weight(IdleUpload) <= Weight(up[p])
      BY <1>t, <2>2
    <2> QED BY <1>t, <1>u, <2>1, <2>2, <2>3, UploadLoads
  <1>3. CASE CommitBegin(p)
    <2> DEFINE q == [up[p] EXCEPT !.pc = "move", !.at = now]
    <2>1. up' = [up EXCEPT ![p] = q]
      BY <1>t, <1>3 DEF CommitBegin
    <2>2. /\ q \in UploadRecord /\ q.files = up[p].files /\ q.held = up[p].held
          /\ q.user = up[p].user /\ q.pc = "move" /\ q.bytes = up[p].bytes /\ up[p].pc = "send"
      BY <1>3, <1>t DEF UploadRecord, UploadPC, CommitBegin
    <2> HIDE DEF q
    <2>3. BatchOK(q) /\ Weight(q) <= Weight(up[p])
      BY <1>t, <2>2 DEF BatchOK, Open, Weight
    <2> QED BY <1>e, <2>1, <2>2, <2>3
  <1>4. CASE MoveFile(p)
    <2>1. PICK f \in up[p].files : up' = [up EXCEPT ![p].moved = @ \cup {f}]
      BY <1>4 DEF MoveFile
    <2> DEFINE q == [up[p] EXCEPT !.moved = @ \cup {f}]
    <2>2. up' = [up EXCEPT ![p] = q]
      BY <1>t, <2>1
    <2>3. /\ q \in UploadRecord /\ q.files = up[p].files /\ q.held = up[p].held
          /\ q.user = up[p].user /\ q.pc = "move" /\ q.bytes = up[p].bytes /\ up[p].pc = "move"
      BY <1>4, <1>t, <2>1 DEF UploadRecord, MoveFile
    <2> HIDE DEF q
    <2>4. BatchOK(q) /\ Weight(q) <= Weight(up[p])
      BY <1>t, <2>3 DEF BatchOK, Open, Weight
    <2> QED BY <1>e, <2>2, <2>3, <2>4
  <1>5. CASE CommitFails(p)
    <2> DEFINE q == [up[p] EXCEPT !.pc = "failed", !.held = 0, !.closed = TRUE]
    <2>1. up' = [up EXCEPT ![p] = q]
      BY <1>t, <1>5 DEF CommitFails
    <2>2. /\ q \in UploadRecord /\ q.files = up[p].files /\ q.held = 0
          /\ q.user = up[p].user /\ q.pc = "failed" /\ up[p].pc = "move"
      BY <1>5, <1>t DEF UploadRecord, UploadPC, CommitFails
    <2> HIDE DEF q
    <2>3. BatchOK(q) /\ Weight(q) <= Weight(up[p])
      BY <1>t, <2>2 DEF BatchOK, Open, Weight
    <2> QED BY <1>e, <2>1, <2>2, <2>3
  <1>6. CASE CommitEnd(p)
    <2> DEFINE q == [up[p] EXCEPT !.pc = "add", !.held = 0, !.closed = TRUE]
    <2>1. up' = [up EXCEPT ![p] = q]
      BY <1>t, <1>6 DEF CommitEnd
    <2>2. /\ q \in UploadRecord /\ q.files = up[p].files /\ q.held = 0 /\ q.bytes = up[p].bytes
          /\ q.user = up[p].user /\ q.pc = "add" /\ up[p].pc = "move"
      BY <1>6, <1>t DEF UploadRecord, UploadPC, CommitEnd
    <2> HIDE DEF q
    <2>3. BatchOK(q)
      BY <1>t, <2>2 DEF BatchOK, Open
    <2>4. /\ SumOver(up[p].bytes, up[p].files) \in Nat
          /\ SumOver(up[p].bytes, up[p].files) <= Cardinality(up[p].files) * MaxFile
      BY <1>t, <2>2, BatchFits
    <2>5. Weight(q) = SumOver(up[p].bytes, up[p].files) /\ Weight(up[p]) = Cardinality(up[p].files) * MaxFile
      BY <2>2 DEF Weight, Open
    <2>6. Weight(q) <= Weight(up[p])
      BY <2>4, <2>5
    <2> QED BY <1>e, <2>1, <2>2, <2>3, <2>6
  <1> QED BY <1>1, <1>2, <1>3, <1>4, <1>5, <1>6

\* AddMessage turns what was carried into what is stored.
LEMMA AddMessageQuota ==
    ASSUME IInv, QInv, IInv', NEW p \in Uploads, AddMessage(p)
    PROVE  QInv'
  <1>t. /\ TypeOK /\ TypeOK' /\ up \in [Uploads -> UploadRecord] /\ up[p] \in UploadRecord
        /\ up[p].pc = "add" /\ up[p].held = 0 /\ up[p].files \in SUBSET Files /\ up[p].bytes \in [Files -> Nat]
        /\ size \in [Files -> Nat] /\ size' \in [Files -> Nat] /\ rows \subseteq Files /\ LoadsOK
    <2>1. /\ TypeOK /\ TypeOK' /\ LoadsOK /\ ClosedIsEmpty
      BY DEF IInv, QInv
    <2>2. /\ up \in [Uploads -> UploadRecord] /\ size \in [Files -> Nat] /\ rows \subseteq Files
          /\ size' \in [Files -> Nat]
      BY <2>1 DEF TypeOK
    <2>3. up[p].files \in SUBSET Files /\ up[p].bytes \in [Files -> Nat]
      BY <2>2 DEF UploadRecord
    <2>4. up[p].pc = "add" /\ up[p].held = 0
      BY <2>1 DEF AddMessage, ClosedIsEmpty, Open
    <2> QED BY <2>1, <2>2, <2>3, <2>4
  <1>1. PICK F : F = up[p].files
    OBVIOUS
  <1>2. /\ rows' = rows \cup F /\ up' = [up EXCEPT ![p] = IdleUpload] /\ now' = now
        /\ owner' = [f \in Files |-> IF f \in F THEN up[p].user ELSE owner[f]]
        /\ size' = [f \in Files |-> IF f \in F THEN up[p].bytes[f] ELSE size[f]]
    BY <1>1 DEF AddMessage
  <1>3. F \cap rows = {} /\ F \in SUBSET Files /\ now <= now'
    BY <1>1, <1>2, <1>t DEF IInv, FilesApart, TypeOK
  <1>4. BatchesOK'
    <2>1. up'[p] = IdleUpload /\ \A x \in Uploads \ {p} : up'[x] = up[x]
      BY <1>2, <1>t
    <2> QED BY <2>1, IdleOK DEF QInv, BatchesOK, BatchOK, Open
  <1>5. ASSUME NEW W \in SUBSET Users PROVE Load(W)' <= Load(W)
    <2>1. /\ SumOver(Carried(up, W), Uploads)'
                 = SumOver(Carried(up, W), Uploads) - Share(up[p], W) + Share(IdleUpload, W)
          /\ Share(up[p], W) \in Nat /\ Share(IdleUpload, W) = 0
      BY <1>2, <1>t, IdleOK, IdleCarries, CarriedStep DEF Share
    <2>2. /\ Bytes(Stored(W)) = SumOver(size, Stored(W)) /\ Stored(W) \in SUBSET Files
          /\ Bytes(Stored(W)) \in Nat /\ SumOver(Carried(up, W), Uploads) \in Nat
      BY <1>t, LoadNat DEF LoadTyped
    <2>3. Bytes(Stored(W))' = SumOver(size', Stored(W)')
      BY <1>t, LoadNatNext DEF LoadTyped
    <2>4. PICK z, y, b, S : z = size /\ y = size' /\ b = up[p].bytes /\ S = Stored(W)
      OBVIOUS
    <2>5. SumOver(y, S) = SumOver(z, S)
      <3>1. IsFiniteSet(S) /\ \A f \in S : y[f] = z[f]
        <4>1. IsFiniteSet(S)
          BY <1>t, <2>2, <2>4, BytesNat
        <4>2. S \in SUBSET Files /\ S \cap F = {}
          BY <1>3, <2>2, <2>4 DEF Stored
        <4> QED BY <1>2, <2>4, <4>1, <4>2
      <3> QED BY ONLY <3>1, SumSame
    <2>6. SumOver(y, F) = SumOver(b, F) /\ IsFiniteSet(F)
      <3>1. IsFiniteSet(F)
        BY <1>t, <1>3, BytesNat
      <3>2. \A f \in F : y[f] = b[f]
        BY <1>2, <1>3, <2>4
      <3> QED BY ONLY <3>1, <3>2, SumSame
    <2>7. CASE up[p].user \in W
      <3>1. Stored(W)' = S \cup F
        BY <1>2, <1>3, <2>4, <2>7, <1>t DEF Stored
      <3>2. SumOver(y, S \cup F) = SumOver(y, S) + SumOver(y, F)
        <4>1. IsFiniteSet(S) /\ S \cap F = {}
          BY <1>t, <1>3, <2>2, <2>4, BytesNat DEF Stored
        <4>2. \A f \in S \cup F : y[f] \in Nat
          BY <1>t, <1>3, <2>2, <2>4
        <4> QED BY ONLY <2>6, <4>1, <4>2, SumDisjoint
      <3>3. Share(up[p], W) = SumOver(b, F)
        <4>1. SumOver(b, F) \in Nat
          BY <1>t, <1>1, <2>4, BytesNat
        <4> QED BY <1>t, <1>1, <2>4, <2>7, <4>1 DEF Share, Weight
      <3>4. Bytes(Stored(W))' = Bytes(Stored(W)) + Share(up[p], W)
        BY <2>2, <2>3, <2>4, <2>5, <2>6, <3>1, <3>2, <3>3
      <3> QED BY <2>1, <2>2, <3>4 DEF Load
    <2>8. CASE up[p].user \notin W
      <3>1. Stored(W)' = S
        BY <1>2, <1>3, <2>4, <2>8, <1>t DEF Stored
      <3>2. Bytes(Stored(W))' = Bytes(Stored(W)) /\ Share(up[p], W) = 0
        BY <2>2, <2>3, <2>4, <2>5, <2>8, <3>1 DEF Share
      <3> QED BY <2>1, <2>2, <3>2 DEF Load
    <2> QED BY <2>7, <2>8
  <1>6. LoadsOK'
    BY <1>t, <1>3, <1>5, LoadsShrink
  <1> QED BY <1>4, <1>6 DEF QInv

\* Rows that go, and a later hour, leave room.
LEMMA RowsGo ==
    ASSUME IInv, QInv, IInv', rows' \subseteq rows, now <= now', UNCHANGED <<owner, size, up>>
    PROVE  QInv'
  <1>t. TypeOK /\ TypeOK' /\ LoadsOK /\ size \in [Files -> Nat]
    BY DEF IInv, QInv, TypeOK
  <1>1. BatchesOK'
    BY DEF QInv, BatchesOK
  <1>2. ASSUME NEW W \in SUBSET Users PROVE Load(W)' <= Load(W)
    <2>1. /\ Bytes(Stored(W)) = SumOver(size, Stored(W)) /\ Stored(W) \in SUBSET Files
          /\ Bytes(Stored(W)) \in Nat /\ SumOver(Carried(up, W), Uploads) \in Nat
      BY <1>t, LoadNat DEF LoadTyped
    <2>2. Bytes(Stored(W))' = SumOver(size, Stored(W)') /\ Bytes(Stored(W))' \in Nat
      BY <1>t, LoadNatNext DEF LoadTyped
    <2>3. Stored(W)' \in SUBSET Stored(W)
      BY DEF Stored
    <2>4. Bytes(Stored(W))' <= Bytes(Stored(W))
      <3>1. PICK z, S, T : z = size /\ S = Stored(W) /\ T = Stored(W)'
        OBVIOUS
      <3>2. T \in SUBSET S /\ IsFiniteSet(S) /\ \A f \in S : z[f] \in Nat
        BY <1>t, <2>1, <2>3, <3>1, BytesNat
      <3>3. SumOver(z, T) <= SumOver(z, S)
        BY ONLY <3>2, SumSubset
      <3> QED BY <2>1, <2>2, <3>1, <3>3
    <2>5. SumOver(Carried(up, W), Uploads)' = SumOver(Carried(up, W), Uploads)
      BY DEF Carried
    <2> QED BY <2>1, <2>2, <2>4, <2>5 DEF Load
  <1>3. LoadsOK'
    BY <1>t, <1>2, LoadsShrink
  <1> QED BY <1>1, <1>3 DEF QInv

\* A restart drops what was carried.
LEMMA RestartQuota ==
    ASSUME IInv, QInv, IInv', Restart
    PROVE  QInv'
  <1>t. /\ TypeOK /\ TypeOK' /\ LoadsOK /\ up \in [Uploads -> UploadRecord] /\ up' \in [Uploads -> UploadRecord]
        /\ now \in Nat
    BY DEF IInv, QInv, TypeOK
  <1>1. UNCHANGED <<now, rows, owner, size>> /\ up' = [x \in Uploads |-> IdleUpload]
    BY DEF Restart, dbVars
  <1>2. BatchesOK'
    BY <1>1, IdleOK DEF BatchesOK, BatchOK, Open
  <1>3. ASSUME NEW W \in SUBSET Users PROVE Load(W)' <= Load(W)
    <2>1. Bytes(Stored(W))' = Bytes(Stored(W)) /\ Bytes(Stored(W)) \in Nat
      BY <1>t, <1>1, StoredSame
    <2>2. SumOver(Carried(up, W), Uploads) \in Nat
      BY <1>t, LoadNat DEF LoadTyped
    <2>3. SumOver(Carried(up, W), Uploads)' \in Nat
      BY <1>t, LoadNatNext DEF LoadTyped
    <2>4. SumOver(Carried(up, W), Uploads)' <= SumOver(Carried(up, W), Uploads)
      <3>1. PICK us, vs : us = up /\ vs = up'
        OBVIOUS
      <3>2. PICK f, g : f = Carried(us, W) /\ g = Carried(vs, W)
        OBVIOUS
      <3>3. \A x \in Uploads : f[x] \in Nat
        BY <1>t, <3>1, <3>2, CarriedNat
      <3>4. \A x \in Uploads : g[x] = 0
        <4>1. Share(IdleUpload, W) = 0
          BY IdleCarries DEF Share
        <4> QED BY <1>1, <3>1, <3>2, <4>1 DEF Carried
      <3>5. \A x \in Uploads : g[x] \in Nat /\ f[x] \in Nat /\ g[x] <= f[x]
        BY <3>3, <3>4
      <3>6. SumOver(g, Uploads) <= SumOver(f, Uploads)
        BY ONLY <3>5, SumMonotone, AttachmentsAssumption
      <3> QED BY <3>1, <3>2, <3>6
    <2> QED BY <2>1, <2>2, <2>3, <2>4 DEF Load
  <1>4. LoadsOK'
    BY <1>t, <1>1, <1>3, LoadsShrink
  <1> QED BY <1>2, <1>4 DEF QInv

\* While one upload is open, the uploads together carry no more than what is
\* reserved and the bound.
LEMMA InFlight ==
    ASSUME NEW us \in [Uploads -> UploadRecord], \A x \in Uploads : BatchOK(us[x]),
           NEW p \in Uploads, us[p].pc # "add", NEW W
    PROVE  SumOver(Carried(us, W), Uploads) <= SumOver(Held(us), Uploads) + Overrun
  <1> DEFINE extra == [x \in Uploads |-> IF x = p THEN Unseen ELSE MaxBatch]
  <1>t. /\ IsFiniteSet(Uploads) /\ MaxBatch \in Nat /\ Unseen \in Nat /\ Unseen <= MaxBatch
        /\ Cardinality(Uploads) \in Nat /\ Overrun \in Int
        /\ Overrun = Unseen + (Cardinality(Uploads) - 1) * MaxBatch
    BY AttachmentsAssumption, Bounds
  <1>1. PICK c, h, e : c = Carried(us, W) /\ h = Held(us) /\ e = extra
    OBVIOUS
  <1>2. \A x \in Uploads : c[x] \in Nat /\ c[x] = Share(us[x], W)
    BY <1>1, CarriedNat
  <1>3. \A x \in Uploads : h[x] \in Nat /\ h[x] = us[x].held
    BY <1>1, HeldNat
  <1>4. \A x \in Uploads : e[x] \in Nat /\ e[x] = IF x = p THEN Unseen ELSE MaxBatch
    BY <1>1, <1>t
  <1> HIDE DEF extra
  <1>5. ASSUME NEW x \in Uploads PROVE c[x] <= h[x] + e[x]
    <2>1. Share(us[x], W) <= Weight(us[x]) /\ Weight(us[x]) \in Nat
      BY WeightNat DEF Share
    <2>2. CASE us[x].pc = "add"
      <3>1. PICK s, m : s = SumOver(us[x].bytes, us[x].files) /\ m = Cardinality(us[x].files) * MaxFile
        OBVIOUS
      <3>2. s \in Nat /\ m \in Nat /\ s <= m /\ m <= MaxBatch
        BY <2>2, <3>1, BatchFits
      <3>3. Weight(us[x]) = s
        BY <2>2, <3>1 DEF Weight, Open
      <3>4. e[x] = MaxBatch
        BY <1>4, <2>2
      <3> QED BY <1>2, <1>3, <1>t, <2>1, <3>2, <3>3, <3>4
    <2>3. CASE us[x].pc \in Open
      <3>1. PICK h0, m : h0 = Cardinality(us[x].files) * MaxArchive /\ m = Cardinality(us[x].files) * MaxFile
        OBVIOUS
      <3>2. h0 \in Nat /\ m \in Nat /\ m <= h0 + Unseen
        BY <2>3, <3>1, BatchFits DEF Open
      <3>3. Weight(us[x]) = m
        BY <2>3, <3>1 DEF Weight, Open
      <3>5. h[x] = h0
        BY <1>3, <2>3, <3>1 DEF BatchOK
      <3>4. Unseen <= e[x]
        BY <1>4, <1>t
      <3> QED BY <1>2, <1>3, <1>4, <1>t, <2>1, <3>2, <3>3, <3>4, <3>5
    <2>4. CASE us[x].pc \notin Open /\ us[x].pc # "add"
      <3>1. Weight(us[x]) = 0
        BY <2>4 DEF Weight
      <3> QED BY <1>2, <1>3, <1>4, <2>1, <3>1
    <2> QED BY <2>2, <2>3, <2>4
  <1>6. \A x \in Uploads : h[x] \in Nat /\ e[x] \in Nat /\ c[x] \in Nat /\ c[x] <= h[x] + e[x]
    BY <1>2, <1>3, <1>4, <1>5
  <1>7. SumOver(c, Uploads) <= SumOver(h, Uploads) + SumOver(e, Uploads)
    BY ONLY <1>t, <1>6, SumSplit
  <1>8. SumOver(e, Uploads) <= Overrun
    <2>1. IsFiniteSet(Uploads \ {p}) /\ Cardinality(Uploads \ {p}) = Cardinality(Uploads) - 1
      BY <1>t, FS_RemoveElement
    <2>2. e[p] = Unseen /\ \A x \in Uploads : e[x] \in Nat /\ e[x] <= MaxBatch
      BY <1>t, <1>4
    <2>3. SumOver(e, Uploads) = e[p] + SumOver(e, Uploads \ {p})
      <3>1. IsFiniteSet(Uploads) /\ \A x \in Uploads : e[x] \in Nat
        BY <1>t, <2>2
      <3> QED BY ONLY <3>1, p \in Uploads, SumRemove
    <2>4. \A x \in Uploads \ {p} : e[x] \in Nat /\ e[x] <= MaxBatch
      BY <2>2
    <2>5. SumOver(e, Uploads \ {p}) <= Cardinality(Uploads \ {p}) * MaxBatch
      BY ONLY <1>t, <2>1, <2>4, SumBound
    <2>6. SumOver(e, Uploads \ {p}) \in Nat
      BY ONLY <2>1, <2>4, SumNat
    <2> QED BY <1>t, <2>1, <2>2, <2>3, <2>5, <2>6
  <1>9. SumOver(c, Uploads) \in Nat /\ SumOver(h, Uploads) \in Nat /\ SumOver(e, Uploads) \in Nat
    BY ONLY <1>t, <1>6, SumNat
  <1> QED BY <1>t, <1>1, <1>7, <1>8, <1>9

\* reserve admits an upload only where its batch fits next to what is stored
\* and reserved; what it does not see is bounded by InFlight.
LEMMA PrepareQuota ==
    ASSUME IInv, QInv, IInv', NEW p \in Uploads, NEW u \in Users, NEW F \in SUBSET (Files \ drawn), Prepare(p, u, F)
    PROVE  QInv'
  <1>1. PICK bytes : bytes = Cardinality(F) * MaxArchive
    OBVIOUS
  <1> DEFINE q == [IdleUpload EXCEPT !.pc = "process", !.user = u, !.files = F, !.held = bytes]
  <1>2. /\ up' = [up EXCEPT ![p] = q] /\ up[p].pc = "idle" /\ reserved' = reserved + bytes
        /\ Cardinality(F) <= MaxFiles /\ WithinQuota(u, bytes)
        /\ UNCHANGED <<now, rows, owner, size>>
    BY <1>1 DEF Prepare, dbVars
  <1>3. bytes \in Nat
    <2>1. F \in SUBSET Files /\ NoBytes \in [Files -> Nat]
      BY IdleOK
    <2>2. Cardinality(F) \in Nat
      BY <2>1, BytesNat
    <2> QED BY <1>1, <2>2, Limits
  <1>4. /\ q \in UploadRecord /\ q.pc = "process" /\ q.user = u /\ q.files = F /\ q.held = bytes
    BY <1>3, IdleOK DEF UploadRecord, UploadPC
  <1> HIDE DEF q
  <1>t. /\ TypeOK /\ TypeOK' /\ LoadsOK /\ now \in Nat /\ reserved \in Nat
        /\ up[p].held = 0 /\ up \in [Uploads -> UploadRecord] /\ up' \in [Uploads -> UploadRecord]
    BY <1>2 DEF IInv, QInv, TypeOK, ClosedIsEmpty, Open
  <1>5. BatchesOK'
    <2>1. BatchOK(q)
      BY <1>1, <1>2, <1>4 DEF BatchOK, Open
    <2>2. up'[p] = q /\ \A x \in Uploads \ {p} : up'[x] = up[x]
      BY <1>2, <1>t
    <2> QED BY <2>1, <2>2 DEF QInv, BatchesOK
  <1>6. StoredLimit' = StoredLimit /\ StoredLimit \in Nat /\ Overrun \in Int
    BY <1>2, <1>t, StoredLimitGrows DEF StoredLimit, IsNew
  <1>7. ASSUME NEW W \in SUBSET Users
        PROVE  /\ Load(W)' <= Bytes(Stored(W)) + reserved + bytes + Overrun
               /\ Bytes(Stored(W)) \in Nat /\ Load(W)' \in Int /\ Load(W) \in Int
    <2>1. Bytes(Stored(W))' = Bytes(Stored(W)) /\ Bytes(Stored(W)) \in Nat
      BY <1>t, <1>2, StoredSame
    <2>2. SumOver(Carried(up, W), Uploads)' \in Nat /\ Load(W)' \in Nat
      BY <1>t, LoadNatNext DEF LoadTyped
    <2>3. Load(W) \in Nat
      BY <1>t, LoadNat DEF LoadTyped
    <2>4. PICK us : us = up'
      OBVIOUS
    <2>5. us \in [Uploads -> UploadRecord] /\ (\A x \in Uploads : BatchOK(us[x])) /\ us[p].pc # "add"
      BY <1>2, <1>4, <1>5, <1>t, <2>4 DEF BatchesOK
    <2>6. SumOver(Carried(us, W), Uploads) <= SumOver(Held(us), Uploads) + Overrun
      BY <2>5, InFlight
    <2>7. reserved' = SumOver(Held(us), Uploads)
      <3>1. reserved' = SumFunction(Held(us))
        BY <2>4 DEF IInv, ReservationsAddUp, Held
      <3> QED BY <2>5, <3>1, HeldNat
    <2>8. SumOver(Carried(up, W), Uploads)' <= reserved + bytes + Overrun
      BY <1>2, <2>4, <2>6, <2>7
    <2>9. Load(W)' = Bytes(Stored(W))' + SumOver(Carried(up, W), Uploads)'
      BY DEF Load
    <2> QED BY <1>3, <1>6, <1>t, <2>1, <2>2, <2>3, <2>8, <2>9
  <1>8. ASSUME NEW v \in Users, v # u PROVE Load({v})' = Load({v})
    <2>1. Bytes(Stored({v}))' = Bytes(Stored({v}))
      BY <1>t, <1>2, StoredSame
    <2>2. /\ SumOver(Carried(up, {v}), Uploads)'
                 = SumOver(Carried(up, {v}), Uploads) - Share(up[p], {v}) + Share(q, {v})
      BY <1>2, <1>4, <1>t, CarriedStep
    <2>3. Share(q, {v}) = 0 /\ Share(up[p], {v}) = 0
      BY <1>2, <1>4, <1>8, <1>t DEF Share, Weight, Open
    <2>4. SumOver(Carried(up, {v}), Uploads) \in Nat
      BY <1>t, LoadNat DEF LoadTyped
    <2>5. SumOver(Carried(up, {v}), Uploads)' = SumOver(Carried(up, {v}), Uploads)
      BY <2>2, <2>3, <2>4
    <2> QED BY <2>1, <2>5 DEF Load
  <1>9. Stored({u}) = Owned(u) /\ Stored(Users) = rows
    BY <1>t DEF Stored, Owned, TypeOK
  <1>10. /\ Bytes(Stored({u})) + reserved + bytes <= StoredLimit
         /\ Bytes(Stored(Users)) + reserved + bytes <= TotalQuota
    BY <1>2, <1>9 DEF WithinQuota
  <1>11. ASSUME NEW v \in Users PROVE Load({v})' <= StoredLimit' + Overrun
    <2>1. CASE v = u
      BY <1>3, <1>6, <1>7, <1>10, <1>t, <2>1
    <2>2. CASE v # u
      BY <1>6, <1>8, <1>t, <2>2 DEF LoadsOK
    <2> QED BY <2>1, <2>2
  <1>12. Load(Users)' <= TotalQuota + Overrun
    BY <1>3, <1>6, <1>7, <1>10, <1>t, Limits
  <1>13. LoadsOK'
    BY <1>11, <1>12 DEF LoadsOK, Overrun, MaxFile, Larger
  <1> QED BY <1>5, <1>13 DEF QInv

\* The other users' steps and the pass only remove rows.
LEMMA RemovalQuota ==
    ASSUME IInv, QInv, IInv', UserStep \/ PassStep
    PROVE  QInv'
  <1>1. ASSUME UserStep PROVE rows' \subseteq rows /\ UNCHANGED <<now, owner, size, up>>
    BY <1>1 DEF UserStep, DeleteMessage, DeleteUser, ScheduleDeleteAll, CancelDeleteAll, DropMessages
  <1>2. ASSUME PassStep PROVE rows' \subseteq rows /\ UNCHANGED <<now, owner, size, up>>
    BY <1>2 DEF PassStep, ListDueDeleteRequests, RunDelete, RemoveListed, RunDeleteFails,
                ListExpired, RemoveExpired, DeleteRow, ReadDir, HasPath, RemoveOrphan, PassEnd, PassFails, dbVars
  <1>3. rows' \subseteq rows /\ UNCHANGED <<now, owner, size, up>>
    BY <1>1, <1>2
  <1>4. now \in Nat /\ now' = now
    BY <1>3 DEF IInv, TypeOK
  <1>5. now <= now'
    BY <1>4
  <1> QED BY <1>3, <1>5, RowsGo

\* Nothing is stored or carried at the start.
LEMMA InitQuota ==
    ASSUME Uploads # {}, Init
    PROVE  QInv
  <1>1. BatchesOK
    BY IdleOK DEF Init, BatchesOK, BatchOK, Open
  <1>2. IInv /\ TypeOK /\ now \in Nat
    BY InitInv DEF IInv, TypeOK
  <1>3. ASSUME NEW W \in SUBSET Users PROVE Load(W) <= 0
    <2>1. Bytes(Stored(W)) = SumOver(size, Stored(W)) /\ Stored(W) = {}
      BY <1>2, LoadNat DEF LoadTyped, Init, Stored
    <2>2. SumOver(size, {}) = 0
      BY SumEmpty
    <2>3. PICK us : us = up
      OBVIOUS
    <2>4. us = [p \in Uploads |-> IdleUpload] /\ us \in [Uploads -> UploadRecord]
      BY <1>2, <2>3 DEF Init, TypeOK
    <2>5. PICK p \in Uploads : TRUE
      OBVIOUS
    <2>6. Share(IdleUpload, W) = 0
      BY IdleCarries DEF Share
    <2>7. PICK c : c = Carried(us, W)
      OBVIOUS
    <2>8. \A x \in Uploads : c[x] \in Nat /\ c[x] <= 0
      BY <2>4, <2>6, <2>7 DEF Carried
    <2>9. SumOver(c, Uploads) <= Cardinality(Uploads) * 0
      BY ONLY <2>8, SumBound, AttachmentsAssumption
    <2>10. Cardinality(Uploads) * 0 = 0
      BY FS_CardinalityType, AttachmentsAssumption
    <2>11. SumOver(Carried(up, W), Uploads) <= 0 /\ SumOver(Carried(up, W), Uploads) \in Nat
      BY <1>2, <2>3, <2>7, <2>9, <2>10, LoadNat DEF LoadTyped
    <2> QED BY <2>1, <2>2, <2>11 DEF Load
  <1>4. Overrun \in Nat
    <2>1. Cardinality(Uploads) \in Nat /\ Cardinality(Uploads) # 0
      BY FS_CardinalityType, FS_EmptySet, AttachmentsAssumption
    <2>2. Cardinality(Uploads) - 1 \in Nat
      BY <2>1
    <2>3. (Cardinality(Uploads) - 1) * MaxBatch \in Nat
      BY <2>2, Bounds, Products
    <2> QED BY <2>3, Bounds
  <1>5. \A W \in SUBSET Users : Load(W) \in Nat
    BY <1>2, LoadNat DEF LoadTyped
  <1>6. StoredLimit \in Nat
    BY <1>2, Limits DEF StoredLimit, Smaller
  <1>7. LoadsOK
    <2>1. \A u \in Users : Load({u}) <= StoredLimit + Overrun
      BY <1>3, <1>4, <1>5, <1>6
    <2>2. Load(Users) <= TotalQuota + Overrun
      BY <1>3, <1>4, <1>5, Limits
    <2> QED BY <2>1, <2>2 DEF LoadsOK
  <1> QED BY <1>1, <1>7 DEF QInv

\* Every step keeps the bounds.
LEMMA StepQuota ==
    ASSUME IInv, QInv, IInv', [Next]_vars
    PROVE  QInv'
  <1>1. ASSUME NEW p \in Uploads, UploadStep(p) PROVE QInv'
    <2>1. ASSUME NEW u \in Users, NEW F \in SUBSET (Files \ drawn), Prepare(p, u, F) PROVE QInv'
      BY <2>1, PrepareQuota
    <2> QED BY <1>1, <2>1, UploadQuota, AddMessageQuota DEF UploadStep
  <1>2. CASE Tick
    <2>1. rows' \subseteq rows /\ UNCHANGED <<owner, size, up>> /\ now <= now'
      BY <1>2 DEF Tick, dbVars, IInv, TypeOK
    <2> QED BY <2>1, RowsGo
  <1>3. CASE UNCHANGED vars
    <2>1. rows' \subseteq rows /\ UNCHANGED <<owner, size, up>> /\ now <= now'
      BY <1>3 DEF vars, dbVars, IInv, TypeOK
    <2> QED BY <2>1, RowsGo
  <1> QED BY <1>1, <1>2, <1>3, RemovalQuota, RestartQuota DEF Next

\* What is stored is part of the load.
LEMMA StoredWithinLoad ==
    ASSUME IInv, QInv
    PROVE  QuotaOverrunBounded
  <1>1. TypeOK /\ now \in Nat
    BY DEF IInv, TypeOK
  <1>2. ASSUME NEW W \in SUBSET Users
        PROVE  Bytes(Stored(W)) <= Load(W) /\ Bytes(Stored(W)) \in Nat /\ Load(W) \in Nat
    BY <1>1, LoadNat DEF LoadTyped, Load
  <1>3. (\A u \in Users : Stored({u}) = Owned(u)) /\ Stored(Users) = rows
    BY <1>1 DEF Stored, Owned, TypeOK
  <1>4. StoredLimit \in Nat /\ Overrun \in Int
    BY Bounds, Limits DEF StoredLimit, Smaller
  <1>5. ASSUME NEW u \in Users PROVE Bytes(Owned(u)) <= StoredLimit + Overrun
    <2>1. Load({u}) <= StoredLimit + Overrun
      BY DEF QInv, LoadsOK
    <2>2. Bytes(Stored({u})) <= Load({u}) /\ Bytes(Stored({u})) \in Nat /\ Load({u}) \in Nat
      BY <1>2
    <2> QED BY <1>3, <1>4, <2>1, <2>2
  <1>6. Bytes(rows) <= TotalQuota + Overrun
    BY <1>2, <1>3, <1>4, Limits DEF QInv, LoadsOK
  <1> QED BY <1>5, <1>6 DEF QuotaOverrunBounded

\* The bounds hold in every reachable state.
LEMMA QuotaInvariant ==
    ASSUME Uploads # {}
    PROVE  Spec => [](IInv /\ QInv)
  <1>1. Init => IInv /\ QInv
    BY InitInv, InitQuota
  <1>2. (IInv /\ QInv) /\ [Next]_vars => (IInv /\ QInv)'
    BY StepInv, StepQuota
  <1> QED BY <1>1, <1>2, PTL DEF Spec

\* However many uploads of whatever kinds run at the same time, and whatever is
\* rolled back, deleted or lost in a crash between them: a user's attachments
\* exceed the limit of the account, and all attachments the total quota, by less
\* than one full batch of the largest files for each upload.  QuotaRespected
\* itself fails: with one upload of an audio file larger than MaxArchive, and
\* with two uploads of archives (Commit gives the reservation back before
\* AddMessage writes the rows).
THEOREM QuotaOverrun ==
    ASSUME Uploads # {}
    PROVE  Spec => []QuotaOverrunBounded
  <1>1. IInv /\ QInv => QuotaOverrunBounded
    BY StoredWithinLoad
  <1> QED BY <1>1, QuotaInvariant, PTL
=============================================================================
