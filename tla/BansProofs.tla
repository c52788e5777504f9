----------------------------- MODULE BansProofs -----------------------------
(***************************************************************************)
(* Proofs about the ban ladder for every set of keys, every number of      *)
(* concurrent requests and every configuration BansAssumption admits.      *)
(*                                                                         *)
(* A ban's row is deleted when it was last updated Forget ago; that this   *)
(* never lifts a ban rests on LastsForget: until is at most Forget after   *)
(* updatedAt.  The ladder rests on Witnessed: a count of bans in the       *)
(* table is witnessed by the history, by a ban that is over or in force.   *)
(***************************************************************************)
EXTENDS Bans, Sums, TLAPS

\* No ban reaches further than Forget beyond the row's last update.
LastsForget == \A k \in noted : row[k].until <= row[k].updatedAt + Forget

\* A row that counts bans has one of that level in the history, ...
Witnessed == \A k \in noted : row[k].banCount > 0 =>
                \E c \in bans[k] : c[2] = LevelOf(row[k].banCount)

\* ... and a ban created in this very tick is still in force.
Fresh == \A k \in Keys : \A b \in bans[k] :
            b[1] <= now /\ (b[1] = now => k \in noted /\ row[k].until > now)

IInv == TypeOK /\ LastsForget /\ Witnessed /\ Fresh /\ LadderClimbed

\* The parameters of the ladder are natural numbers.
LEMMA Parameters == Levels \in Nat \ {0} /\ Forget \in Nat /\ MaxTime \in Nat
  BY BansAssumption

\* What a violation makes of a row is a row (NoteViolation's INSERT).
LEMMA CountedRow ==
    ASSUME DataTypes, NEW k \in Keys, NEW known \in SUBSET Keys
    PROVE  /\ Counted(k, known) \in Row
           /\ Counted(k, known).until = 0 /\ Counted(k, known).updatedAt = now
           /\ Counted(k, known).violations >= Threshold => Counted(k, known).banCount > 0
           /\ Counted(k, known).violations < Threshold =>
                 Counted(k, known).banCount = IF k \in known THEN row[k].banCount ELSE 0
           /\ Counted(k, known).banCount \in
                 {IF k \in known THEN row[k].banCount ELSE 0, IF k \in known THEN row[k].banCount + 1 ELSE 1}
  <1>1. row[k] \in Row /\ now \in Nat
    BY DEF DataTypes, Times
  <1> DEFINE v == IF InWindow(k, known) THEN row[k].violations + 1 ELSE 1
             w == IF InWindow(k, known) THEN row[k].windowStart ELSE now
             b == IF k \in known THEN row[k].banCount ELSE 0
             n == IF v >= Threshold THEN b + 1 ELSE b
  <1>2. v \in Nat /\ w \in Nat /\ b \in Nat
    BY <1>1 DEF Row
  <1>3. n \in Nat /\ (v >= Threshold => n > 0) /\ n \in {b, b + 1} /\ (v < Threshold => n = b)
    BY <1>2, BansAssumption
  <1>4. Counted(k, known) = [violations |-> v, windowStart |-> w, until |-> 0, updatedAt |-> now, banCount |-> n]
    BY DEF Counted
  <1> HIDE DEF v, w, n
  <1> QED BY <1>1, <1>2, <1>3, <1>4 DEF Row

\* The level of a positive count is one of the configured steps.
LEMMA LevelInRange ==
    ASSUME NEW n \in Nat, n > 0
    PROVE  LevelOf(n) \in 1 .. Levels
  BY BansAssumption DEF LevelOf

\* An idle request is a request.
LEMMA IdleOK == IdleReq \in ReqRecord /\ StageOK(IdleReq)
  <1>1. (CHOOSE k \in Keys : TRUE) \in Keys
    BY BansAssumption
  <1> QED BY <1>1, BansAssumption DEF IdleReq, ReqRecord, ReqPC, StageOK

\* The tables start empty, so the invariant holds before any request.
LEMMA InitInv == Init => IInv
  <1> SUFFICES ASSUME Init PROVE IInv
    OBVIOUS
  <1>1. DataTypes
    BY BansAssumption DEF Init, DataTypes, Times, Row, NoRow, NoStrikes
  <1>2. TypeOK
    BY <1>1, IdleOK DEF Init, TypeOK
  <1>3. LastsForget /\ Witnessed /\ Fresh /\ LadderClimbed
    BY DEF Init, LastsForget, Witnessed, Fresh, LadderClimbed
  <1> QED BY <1>2, <1>3 DEF IInv

-----------------------------------------------------------------------------
(* NoteViolation: the only step that changes ip_bans.                      *)

\* It ignores the violation, counts it, or counts it and creates a ban.
LEMMA NoteCases ==
    ASSUME TypeOK, NEW r \in Reqs, NoteViolation(r)
    PROVE  LET k     == req[r].key
               known == noted \ Forgotten
               next  == Counted(k, known)
               level == LevelOf(next.banCount)
               until == now + Steps[level] IN
           /\ k \in Keys /\ UNCHANGED <<now, accounts, block, strikes>>
           /\ \/ Done(r) /\ UNCHANGED <<noted, row, bans>>
              \/ /\ ~(k \in known /\ row[k].until > now)
                 /\ noted' = known \cup {k}
                 /\ next.violations < Threshold
                 /\ row' = [row EXCEPT ![k] = next]
                 /\ Done(r) /\ UNCHANGED bans
              \/ /\ ~(k \in known /\ row[k].until > now)
                 /\ noted' = known \cup {k}
                 /\ next.violations >= Threshold
                 /\ row' = [row EXCEPT ![k] = [next EXCEPT !.until = until]]
                 /\ bans' = [bans EXCEPT ![k] = @ \cup {<<now, level>>}]
                 /\ \/ Done(r)
                    \/ /\ k \in Accounts
                       /\ req' = [req EXCEPT ![r].pc = "block", ![r].level = level, ![r].until = until]
  <1>1. req[r].key \in Keys
    BY DEF TypeOK, ReqRecord
  <1> QED BY <1>1 DEF NoteViolation

\* The same, with the types of what is written.
LEMMA NoteTypes ==
    ASSUME TypeOK, NEW r \in Reqs, NoteViolation(r)
    PROVE  TypeOK'
  <1> DEFINE k     == req[r].key
             known == noted \ Forgotten
             next  == Counted(k, known)
             level == LevelOf(next.banCount)
             until == now + Steps[level]
  <1>1. k \in Keys /\ known \in SUBSET Keys /\ known \subseteq noted /\ now \in Nat
    BY DEF TypeOK, DataTypes, ReqRecord, Forgotten, Times
  <1>2. next \in Row /\ (next.violations >= Threshold => next.banCount > 0)
    BY <1>1, CountedRow DEF TypeOK
  <1>3. ASSUME next.violations >= Threshold PROVE level \in 1 .. Levels /\ until \in Nat
    <2> HIDE DEF next
    <2>1. level \in 1 .. Levels
      BY <1>2, <1>3, LevelInRange DEF Row
    <2> HIDE DEF level
    <2> QED BY <1>1, <2>1, BansAssumption
  <1>4. UNCHANGED <<now, accounts, block, strikes>>
    BY NoteCases
  <1>5. CASE Done(r) /\ UNCHANGED <<noted, row, bans>>
    BY <1>4, <1>5, IdleOK DEF TypeOK, DataTypes, Done
  <1>6. CASE /\ noted' = known \cup {k} /\ row' = [row EXCEPT ![k] = next]
             /\ Done(r) /\ UNCHANGED bans
    BY <1>1, <1>2, <1>4, <1>6, IdleOK DEF TypeOK, DataTypes, Done
  <1>7. CASE /\ noted' = known \cup {k} /\ next.violations >= Threshold
             /\ row' = [row EXCEPT ![k] = [next EXCEPT !.until = until]]
             /\ bans' = [bans EXCEPT ![k] = @ \cup {<<now, level>>}]
             /\ \/ Done(r)
                \/ /\ k \in Accounts
                   /\ req' = [req EXCEPT ![r].pc = "block", ![r].level = level, ![r].until = until]
    <2> HIDE DEF next, level, until, known
    <2>1. [next EXCEPT !.until = until] \in Row
      BY <1>2, <1>3, <1>7 DEF Row
    <2>2. DataTypes'
      BY <1>1, <1>3, <1>4, <1>7, <2>1 DEF TypeOK, DataTypes
    <2>3. req' \in [Reqs -> ReqRecord] /\ \A q \in Reqs : StageOK(req'[q])
      <3>1. CASE Done(r)
        BY <3>1, IdleOK DEF Done, TypeOK
      <3>2. CASE /\ k \in Accounts
                 /\ req' = [req EXCEPT ![r].pc = "block", ![r].level = level, ![r].until = until]
        <4>1. [req[r] EXCEPT !.pc = "block", !.level = level, !.until = until] \in ReqRecord
          <5>1. level \in 0 .. Levels /\ until \in Nat
            BY <1>3, <1>7
          <5>2. req[r] \in ReqRecord
            BY DEF TypeOK
          <5> QED BY <5>1, <5>2 DEF ReqRecord, ReqPC
        <4>2. StageOK([req[r] EXCEPT !.pc = "block", !.level = level, !.until = until])
          BY <1>3, <1>7, <3>2 DEF TypeOK, ReqRecord, StageOK
        <4> QED BY <3>2, <4>1, <4>2 DEF TypeOK
      <3> QED BY <1>7, <3>1, <3>2
    <2> QED BY <2>2, <2>3 DEF TypeOK
  <1> QED BY <1>5, <1>6, <1>7, NoteCases

\* A forgotten row holds no ban in force, so deleting it lifts none.
LEMMA ForgottenIsOver ==
    ASSUME TypeOK, LastsForget, NEW k \in Forgotten
    PROVE  k \in noted /\ row[k].until <= now
  <1>1. k \in noted /\ row[k].updatedAt <= now - Forget
    BY DEF Forgotten
  <1>2. row[k] \in Row /\ now \in Nat
    BY <1>1 DEF TypeOK, DataTypes, Times
  <1>3. row[k].until \in Nat /\ row[k].updatedAt \in Nat
    BY <1>2 DEF Row
  <1>4. row[k].until <= row[k].updatedAt + Forget
    BY <1>1 DEF LastsForget
  <1> QED BY ONLY <1>1, <1>2, <1>3, <1>4, Parameters

\* Counting a violation keeps the invariant: a new ban lasts at most Forget,
\* leaves a trace in the history and is one step above what the row counted.
LEMMA NoteInv ==
    ASSUME IInv, NEW r \in Reqs, NoteViolation(r)
    PROVE  LastsForget' /\ Witnessed' /\ Fresh' /\ LadderClimbed'
  <1> DEFINE k     == req[r].key
             known == noted \ Forgotten
             next  == Counted(k, known)
             level == LevelOf(next.banCount)
             until == now + Steps[level]
  <1>t. TypeOK /\ LastsForget /\ Witnessed /\ Fresh /\ LadderClimbed
    BY DEF IInv
  <1>1. /\ k \in Keys /\ known \in SUBSET Keys /\ known \subseteq noted /\ now \in Nat
        /\ row \in [Keys -> Row] /\ bans \in [Keys -> SUBSET (Nat \X (1 .. Levels))]
    BY <1>t DEF TypeOK, DataTypes, ReqRecord, Forgotten, Times
  <1>2. /\ next \in Row /\ next.until = 0 /\ next.updatedAt = now
        /\ next.violations >= Threshold => next.banCount > 0
        /\ next.violations < Threshold => next.banCount = IF k \in known THEN row[k].banCount ELSE 0
        /\ next.banCount \in {IF k \in known THEN row[k].banCount ELSE 0,
                              IF k \in known THEN row[k].banCount + 1 ELSE 1}
    BY <1>1, <1>t, CountedRow DEF TypeOK
  <1>4. now' = now
    BY <1>t, NoteCases
  <1>f. \A j \in Keys : \A b \in bans[j] : b[1] = now => j \in known /\ row[j].until > now
    BY <1>t, <1>1, ForgottenIsOver DEF Fresh, Row
  <1>5. CASE UNCHANGED <<noted, row, bans>>
    BY <1>t, <1>4, <1>5 DEF LastsForget, Witnessed, Fresh, LadderClimbed
  <1> HIDE DEF next, known
  <1>6. CASE /\ ~(k \in known /\ row[k].until > now)
             /\ noted' = known \cup {k} /\ next.violations < Threshold
             /\ row' = [row EXCEPT ![k] = next] /\ UNCHANGED bans
    <2>0. next.banCount = IF k \in known THEN row[k].banCount ELSE 0
      BY <1>2, <1>6
    <2>1. LastsForget'
      <3> SUFFICES ASSUME NEW j \in noted' PROVE row'[j].until <= row'[j].updatedAt + Forget
        BY DEF LastsForget
      <3>1. CASE j = k
        BY <3>1, <1>1, <1>2, <1>6, BansAssumption
      <3>2. CASE j # k
        BY <3>2, <1>t, <1>1, <1>6 DEF LastsForget
      <3> QED BY <3>1, <3>2
    <2>2. Witnessed'
      BY <1>t, <1>1, <1>2, <1>6, <2>0 DEF Witnessed, Row
    <2>3. Fresh'
      BY <1>t, <1>1, <1>4, <1>6, <1>f DEF Fresh
    <2>4. LadderClimbed'
      BY <1>t, <1>6 DEF LadderClimbed
    <2> QED BY <2>1, <2>2, <2>3, <2>4
  <1>7. CASE /\ ~(k \in known /\ row[k].until > now)
             /\ noted' = known \cup {k} /\ next.violations >= Threshold
             /\ row' = [row EXCEPT ![k] = [next EXCEPT !.until = until]]
             /\ bans' = [bans EXCEPT ![k] = @ \cup {<<now, level>>}]
    <2>0. next.banCount \in Nat /\ level \in 1 .. Levels
      BY <1>2, <1>7, LevelInRange DEF Row
    <2>0a. Steps[level] \in Nat /\ Steps[level] > 0 /\ Steps[level] <= Forget
      BY <2>0, BansAssumption
    <2>0b. /\ [next EXCEPT !.until = until].until = until
           /\ [next EXCEPT !.until = until].updatedAt = now
           /\ [next EXCEPT !.until = until].banCount = next.banCount
      BY <1>2 DEF Row
    <2> DEFINE written == [next EXCEPT !.until = until]
    <2>w. row' = [row EXCEPT ![k] = written]
      BY <1>7
    <2>v. written.until = now + Steps[level] /\ written.updatedAt = now /\ written.banCount = next.banCount
      BY <2>0b
    <2>l. next.banCount > 0 => level = LevelOf(next.banCount)
      OBVIOUS
    <2> HIDE DEF level, written
    <2>1. LastsForget'
      <3> SUFFICES ASSUME NEW j \in noted' PROVE row'[j].until <= row'[j].updatedAt + Forget
        BY DEF LastsForget
      <3>1. CASE j = k
        BY <3>1, <1>1, <2>w, <2>v, <2>0a, BansAssumption
      <3>2. CASE j # k
        BY <3>2, <1>t, <1>1, <1>7, <2>w DEF LastsForget
      <3> QED BY <3>1, <3>2
    <2>2. Witnessed'
      <3> SUFFICES ASSUME NEW j \in noted', row'[j].banCount > 0
                   PROVE  \E c \in bans'[j] : c[2] = LevelOf(row'[j].banCount)
        BY DEF Witnessed
      <3>1. CASE j = k
        <4>1. row'[j].banCount = next.banCount /\ <<now, level>> \in bans'[j]
          BY <3>1, <1>1, <1>7, <2>w, <2>v
        <4> QED BY <4>1, <1>2, <1>7, <2>l
      <3>2. CASE j # k
        <4>1. j \in noted /\ row'[j] = row[j] /\ bans'[j] = bans[j]
          BY <3>2, <1>1, <1>7, <2>w
        <4> QED BY <4>1, <1>t DEF Witnessed
      <3> QED BY <3>1, <3>2
    <2>3. Fresh'
      BY <1>t, <1>1, <1>4, <2>w, <2>v, <1>7, <1>f, <2>0a DEF Fresh
    <2>4. \A b \in bans[k] : b[1] < now
      BY <1>t, <1>1, <1>f, <1>7 DEF Fresh
    <2>5. level > 1 => \E c \in bans[k] : c[2] >= level - 1
      <3> SUFFICES ASSUME level > 1 PROVE \E c \in bans[k] : c[2] >= level - 1
        OBVIOUS
      <3>1. next.banCount > 1
        BY <1>2, <1>7, <2>l, <2>0 DEF LevelOf
      <3>2. k \in noted /\ row[k].banCount > 0 /\ next.banCount <= row[k].banCount + 1
        BY <1>1, <1>2, <3>1 DEF Row
      <3>3. PICK c \in bans[k] : c[2] = LevelOf(row[k].banCount)
        BY <1>t, <3>2 DEF Witnessed
      <3>4. row[k].banCount \in Nat
        BY <1>1 DEF Row
      <3>5. c[2] >= level - 1
        BY ONLY <3>1, <3>2, <3>3, <3>4, <2>l, <2>0, Parameters DEF LevelOf
      <3> QED BY <3>3, <3>5
    <2>6. LadderClimbed'
      BY <1>t, <1>1, <1>7, <2>0, <2>4, <2>5 DEF LadderClimbed
    <2> QED BY <2>1, <2>2, <2>3, <2>6
  <1> QED BY <1>t, <1>5, <1>6, <1>7, NoteCases DEF known, next

-----------------------------------------------------------------------------
(* The other steps leave ip_bans and the history alone.                    *)

\* The ledger part of the invariant speaks of now, ip_bans and the history.
LEMMA LedgerUnchanged ==
    ASSUME IInv, UNCHANGED <<now, noted, row, bans>>
    PROVE  LastsForget' /\ Witnessed' /\ Fresh' /\ LadderClimbed'
  BY DEF IInv, LastsForget, Witnessed, Fresh, LadderClimbed

\* A request that ends, or moves on to a stage its record is fit for, keeps
\* the types of the requests.
LEMMA ReqMoves ==
    ASSUME TypeOK, NEW r \in Reqs,
           NEW q \in ReqRecord, StageOK(q), req' = [req EXCEPT ![r] = q]
    PROVE  req' \in [Reqs -> ReqRecord] /\ \A x \in Reqs : StageOK(req'[x])
  BY DEF TypeOK

\* Every step keeps the types: the enforcer's chain moves one stage at a time.
LEMMA TypeStep ==
    ASSUME TypeOK, [Next]_vars
    PROVE  TypeOK'
  <1>1. ASSUME NEW r \in Reqs, NEW k \in Keys, Guard(r, k) PROVE TypeOK'
    <2>1. [IdleReq EXCEPT !.pc = "handle", !.key = k, !.at = now] \in ReqRecord
      <3>1. now \in Nat
        BY DEF TypeOK, DataTypes, Times
      <3> QED BY <3>1, IdleOK DEF ReqRecord, ReqPC
    <2>2. StageOK([IdleReq EXCEPT !.pc = "handle", !.key = k, !.at = now])
      BY IdleOK DEF ReqRecord, StageOK
    <2> QED BY <1>1, <2>1, <2>2, ReqMoves DEF Guard, TypeOK, DataTypes
  <1>2. ASSUME NEW r \in Reqs, Handle(r) PROVE TypeOK'
    <2>1. [req[r] EXCEPT !.pc = "note", !.at = now] \in ReqRecord
      <3>1. now \in Nat /\ req[r] \in ReqRecord
        BY DEF TypeOK, DataTypes, Times
      <3> QED BY ONLY <3>1 DEF ReqRecord, ReqPC
    <2>2. StageOK([req[r] EXCEPT !.pc = "note", !.at = now])
      BY DEF StageOK, TypeOK, ReqRecord
    <2>3. \/ req' = [req EXCEPT ![r] = IdleReq]
          \/ req' = [req EXCEPT ![r] = [req[r] EXCEPT !.pc = "note", !.at = now]]
      BY <1>2 DEF Handle, Done, TypeOK
    <2>4. req' \in [Reqs -> ReqRecord] /\ \A x \in Reqs : StageOK(req'[x])
      BY <2>1, <2>2, <2>3, ReqMoves, IdleOK
    <2> QED BY <1>2, <2>4 DEF Handle, TypeOK, DataTypes
  <1>3. ASSUME NEW r \in Reqs, SetAccountBlock(r) PROVE TypeOK'
    <2>1. req[r] \in ReqRecord /\ StageOK(req[r]) /\ req[r].pc = "block"
      BY <1>3 DEF SetAccountBlock, TypeOK
    <2>2. [req[r] EXCEPT !.pc = "cleanup"] \in ReqRecord /\ StageOK([req[r] EXCEPT !.pc = "cleanup"])
      BY <2>1 DEF ReqRecord, ReqPC, StageOK
    <2>3. req' = [req EXCEPT ![r] = [req[r] EXCEPT !.pc = "cleanup"]]
      BY <1>3 DEF SetAccountBlock, Goto, TypeOK
    <2>4. req' \in [Reqs -> ReqRecord] /\ \A x \in Reqs : StageOK(req'[x])
      BY <2>2, <2>3, ReqMoves
    <2>5. req[r].until \in Nat
      BY <2>1 DEF ReqRecord
    <2> QED BY <1>3, <2>4, <2>5 DEF SetAccountBlock, TypeOK, DataTypes
  <1>4. ASSUME NEW r \in Reqs, CleanupBannedUser(r) PROVE TypeOK'
    <2>1. req[r] \in ReqRecord /\ StageOK(req[r]) /\ req[r].pc = "cleanup"
      BY <1>4 DEF CleanupBannedUser, TypeOK
    <2>2. ASSUME ~(req[r].level < Levels)
          PROVE  [req[r] EXCEPT !.pc = "strike"] \in ReqRecord /\ StageOK([req[r] EXCEPT !.pc = "strike"])
      <3>1. req[r].level = Levels
        BY <2>1, <2>2, BansAssumption DEF ReqRecord
      <3> QED BY ONLY <2>1, <3>1, BansAssumption DEF ReqRecord, ReqPC, StageOK
    <2>3. \/ req' = [req EXCEPT ![r] = IdleReq]
          \/ ~(req[r].level < Levels) /\ req' = [req EXCEPT ![r] = [req[r] EXCEPT !.pc = "strike"]]
      BY <1>4 DEF CleanupBannedUser, Done, Goto, TypeOK
    <2>4. req' \in [Reqs -> ReqRecord] /\ \A x \in Reqs : StageOK(req'[x])
      BY <2>2, <2>3, ReqMoves, IdleOK
    <2> QED BY <1>4, <2>4 DEF CleanupBannedUser, TypeOK, DataTypes
  <1>5. ASSUME NEW r \in Reqs, RecordAccountBan(r) PROVE TypeOK'
    <2>1. req[r] \in ReqRecord /\ StageOK(req[r]) /\ req[r].pc = "strike"
      BY <1>5 DEF RecordAccountBan, TypeOK
    <2>2. [req[r] EXCEPT !.pc = "delete"] \in ReqRecord /\ StageOK([req[r] EXCEPT !.pc = "delete"])
      BY <2>1 DEF ReqRecord, ReqPC, StageOK
    <2>3. \/ req' = [req EXCEPT ![r] = IdleReq]
          \/ req' = [req EXCEPT ![r] = [req[r] EXCEPT !.pc = "delete"]]
      BY <1>5 DEF RecordAccountBan, Done, Goto, TypeOK
    <2>4. req' \in [Reqs -> ReqRecord] /\ \A x \in Reqs : StageOK(req'[x])
      BY <2>2, <2>3, ReqMoves, IdleOK
    <2>5. strikes' \in [Accounts -> [Times -> Nat]]
      <3> DEFINE kept == [a \in Accounts |-> [t \in Times |->
                             IF t < now - BanWindow THEN 0 ELSE strikes[a][t]]]
      <3>1. strikes \in [Accounts -> [Times -> Nat]] /\ now \in Times /\ req[r].key \in Accounts
        BY <2>1 DEF TypeOK, DataTypes, StageOK
      <3>2. kept \in [Accounts -> [Times -> Nat]]
        BY <3>1
      <3>3. strikes' = [kept EXCEPT ![req[r].key][now] = @ + 1]
        BY <1>5 DEF RecordAccountBan
      <3> HIDE DEF kept
      <3> QED BY <3>1, <3>2, <3>3
    <2> QED BY <1>5, <2>4, <2>5 DEF RecordAccountBan, TypeOK, DataTypes
  <1>6. ASSUME NEW r \in Reqs, DeleteUser(r) PROVE TypeOK'
    <2>1. NoStrikes \in [Times -> Nat]
      BY DEF NoStrikes
    <2> QED BY <1>6, <2>1, ReqMoves, IdleOK DEF DeleteUser, Done, TypeOK, DataTypes
  <1>7. ASSUME NEW r \in Reqs, Fail(r) PROVE TypeOK'
    BY <1>7, ReqMoves, IdleOK DEF Fail, Done, TypeOK, DataTypes
  <1>8. CASE Tick
    BY <1>8, BansAssumption DEF Tick, TypeOK, DataTypes, Times
  <1>9. CASE UNCHANGED vars
    BY <1>9 DEF vars, TypeOK, DataTypes
  <1> QED BY <1>1, <1>2, <1>3, <1>4, <1>5, <1>6, <1>7, <1>8, <1>9, NoteTypes
          DEF Next, RequestStep, Refuse

\* The tick that ends a ban does not make its history younger.
LEMMA TickInv ==
    ASSUME IInv, Tick
    PROVE  LastsForget' /\ Witnessed' /\ Fresh' /\ LadderClimbed'
  <1>1. now' = now + 1 /\ UNCHANGED <<noted, row, bans>> /\ now \in Nat
    BY DEF Tick, IInv, TypeOK, DataTypes, Times
  <1>2. \A k \in Keys : \A b \in bans[k] : b[1] <= now /\ b[1] \in Nat
    BY DEF IInv, Fresh, TypeOK, DataTypes
  <1>3. Fresh'
    BY <1>1, <1>2 DEF Fresh
  <1> QED BY <1>1, <1>3 DEF IInv, LastsForget, Witnessed, LadderClimbed

\* Every step keeps the inductive invariant.
LEMMA StepInv == IInv /\ [Next]_vars => IInv'
  <1> SUFFICES ASSUME IInv, [Next]_vars PROVE IInv'
    OBVIOUS
  <1>1. TypeOK'
    BY TypeStep DEF IInv
  <1>2. \/ \E r \in Reqs : NoteViolation(r)
        \/ Tick
        \/ UNCHANGED <<now, noted, row, bans>>
    BY DEF Next, RequestStep, Refuse, Guard, Handle, SetAccountBlock, CleanupBannedUser,
           RecordAccountBan, DeleteUser, Fail, vars
  <1>3. LastsForget' /\ Witnessed' /\ Fresh' /\ LadderClimbed'
    BY <1>2, NoteInv, TickInv, LedgerUnchanged
  <1> QED BY <1>1, <1>3 DEF IInv

\* The inductive invariant holds in every reachable state.
LEMMA Invariant == Spec => []IInv
  BY InitInv, StepInv, PTL DEF Spec

\* The tables and requests keep their types; only an account's ban at the highest
\* level reaches RecordAccountBan and DeleteUser.
THEOREM TypeCorrect == Spec => []TypeOK
  <1>1. IInv => TypeOK
    BY DEF IInv
  <1> QED BY <1>1, Invariant, PTL

\* NoteViolation climbs the ladder one step at a time, whatever requests run
\* at once and however violations, bans and pauses follow each other.
THEOREM LadderIsClimbed == Spec => []LadderClimbed
  <1>1. IInv => LadderClimbed
    BY DEF IInv
  <1> QED BY <1>1, Invariant, PTL

\* No step lifts or changes a ban in force: NoteViolation ignores the banned
\* key's violations, and its DELETE of forgotten rows spares rows that ban.
THEOREM BansStand == Spec => BanStands
  <1>1. ASSUME IInv, [Next]_vars PROVE BanStep
    <2>1. CASE \E r \in Reqs : NoteViolation(r)
      <3> SUFFICES ASSUME NEW r \in Reqs, NoteViolation(r),
                          NEW k \in Keys, Banned(k)
                   PROVE  k \in noted' /\ row'[k].until = row[k].until
        BY <2>1 DEF BanStep
      <3>1. TypeOK /\ LastsForget
        BY <1>1 DEF IInv
      <3>2. k \in noted \ Forgotten /\ row[k].until > now
        BY <3>1, ForgottenIsOver DEF Banned, TypeOK, DataTypes, Row, Times
      <3>3. \/ UNCHANGED <<noted, row>>
            \/ /\ req[r].key # k
               /\ noted' = (noted \ Forgotten) \cup {req[r].key}
               /\ \E e : row' = [row EXCEPT ![req[r].key] = e]
        BY <3>1, <3>2, NoteCases
      <3> QED BY <3>1, <3>2, <3>3 DEF TypeOK, DataTypes
    <2>2. CASE UNCHANGED <<noted, row>>
      BY <2>2 DEF BanStep, Banned
    <2>3. \/ \E r \in Reqs : NoteViolation(r)
          \/ UNCHANGED <<noted, row>>
      BY <1>1 DEF Next, RequestStep, Refuse, Guard, Handle, SetAccountBlock, CleanupBannedUser,
                  RecordAccountBan, DeleteUser, Fail, Tick, vars
    <2> QED BY <2>1, <2>2, <2>3
  <1> QED BY <1>1, Invariant, PTL DEF Spec, BanStands
-----------------------------------------------------------------------------
(* The block of an account: written by SetAccountBlock, from the ban that  *)
(* NoteViolation gave the request to enforce.                              *)

\* A block that is stored, and one that a request is about to store, ends when
\* a ban of that account does.
EndsWithBan(B, t) == \E b \in B : t = b[1] + Steps[b[2]]
BlockSource ==
    /\ \A u \in Accounts : block[u] # 0 => EndsWithBan(bans[u], block[u])
    /\ \A r \in Reqs : req[r].pc = "block" => EndsWithBan(bans[req[r].key], req[r].until)

\* NoteViolation adds at most one ban, for the key of its request, which then
\* carries it.
LEMMA NoteHistory ==
    ASSUME TypeOK, NEW r \in Reqs, NoteViolation(r)
    PROVE  /\ req[r].key \in Keys
           /\ \/ Done(r) /\ bans' = bans
              \/ \E level : /\ bans' = [bans EXCEPT ![req[r].key] = @ \cup {<<now, level>>}]
                             /\ \/ Done(r)
                                \/ /\ req[r].key \in Accounts
                                   /\ req' = [req EXCEPT ![r].pc = "block", ![r].level = level,
                                                         ![r].until = now + Steps[level]]
  BY NoteCases

\* The history of bans only grows.
LEMMA BansGrow ==
    ASSUME TypeOK, [Next]_vars, NEW k \in Keys
    PROVE  bans[k] \subseteq bans'[k]
  <1>1. ASSUME NEW r \in Reqs, NoteViolation(r) PROVE bans[k] \subseteq bans'[k]
    <2>1. bans' = bans \/ \E level : bans' = [bans EXCEPT ![req[r].key] = @ \cup {<<now, level>>}]
      BY <1>1, NoteHistory
    <2> QED BY <2>1 DEF TypeOK, DataTypes
  <1>2. (\E r \in Reqs : NoteViolation(r)) \/ bans' = bans
    BY DEF Next, RequestStep, Refuse, Guard, Handle, SetAccountBlock, CleanupBannedUser,
           RecordAccountBan, DeleteUser, Fail, Tick, vars
  <1> QED BY <1>1, <1>2

\* A block goes, stays, or is the one a request at SetAccountBlock carries.
LEMMA BlockWrites ==
    ASSUME TypeOK, [Next]_vars, NEW u \in Accounts
    PROVE  \/ block'[u] \in {0, block[u]}
           \/ \E r \in Reqs : req[r].pc = "block" /\ req[r].key = u /\ block'[u] = req[r].until
  <1>t. block \in [Accounts -> Nat]
    BY DEF TypeOK, DataTypes
  <1>1. ASSUME NEW r \in Reqs, NEW k \in Keys, Guard(r, k) PROVE block'[u] \in {0, block[u]}
    BY <1>1, <1>t DEF Guard
  <1>2. ASSUME NEW r \in Reqs, SetAccountBlock(r)
        PROVE  \/ block'[u] = block[u]
               \/ req[r].pc = "block" /\ req[r].key = u /\ block'[u] = req[r].until
    BY <1>2, <1>t DEF SetAccountBlock
  <1>3. ASSUME NEW r \in Reqs, DeleteUser(r) PROVE block'[u] \in {0, block[u]}
    BY <1>3, <1>t DEF DeleteUser
  <1>4. \/ \E r \in Reqs : (\E k \in Keys : Guard(r, k)) \/ SetAccountBlock(r) \/ DeleteUser(r)
        \/ block' = block
    BY DEF Next, RequestStep, Refuse, Handle, NoteViolation, CleanupBannedUser, RecordAccountBan,
           Fail, Tick, vars
  <1> QED BY <1>1, <1>2, <1>3, <1>4

\* A request comes to SetAccountBlock with the end of the ban it was given.
LEMMA BlockCarried ==
    ASSUME TypeOK, [Next]_vars, NEW x \in Reqs, req'[x].pc = "block"
    PROVE  \/ req'[x] = req[x]
           \/ EndsWithBan(bans'[req'[x].key], req'[x].until)
  <1>t. req \in [Reqs -> ReqRecord] /\ IdleReq.pc = "idle"
    BY DEF TypeOK, IdleReq
  <1>1. ASSUME NEW r \in Reqs, NoteViolation(r)
        PROVE  req'[x] = req[x] \/ EndsWithBan(bans'[req'[x].key], req'[x].until)
    <2>1. CASE Done(r)
      BY <1>t, <2>1 DEF Done
    <2>2. ASSUME NEW level, NEW until, until = now + Steps[level], req[r].key \in Keys,
                 bans' = [bans EXCEPT ![req[r].key] = @ \cup {<<now, level>>}],
                 req' = [req EXCEPT ![r].pc = "block", ![r].level = level, ![r].until = until]
          PROVE  req'[x] = req[x] \/ EndsWithBan(bans'[req'[x].key], req'[x].until)
      <3>1. CASE x = r
        <4>1. req'[x].key = req[r].key /\ req'[x].until = until
          BY <1>t, <2>2, <3>1 DEF ReqRecord
        <4>2. <<now, level>> \in bans'[req[r].key]
          BY <2>2 DEF TypeOK, DataTypes
        <4>3. <<now, level>>[1] = now /\ <<now, level>>[2] = level
          OBVIOUS
        <4>4. EndsWithBan(bans'[req[r].key], now + Steps[level])
          BY <4>2, <4>3 DEF EndsWithBan
        <4> QED BY <2>2, <4>1, <4>4
      <3>2. CASE x # r
        BY <1>t, <2>2, <3>2
      <3> QED BY <3>1, <3>2
    <2>3. CASE ~Done(r)
      <3>1. PICK level : /\ bans' = [bans EXCEPT ![req[r].key] = @ \cup {<<now, level>>}]
                         /\ req' = [req EXCEPT ![r].pc = "block", ![r].level = level,
                                               ![r].until = now + Steps[level]]
        BY <1>1, <2>3, NoteHistory
      <3> QED BY <1>1, <2>2, <3>1, NoteHistory
    <2> QED BY <2>1, <2>3
  <1>2. ASSUME NEW r \in Reqs, NEW e, req' = [req EXCEPT ![r] = e], e.pc # "block"
        PROVE  req'[x] = req[x]
    BY <1>t, <1>2
  <1>3. ASSUME NEW r \in Reqs, NEW pc, req' = [req EXCEPT ![r].pc = pc], pc # "block"
        PROVE  req'[x] = req[x]
    BY <1>t, <1>3 DEF ReqRecord
  <1>4. ASSUME NEW r \in Reqs, NEW k \in Keys, Guard(r, k) PROVE req'[x] = req[x]
    <2>1. [IdleReq EXCEPT !.pc = "handle", !.key = k, !.at = now].pc = "handle"
      BY DEF IdleReq
    <2> QED BY <1>2, <1>4, <2>1 DEF Guard
  <1>5. ASSUME NEW r \in Reqs, Handle(r) PROVE req'[x] = req[x]
    BY <1>t, <1>5 DEF Handle, Done, ReqRecord
  <1>6. ASSUME NEW r \in Reqs, SetAccountBlock(r) \/ CleanupBannedUser(r) \/ RecordAccountBan(r)
                               \/ DeleteUser(r) \/ Fail(r)
        PROVE  req'[x] = req[x]
    BY <1>t, <1>2, <1>3, <1>6
       DEF SetAccountBlock, CleanupBannedUser, RecordAccountBan, DeleteUser, Fail, Done, Goto
  <1>7. CASE UNCHANGED req
    BY <1>7
  <1> QED BY <1>1, <1>4, <1>5, <1>6, <1>7 DEF Next, RequestStep, Refuse, Tick, vars

\* Every step keeps the source of the blocks.
LEMMA BlockSourceInv == IInv /\ BlockSource /\ [Next]_vars => BlockSource'
  <1> SUFFICES ASSUME IInv, BlockSource, [Next]_vars PROVE BlockSource'
    OBVIOUS
  <1>t. TypeOK /\ Accounts \subseteq Keys
    BY DEF IInv, Keys
  <1>1. ASSUME NEW k \in Keys, NEW t, EndsWithBan(bans[k], t) PROVE EndsWithBan(bans'[k], t)
    BY <1>1, <1>t, BansGrow DEF EndsWithBan
  <1>2. ASSUME NEW u \in Accounts, block'[u] # 0 PROVE EndsWithBan(bans'[u], block'[u])
    <2>1. EndsWithBan(bans[u], block'[u])
      BY <1>2, <1>t, BlockWrites DEF BlockSource
    <2> QED BY <1>1, <1>t, <2>1 DEF EndsWithBan
  <1>3. ASSUME NEW x \in Reqs, req'[x].pc = "block" PROVE EndsWithBan(bans'[req'[x].key], req'[x].until)
    <2>1. CASE req'[x] = req[x]
      <3>1. EndsWithBan(bans[req[x].key], req[x].until) /\ req[x].key \in Keys
        BY <1>3, <1>t, <2>1 DEF BlockSource, TypeOK, ReqRecord
      <3> QED BY <1>1, <2>1, <3>1 DEF EndsWithBan
    <2> QED BY <1>3, <1>t, <2>1, BlockCarried
  <1> QED BY <1>2, <1>3 DEF BlockSource, EndsWithBan

\* An account is refused only for a ban it got and not beyond the end of that
\* ban, however late SetAccountBlock runs and in whichever order requests store
\* their blocks.
THEOREM BlocksComeFromBans == Spec => []BlockComesFromBan
  <1>1. Init => BlockSource
    BY DEF Init, BlockSource, IdleReq
  <1>2. IInv /\ BlockSource => BlockComesFromBan
    <2> SUFFICES ASSUME IInv, BlockSource, NEW u \in Accounts, block[u] > now
                 PROVE  \E b \in bans[u] : b[1] <= now /\ block[u] = b[1] + Steps[b[2]]
      BY DEF BlockComesFromBan
    <2>1. now \in Nat /\ block[u] \in Nat /\ u \in Keys
      BY DEF IInv, TypeOK, DataTypes, Times, Keys
    <2>2. EndsWithBan(bans[u], block[u])
      BY <2>1 DEF BlockSource
    <2> QED BY <2>1, <2>2 DEF EndsWithBan, IInv, Fresh
  <1> QED BY <1>1, <1>2, Invariant, BlockSourceInv, PTL DEF Spec
-----------------------------------------------------------------------------
(* Deletion.  Every ban of the highest level is counted by at most one     *)
(* strike: the request that was given it carries it to RecordAccountBan,   *)
(* or loses it.                                                            *)

\* The request carries a ban of the highest level of u that is no strike yet.
Carries(q, u)   == q.key = u /\ q.level = Levels /\ q.pc \in {"block", "cleanup", "strike"}
Carrying(rs, u) == {r \in Reqs : Carries(rs[r], u)}

StrikesEarned ==
    /\ \A u \in Accounts :
        /\ IsFiniteSet(bans[u])
        /\ SumOver(strikes[u], Times) + Cardinality(Carrying(req, u)) <= Cardinality(TopBans(u))
    /\ \A r \in Reqs : req[r].pc = "delete" => Cardinality(TopBans(req[r].key)) >= DeletionCount

\* Times, requests and top bans can be counted.
LEMMA Countable ==
    ASSUME TypeOK, NEW u \in Accounts
    PROVE  /\ IsFiniteSet(Times)
           /\ \A rs : IsFiniteSet(Carrying(rs, u)) /\ Cardinality(Carrying(rs, u)) \in Nat
           /\ SumOver(strikes[u], Times) \in Nat
           /\ IsFiniteSet(bans[u]) => IsFiniteSet(TopBans(u)) /\ Cardinality(TopBans(u)) \in Nat
  <1>1. IsFiniteSet(Times)
    BY FS_Interval, Parameters DEF Times
  <1>2. ASSUME NEW rs PROVE IsFiniteSet(Carrying(rs, u)) /\ Cardinality(Carrying(rs, u)) \in Nat
    <2>1. Carrying(rs, u) \in SUBSET Reqs /\ IsFiniteSet(Reqs)
      BY BansAssumption DEF Carrying
    <2> QED BY <2>1, FS_Subset, FS_CardinalityType
  <1>3. \A t \in Times : strikes[u][t] \in Nat
    BY DEF TypeOK, DataTypes
  <1>4. SumOver(strikes[u], Times) \in Nat
    BY <1>1, <1>3, SumNat
  <1>5. ASSUME IsFiniteSet(bans[u]) PROVE IsFiniteSet(TopBans(u)) /\ Cardinality(TopBans(u)) \in Nat
    <2>1. TopBans(u) \in SUBSET bans[u]
      BY DEF TopBans
    <2> QED BY <1>5, <2>1, FS_Subset, FS_CardinalityType
  <1> QED BY <1>1, <1>2, <1>4, <1>5

\* A request that is given nothing new to carry adds nothing.
LEMMA CarriesLess ==
    ASSUME TypeOK, NEW u \in Accounts, NEW r \in Reqs, NEW q, req' = [req EXCEPT ![r] = q],
           Carries(q, u) => Carries(req[r], u)
    PROVE  Cardinality(Carrying(req', u)) <= Cardinality(Carrying(req, u))
  <1>1. Carrying(req', u) \in SUBSET Carrying(req, u)
    BY DEF TypeOK, Carrying
  <1> QED BY <1>1, Countable, FS_Subset

\* A request whose ban became a strike carries it no longer.
LEMMA CarriesNoMore ==
    ASSUME TypeOK, NEW u \in Accounts, NEW r \in Reqs, NEW q, req' = [req EXCEPT ![r] = q],
           Carries(req[r], u), ~Carries(q, u)
    PROVE  Cardinality(Carrying(req', u)) = Cardinality(Carrying(req, u)) - 1
  <1>1. Carrying(req', u) = Carrying(req, u) \ {r} /\ r \in Carrying(req, u)
    BY DEF TypeOK, Carrying
  <1> QED BY <1>1, Countable, FS_RemoveElement

\* One request carries one ban.
LEMMA CarriesMore ==
    ASSUME TypeOK, NEW u \in Accounts, NEW r \in Reqs, NEW q, req' = [req EXCEPT ![r] = q]
    PROVE  Cardinality(Carrying(req', u)) <= Cardinality(Carrying(req, u)) + 1
  <1>1. Carrying(req', u) \in SUBSET (Carrying(req, u) \cup {r})
    BY DEF TypeOK, Carrying
  <1>2. IsFiniteSet(Carrying(req, u)) /\ Cardinality(Carrying(req, u)) \in Nat
    BY Countable
  <1>3. /\ IsFiniteSet(Carrying(req, u) \cup {r})
        /\ Cardinality(Carrying(req, u) \cup {r}) \in {Cardinality(Carrying(req, u)), Cardinality(Carrying(req, u)) + 1}
    BY <1>2, FS_AddElement
  <1>4. Cardinality(Carrying(req', u)) <= Cardinality(Carrying(req, u) \cup {r})
    BY <1>1, <1>3, FS_Subset
  <1> QED BY Countable, <1>2, <1>3, <1>4

\* What keeps StrikesEarned: the history and the strikes stay, and the request
\* that moves is given nothing to carry and not sent to DeleteUser.
LEMMA StrikesKept ==
    ASSUME TypeOK, StrikesEarned, UNCHANGED <<strikes, bans>>,
           NEW r \in Reqs, NEW q, req' = [req EXCEPT ![r] = q],
           \A u \in Accounts : Carries(q, u) => Carries(req[r], u), q.pc # "delete"
    PROVE  StrikesEarned'
  <1>1. \A u \in Accounts : TopBans(u)' = TopBans(u) /\ (SumOver(strikes[u], Times))' = SumOver(strikes[u], Times)
    BY DEF TopBans
  <1>2. ASSUME NEW u \in Accounts
        PROVE  IsFiniteSet(bans'[u]) /\ SumOver(strikes'[u], Times) + Cardinality(Carrying(req', u)) <= Cardinality(TopBans(u)')
    <2>1. Cardinality(Carrying(req', u)) <= Cardinality(Carrying(req, u))
      BY CarriesLess
    <2>2. IsFiniteSet(bans[u]) /\ SumOver(strikes[u], Times) + Cardinality(Carrying(req, u)) <= Cardinality(TopBans(u))
      BY DEF StrikesEarned
    <2> QED BY <1>1, <2>1, <2>2, Countable
  <1>3. ASSUME NEW x \in Reqs, req'[x].pc = "delete"
        PROVE  Cardinality((TopBans(req[x].key))') >= DeletionCount
    <2>1. x # r /\ req'[x] = req[x]
      BY <1>3 DEF TypeOK
    <2> QED BY <1>1, <1>3, <2>1 DEF StrikesEarned, TopBans
  <1> QED BY <1>2, <1>3 DEF StrikesEarned
\* A ban is new in the history: whatever was created in this tick is in force,
\* and the violation of a key with a ban in force is ignored.
LEMMA NoteNewBan ==
    ASSUME IInv, NEW r \in Reqs, NoteViolation(r)
    PROVE  \/ Done(r) /\ bans' = bans
           \/ /\ \A b \in bans[req[r].key] : b[1] < now
              /\ \E level \in 1 .. Levels :
                    /\ bans' = [bans EXCEPT ![req[r].key] = @ \cup {<<now, level>>}]
                    /\ \/ Done(r)
                       \/ /\ req[r].key \in Accounts
                          /\ req' = [req EXCEPT ![r].pc = "block", ![r].level = level,
                                                ![r].until = now + Steps[level]]
  <1> DEFINE k     == req[r].key
             known == noted \ Forgotten
             next  == Counted(k, known)
             level == LevelOf(next.banCount)
  <1>t. TypeOK /\ LastsForget /\ Fresh
    BY DEF IInv
  <1>1. /\ k \in Keys /\ known \in SUBSET Keys /\ now \in Nat
        /\ row \in [Keys -> Row] /\ bans \in [Keys -> SUBSET (Nat \X (1 .. Levels))]
    BY <1>t DEF TypeOK, DataTypes, ReqRecord, Forgotten, Times
  <1>2. next \in Row /\ (next.violations >= Threshold => next.banCount > 0)
    BY <1>1, <1>t, CountedRow DEF TypeOK
  <1>3. \A b \in bans[k] : b[1] = now => k \in known /\ row[k].until > now
    BY <1>t, <1>1, ForgottenIsOver DEF Fresh, Row
  <1>4. ASSUME ~(k \in known /\ row[k].until > now) PROVE \A b \in bans[k] : b[1] < now
    BY <1>1, <1>3, <1>4, <1>t DEF Fresh
  <1>5. ASSUME next.violations >= Threshold PROVE level \in 1 .. Levels
    <2> HIDE DEF next
    <2> QED BY <1>2, <1>5, LevelInRange DEF Row
  <1> QED BY <1>t, <1>4, <1>5, NoteCases

\* A new ban of the highest level has one request to carry it.
LEMMA NoteStrikes ==
    ASSUME IInv, StrikesEarned, NEW r \in Reqs, NoteViolation(r)
    PROVE  StrikesEarned'
  <1>t. TypeOK /\ req[r].key \in Keys /\ IdleReq.pc = "idle" /\ strikes' = strikes
    BY NoteCases DEF IInv, IdleReq
  <1>0. req \in [Reqs -> ReqRecord] /\ bans \in [Keys -> SUBSET (Nat \X (1 .. Levels))] /\ now \in Nat
    BY <1>t DEF TypeOK, DataTypes, Times
  <1>1. CASE Done(r) /\ bans' = bans
    BY <1>t, <1>1, StrikesKept DEF Done, Carries
  <1>2. ASSUME \A b \in bans[req[r].key] : b[1] < now, NEW level \in 1 .. Levels,
               bans' = [bans EXCEPT ![req[r].key] = @ \cup {<<now, level>>}],
               NEW q, req' = [req EXCEPT ![r] = q], q.pc # "delete",
               Carries(q, req[r].key) => level = Levels,
               \A u \in Accounts : Carries(q, u) => u = req[r].key
        PROVE  StrikesEarned'
    <2>1. ASSUME NEW u \in Accounts, u # req[r].key
          PROVE  bans'[u] = bans[u] /\ TopBans(u)' = TopBans(u)
      BY <1>0, <1>2, <2>1 DEF TopBans, Keys
    <2>2. ASSUME NEW u \in Accounts, u = req[r].key, IsFiniteSet(bans[u])
          PROVE  /\ IsFiniteSet(bans'[u])
                 /\ Cardinality(TopBans(u)') = Cardinality(TopBans(u)) + IF level = Levels THEN 1 ELSE 0
      <3>1. PICK b : b = <<now, level>>
        OBVIOUS
      <3>2. bans'[u] = bans[u] \cup {b} /\ b[2] = level /\ b \notin bans[u]
        BY <1>0, <1>t, <1>2, <2>2, <3>1
      <3>3. IsFiniteSet(TopBans(u)) /\ Cardinality(TopBans(u)) \in Nat
        BY <1>t, <2>2, Countable
      <3>4. level = Levels => TopBans(u)' = TopBans(u) \cup {b} /\ b \notin TopBans(u)
        BY <3>2 DEF TopBans
      <3>5. level # Levels => TopBans(u)' = TopBans(u)
        BY <3>2 DEF TopBans
      <3>6. IsFiniteSet(bans'[u])
        BY <2>2, <3>2, FS_AddElement
      <3>7. Cardinality(TopBans(u)') = Cardinality(TopBans(u)) + IF level = Levels THEN 1 ELSE 0
        BY <3>3, <3>4, <3>5, FS_AddElement
      <3> QED BY <3>6, <3>7
    <2>3. ASSUME NEW u \in Accounts
          PROVE  /\ IsFiniteSet(bans'[u])
                 /\ SumOver(strikes'[u], Times) + Cardinality(Carrying(req', u)) <= Cardinality(TopBans(u)')
                 /\ Cardinality(TopBans(u)) <= Cardinality(TopBans(u)')
      <3>1. IsFiniteSet(bans[u]) /\ SumOver(strikes[u], Times) + Cardinality(Carrying(req, u)) <= Cardinality(TopBans(u))
        BY DEF StrikesEarned
      <3>2. /\ SumOver(strikes[u], Times) \in Nat /\ Cardinality(Carrying(req, u)) \in Nat
            /\ Cardinality(Carrying(req', u)) \in Nat /\ Cardinality(TopBans(u)) \in Nat
        BY <1>t, <3>1, Countable
      <3>3. CASE u # req[r].key \/ level # Levels
        <4>1. Cardinality(Carrying(req', u)) <= Cardinality(Carrying(req, u))
          BY <1>t, <1>2, <3>3, CarriesLess
        <4>2. IsFiniteSet(bans'[u]) /\ Cardinality(TopBans(u)') = Cardinality(TopBans(u))
          BY <2>1, <2>2, <3>1, <3>2, <3>3
        <4> QED BY <1>t, <3>1, <3>2, <4>1, <4>2
      <3>4. CASE u = req[r].key /\ level = Levels
        <4>1. Cardinality(Carrying(req', u)) <= Cardinality(Carrying(req, u)) + 1
          BY <1>t, <1>2, CarriesMore
        <4>2. IsFiniteSet(bans'[u]) /\ Cardinality(TopBans(u)') = Cardinality(TopBans(u)) + 1
          BY <2>2, <3>1, <3>4
        <4> QED BY <1>t, <3>1, <3>2, <4>1, <4>2
      <3> QED BY <3>3, <3>4
    <2>4. ASSUME NEW x \in Reqs, req'[x].pc = "delete"
          PROVE  Cardinality((TopBans(req[x].key))') >= DeletionCount
      <3>1. x # r /\ req'[x] = req[x]
        BY <1>0, <1>2, <2>4
      <3>2. req[x].key \in Accounts
        BY <1>t, <2>4, <3>1 DEF TypeOK, StageOK
      <3>3. PICK u \in Accounts : u = req[x].key
        BY <3>2
      <3>4. Cardinality(TopBans(u)) >= DeletionCount /\ IsFiniteSet(bans[u]) /\ IsFiniteSet(bans'[u])
        BY <2>3, <2>4, <3>1, <3>3 DEF StrikesEarned
      <3>5. Cardinality(TopBans(u)') >= DeletionCount
        <4>1. Cardinality(TopBans(u)) \in Nat /\ DeletionCount \in Nat
          BY <1>t, <3>4, Countable, BansAssumption
        <4>2. Cardinality(TopBans(u)') \in Nat
          <5>1. TopBans(u)' \in SUBSET bans'[u]
            BY DEF TopBans
          <5> QED BY <3>4, <5>1, FS_Subset, FS_CardinalityType
        <4>3. Cardinality(TopBans(u)) <= Cardinality(TopBans(u)')
          BY <2>3
        <4> QED BY <3>4, <4>1, <4>2, <4>3
      <3> QED BY <3>1, <3>3, <3>5 DEF TopBans
    <2> QED BY <2>3, <2>4 DEF StrikesEarned
  <1>3. ASSUME \A b \in bans[req[r].key] : b[1] < now, NEW level \in 1 .. Levels,
               bans' = [bans EXCEPT ![req[r].key] = @ \cup {<<now, level>>}], Done(r)
        PROVE  StrikesEarned'
    BY <1>t, <1>2, <1>3 DEF Done, Carries
  <1>4. ASSUME \A b \in bans[req[r].key] : b[1] < now, NEW level \in 1 .. Levels,
               bans' = [bans EXCEPT ![req[r].key] = @ \cup {<<now, level>>}],
               NEW until, req' = [req EXCEPT ![r].pc = "block", ![r].level = level, ![r].until = until]
        PROVE  StrikesEarned'
    <2> DEFINE q == [req[r] EXCEPT !.pc = "block", !.level = level, !.until = until]
    <2>1. q.pc = "block" /\ q.level = level /\ q.key = req[r].key
      BY <1>0 DEF ReqRecord
    <2>2. req' = [req EXCEPT ![r] = q]
      BY <1>0, <1>4
    <2> HIDE DEF q
    <2> QED BY <1>2, <1>4, <2>1, <2>2 DEF Carries
  <1>5. CASE ~(Done(r) /\ bans' = bans)
    <2>1. PICK level \in 1 .. Levels :
              /\ bans' = [bans EXCEPT ![req[r].key] = @ \cup {<<now, level>>}]
              /\ \/ Done(r)
                 \/ req' = [req EXCEPT ![r].pc = "block", ![r].level = level, ![r].until = now + Steps[level]]
      BY <1>5, NoteNewBan
    <2>2. \A b \in bans[req[r].key] : b[1] < now
      BY <1>5, NoteNewBan
    <2> QED BY <1>3, <1>4, <2>1, <2>2
  <1> QED BY <1>1, <1>5

\* A strike takes the place of the ban that was carried to it.
LEMMA RecordStrikes ==
    ASSUME IInv, StrikesEarned, NEW r \in Reqs, RecordAccountBan(r)
    PROVE  StrikesEarned'
  <1> DEFINE kept == [a \in Accounts |-> [t \in Times |-> IF t < now - BanWindow THEN 0 ELSE strikes[a][t]]]
             next == [kept EXCEPT ![req[r].key][now] = @ + 1]
  <1>t. TypeOK /\ bans' = bans /\ req[r].pc = "strike" /\ IdleReq.pc = "idle"
    BY DEF IInv, RecordAccountBan, IdleReq
  <1>0. /\ req \in [Reqs -> ReqRecord] /\ now \in Times /\ strikes \in [Accounts -> [Times -> Nat]]
        /\ req[r].key \in Accounts /\ req[r].level = Levels /\ now \in Nat /\ BanWindow \in Nat
    BY <1>t, BansAssumption DEF TypeOK, DataTypes, StageOK, Times
  <1>1. PICK u \in Accounts : u = req[r].key
    BY <1>0
  <1>2. kept \in [Accounts -> [Times -> Nat]] /\ \A a \in Accounts : \A t \in Times : kept[a][t] <= strikes[a][t]
    BY <1>0
  <1>3. strikes' = next /\ (StrikesReached(SumOver(next[u], Times)) \/ Done(r)) /\ (Done(r) \/ Goto(r, "delete"))
    BY <1>1 DEF RecordAccountBan, SumOver
  <1> HIDE DEF kept
  <1>4. /\ next \in [Accounts -> [Times -> Nat]]
        /\ \A a \in Accounts \ {u} : next[a] = kept[a]
        /\ next[u][now] = kept[u][now] + 1 /\ \A t \in Times \ {now} : next[u][t] = kept[u][t]
    BY <1>0, <1>1, <1>2
  <1> HIDE DEF next
  <1>5. PICK q : /\ req' = [req EXCEPT ![r] = q] /\ q.pc \in {"idle", "delete"}
                 /\ q.pc = "delete" => q.key = u /\ StrikesReached(SumOver(next[u], Times))
    <2>1. CASE Done(r)
      BY <1>t, <2>1 DEF Done
    <2>2. CASE ~Done(r)
      <3>1. req' = [req EXCEPT ![r] = [req[r] EXCEPT !.pc = "delete"]]
        BY <1>0, <1>3, <2>2 DEF Goto
      <3>2. [req[r] EXCEPT !.pc = "delete"].pc = "delete" /\ [req[r] EXCEPT !.pc = "delete"].key = u
        BY <1>0, <1>1 DEF ReqRecord
      <3> QED BY <1>3, <2>2, <3>1, <3>2
    <2> QED BY <2>1, <2>2
  <1>6. ASSUME NEW a \in Accounts
        PROVE  /\ SumOver(next[a], Times) + Cardinality(Carrying(req', a)) <= Cardinality(TopBans(a))
               /\ Cardinality(TopBans(a)) \in Nat /\ SumOver(next[a], Times) \in Nat
               /\ Cardinality(Carrying(req', a)) \in Nat
    <2>1. IsFiniteSet(bans[a]) /\ SumOver(strikes[a], Times) + Cardinality(Carrying(req, a)) <= Cardinality(TopBans(a))
      BY DEF StrikesEarned
    <2>2. /\ SumOver(strikes[a], Times) \in Nat /\ Cardinality(Carrying(req, a)) \in Nat
          /\ Cardinality(Carrying(req', a)) \in Nat /\ Cardinality(TopBans(a)) \in Nat /\ IsFiniteSet(Times)
      BY <1>t, <2>1, Countable
    <2>3. /\ \A t \in Times : /\ kept[a][t] \in Nat /\ strikes[a][t] \in Nat /\ next[a][t] \in Nat
                              /\ kept[a][t] <= strikes[a][t]
      BY <1>0, <1>2, <1>4
    <2>4. /\ SumOver(kept[a], Times) \in Nat /\ SumOver(next[a], Times) \in Nat
          /\ SumOver(kept[a], Times) <= SumOver(strikes[a], Times)
      BY <2>2, <2>3, SumNat, SumMonotone
    <2>5. CASE a # u
      <3>1. next[a] = kept[a]
        BY <1>4, <2>5
      <3>2. Cardinality(Carrying(req', a)) <= Cardinality(Carrying(req, a))
        BY <1>t, <1>5, CarriesLess DEF Carries
      <3> QED BY <2>1, <2>2, <2>4, <3>1, <3>2
    <2>6. CASE a = u
      <3>1. SumOver(next[a], Times) = SumOver(kept[a], Times) - kept[a][now] + next[a][now]
        <4>1. \A t \in Times : kept[a][t] \in Nat /\ next[a][t] \in Nat
          BY <2>3
        <4>2. \A t \in Times \ {now} : kept[a][t] = next[a][t]
          BY <1>4, <2>6
        <4>3. PICK f : f = kept[a]
          OBVIOUS
        <4>4. PICK g : g = next[a]
          OBVIOUS
        <4>5. /\ IsFiniteSet(Times) /\ now \in Times /\ \A t \in Times : f[t] \in Nat /\ g[t] \in Nat
              /\ \A t \in Times \ {now} : f[t] = g[t]
          BY <1>0, <2>2, <4>1, <4>2, <4>3, <4>4
        <4>6. SumOver(g, Times) = SumOver(f, Times) - f[now] + g[now]
          BY ONLY <4>5, SumUpdate
        <4> QED BY <4>3, <4>4, <4>6
      <3>2. SumOver(next[a], Times) = SumOver(kept[a], Times) + 1
        <4>1. next[a][now] = kept[a][now] + 1 /\ kept[a][now] \in Nat
          BY <1>0, <1>4, <2>3, <2>6
        <4> QED BY <2>4, <3>1, <4>1
      <3>3. Cardinality(Carrying(req', a)) = Cardinality(Carrying(req, a)) - 1
        <4>1. Carries(req[r], a) /\ ~Carries(q, a)
          BY <1>0, <1>1, <1>t, <1>5, <2>6 DEF Carries
        <4> QED BY <1>t, <1>5, <4>1, CarriesNoMore
      <3> QED BY <2>1, <2>2, <2>4, <3>2, <3>3
    <2> QED BY <2>2, <2>4, <2>5, <2>6
  <1>7. ASSUME NEW x \in Reqs, req'[x].pc = "delete"
        PROVE  Cardinality(TopBans(req'[x].key)) >= DeletionCount
    <2>1. CASE x = r
      <3>1. q.pc = "delete" /\ req'[x] = q
        BY <1>0, <1>5, <1>7, <2>1
      <3>2. req'[x].key = u /\ SumOver(next[u], Times) >= DeletionCount
        BY <1>5, <3>1 DEF StrikesReached
      <3>3. DeletionCount \in Nat
        BY BansAssumption
      <3> QED BY <1>6, <3>2, <3>3
    <2>2. CASE x # r
      BY <1>0, <1>5, <1>7, <2>2 DEF StrikesEarned
    <2> QED BY <2>1, <2>2
  <1>8. \A a \in Accounts : IsFiniteSet(bans[a])
    BY DEF StrikesEarned
  <1> QED BY <1>t, <1>3, <1>6, <1>7, <1>8 DEF StrikesEarned, TopBans

\* The other steps: DeleteUser forgets strikes, and nothing new is carried.
LEMMA OtherStrikes ==
    ASSUME IInv, StrikesEarned, [Next]_vars,
           ~ \E r \in Reqs : NoteViolation(r) \/ RecordAccountBan(r)
    PROVE  StrikesEarned'
  <1>t. TypeOK /\ req \in [Reqs -> ReqRecord] /\ IdleReq.pc = "idle"
    BY DEF IInv, TypeOK, IdleReq
  <1>1. ASSUME NEW r \in Reqs, NEW k \in Keys, Guard(r, k) PROVE StrikesEarned'
    <2>1. [IdleReq EXCEPT !.pc = "handle", !.key = k, !.at = now].pc = "handle"
      BY DEF IdleReq
    <2> QED BY <1>1, <1>t, <2>1, StrikesKept DEF Guard, Carries
  <1>2. ASSUME NEW r \in Reqs, Done(r), UNCHANGED <<strikes, bans>> PROVE StrikesEarned'
    BY <1>2, <1>t, StrikesKept DEF Done, Carries
  <1>3. ASSUME NEW r \in Reqs, Handle(r) PROVE StrikesEarned'
    <2>1. CASE req' = [req EXCEPT ![r].pc = "note", ![r].at = now]
      <3>1. req' = [req EXCEPT ![r] = [req[r] EXCEPT !.pc = "note", !.at = now]]
        BY <1>t, <2>1
      <3>2. [req[r] EXCEPT !.pc = "note", !.at = now].pc = "note"
        BY <1>t DEF ReqRecord
      <3> QED BY <1>3, <1>t, <3>1, <3>2, StrikesKept DEF Handle, Carries
    <2> QED BY <1>2, <1>3, <2>1 DEF Handle
  <1>4. ASSUME NEW r \in Reqs, NEW pc \in {"cleanup", "strike"}, Goto(r, pc),
               req[r].pc \in {"block", "cleanup"}, UNCHANGED <<strikes, bans>>
        PROVE  StrikesEarned'
    <2> DEFINE q == [req[r] EXCEPT !.pc = pc]
    <2>1. req' = [req EXCEPT ![r] = q] /\ q.pc = pc /\ q.key = req[r].key /\ q.level = req[r].level
      BY <1>t, <1>4 DEF Goto, ReqRecord
    <2> HIDE DEF q
    <2>2. q.pc # "delete" /\ \A u \in Accounts : Carries(q, u) => Carries(req[r], u)
      BY <1>4, <2>1 DEF Carries
    <2> QED BY <1>4, <1>t, <2>1, <2>2, StrikesKept
  <1>5. ASSUME NEW r \in Reqs, SetAccountBlock(r) \/ CleanupBannedUser(r) \/ Fail(r) PROVE StrikesEarned'
    BY <1>2, <1>4, <1>5 DEF SetAccountBlock, CleanupBannedUser, Fail
  <1>6. ASSUME NEW r \in Reqs, DeleteUser(r) PROVE StrikesEarned'
    <2>1. /\ bans' = bans /\ req' = [req EXCEPT ![r] = IdleReq]
          /\ strikes \in [Accounts -> [Times -> Nat]]
          /\ strikes' = [strikes EXCEPT ![req[r].key] = NoStrikes]
      BY <1>6, <1>t DEF DeleteUser, Done, TypeOK, DataTypes
    <2>2. ASSUME NEW u \in Accounts
          PROVE  SumOver(strikes'[u], Times) + Cardinality(Carrying(req', u)) <= Cardinality(TopBans(u))
      <3>1. IsFiniteSet(bans[u]) /\ SumOver(strikes[u], Times) + Cardinality(Carrying(req, u)) <= Cardinality(TopBans(u))
        BY DEF StrikesEarned
      <3>2. /\ SumOver(strikes[u], Times) \in Nat /\ Cardinality(Carrying(req, u)) \in Nat
            /\ Cardinality(Carrying(req', u)) \in Nat /\ Cardinality(TopBans(u)) \in Nat /\ IsFiniteSet(Times)
        BY <1>t, <3>1, Countable
      <3>3. Cardinality(Carrying(req', u)) <= Cardinality(Carrying(req, u))
        BY <1>t, <2>1, CarriesLess DEF Carries
      <3>4. \A t \in Times : strikes'[u][t] \in Nat /\ strikes[u][t] \in Nat /\ strikes'[u][t] <= strikes[u][t]
        BY <2>1 DEF NoStrikes
      <3>5. SumOver(strikes'[u], Times) \in Nat /\ SumOver(strikes'[u], Times) <= SumOver(strikes[u], Times)
        BY <3>2, <3>4, SumNat, SumMonotone
      <3> QED BY <3>1, <3>2, <3>3, <3>5
    <2>3. ASSUME NEW x \in Reqs, req'[x].pc = "delete"
          PROVE  Cardinality(TopBans(req'[x].key)) >= DeletionCount
      BY <1>t, <2>1, <2>3 DEF StrikesEarned
    <2> QED BY <2>1, <2>2, <2>3 DEF StrikesEarned, TopBans
  <1>7. CASE UNCHANGED <<strikes, bans, req>>
    BY <1>7 DEF StrikesEarned, TopBans
  <1> QED BY <1>1, <1>3, <1>5, <1>6, <1>7 DEF Next, RequestStep, Refuse, Tick, vars

\* DeleteUser runs only for an account with DeletionCount bans of the highest
\* level: no ban becomes two strikes, although requests see them concurrently
\* and a crash or an error may strike between the ban and its strike.
THEOREM DeletionEarned == Spec => []DeletedAfterTopBans
  <1>1. Init => StrikesEarned /\ DeletedAfterTopBans
    <2> SUFFICES ASSUME Init PROVE StrikesEarned /\ DeletedAfterTopBans
      OBVIOUS
    <2>1. ASSUME NEW u \in Accounts
          PROVE  /\ IsFiniteSet(bans[u])
                 /\ SumOver(strikes[u], Times) + Cardinality(Carrying(req, u)) <= Cardinality(TopBans(u))
      <3>1. bans[u] = {} /\ TopBans(u) = {} /\ Carrying(req, u) = {}
        BY DEF Init, TopBans, Carrying, Carries, IdleReq, Keys
      <3>2. IsFiniteSet(Times) /\ \A t \in Times : strikes[u][t] = 0
        BY FS_Interval, Parameters DEF Init, NoStrikes, Times
      <3>3. SumOver(strikes[u], Times) <= Cardinality(Times) * 0
        BY <3>2, SumBound
      <3>4. SumOver(strikes[u], Times) = 0
        <4>1. SumOver(strikes[u], Times) \in Nat /\ Cardinality(Times) \in Nat
          BY <3>2, SumNat, FS_CardinalityType
        <4> QED BY <3>3, <4>1
      <3> QED BY <3>1, <3>4, FS_EmptySet
    <2> QED BY <2>1 DEF Init, StrikesEarned, DeletedAfterTopBans, IdleReq
  <1>2. IInv /\ StrikesEarned /\ [Next]_vars => StrikesEarned'
    BY NoteStrikes, RecordStrikes, OtherStrikes
  <1>3. IInv /\ StrikesEarned /\ DeletedAfterTopBans /\ [Next]_vars => DeletedAfterTopBans'
    <2> SUFFICES ASSUME IInv, StrikesEarned, DeletedAfterTopBans, [Next]_vars,
                        NEW u \in Accounts, u \notin accounts'
                 PROVE  Cardinality(TopBans(u)') >= DeletionCount
      BY DEF DeletedAfterTopBans
    <2>1. Cardinality(TopBans(u)) >= DeletionCount
      <3>1. \/ accounts' = accounts
            \/ \E r \in Reqs : req[r].pc = "delete" /\ accounts' = accounts \ {req[r].key}
        BY DEF Next, RequestStep, Refuse, Guard, Handle, NoteViolation, SetAccountBlock, CleanupBannedUser,
               RecordAccountBan, DeleteUser, Fail, Tick, vars
      <3> QED BY <3>1 DEF DeletedAfterTopBans, StrikesEarned
    <2>2. TopBans(u) \subseteq TopBans(u)'
      BY BansGrow DEF IInv, TopBans, Keys
    <2>3. IsFiniteSet(TopBans(u)')
      <3>1. IsFiniteSet(bans'[u]) /\ TopBans(u)' \in SUBSET bans'[u]
        BY <1>2 DEF StrikesEarned, TopBans
      <3> QED BY <3>1, FS_Subset
    <2>4. Cardinality(TopBans(u)) <= Cardinality(TopBans(u)')
      BY <2>2, <2>3, FS_Subset
    <2>5. Cardinality(TopBans(u)) \in Nat /\ Cardinality(TopBans(u)') \in Nat /\ DeletionCount \in Nat
      BY <2>2, <2>3, FS_Subset, FS_CardinalityType, BansAssumption
    <2> QED BY <2>1, <2>4, <2>5
  <1> QED BY <1>1, <1>2, <1>3, Invariant, PTL DEF Spec
=============================================================================
