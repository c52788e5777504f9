--------------------------- MODULE MessagesProofs ---------------------------
(***************************************************************************)
(* Proofs about the messages of a group for any number of accounts,        *)
(* requests, messages, keys and event streams, any limits and any lag.     *)
(***************************************************************************)
EXTENDS Messages, Sums, TLAPS

-----------------------------------------------------------------------------
(* Constants and records.                                                  *)

\* The workloads end: MaxTime is the latest of their ends.
LEMMA TimesEnd ==
    /\ MaxTime \in Nat /\ \A w \in Workloads : w.maxTime \in Nat /\ w.maxTime <= MaxTime
    /\ Times = 0 .. MaxTime /\ IsFiniteSet(Times)
  <1> DEFINE E == {w.maxTime : w \in Workloads}
             f == [w \in Workloads |-> w.maxTime]
  <1>w. \A w \in Workloads : w.maxTime \in Nat
    BY MessagesAssumption
  <1>e. Workloads # {} /\ IsFiniteSet(Workloads)
    BY MessagesAssumption
  <1>1. E \subseteq Nat /\ E # {} /\ IsFiniteSet(Workloads)
    BY <1>w, <1>e
  <1>2. f \in Surjection(Workloads, E)
    BY DEF Surjection
  <1>3. IsFiniteSet(E)
    <2> HIDE DEF f, E
    <2> QED BY <1>1, <1>2, FS_Surjection
  <1>4. Max(E) \in E /\ \A x \in E : x <= Max(E)
    <2> HIDE DEF E
    <2> QED BY <1>1, <1>3, FiniteMax
  <1>5. MaxTime = Max(E)
    BY DEF MaxTime
  <1>6. IsFiniteSet(0 .. MaxTime)
    <2>1. 0 \in Int /\ MaxTime \in Int
      BY <1>1, <1>4, <1>5
    <2> QED BY ONLY <2>1, FS_Interval
  <1> QED BY <1>w, <1>1, <1>4, <1>5, <1>6 DEF Times

\* The other constants that steps compute with.
LEMMA Durations ==
    /\ KeyTTL \in Nat \ {0} /\ Refill \in Nat \ {0} /\ BucketTTL \in Nat \ {0} /\ Second \in Nat \ {0}
    /\ CooldownForget \in Nat /\ WarningWindow \in Nat /\ WarningLimit \in Nat \ {0}
    /\ Retention \in Nat /\ MinAge \in Nat /\ ChannelSize \in Nat \ {0}
    /\ Len(Cooldowns) \in Nat \ {0} /\ \A i \in 1 .. Len(Cooldowns) : Cooldowns[i] \in Nat
    /\ None \notin Users /\ None \notin Msgs /\ NoKey \notin Keys /\ Owner \in Users
  <1>0. Cooldowns \in Seq(Nat \ {0}) /\ Cooldowns # <<>>
    BY MessagesAssumption, Zenon
  <1>1. Len(Cooldowns) \in Nat \ {0} /\ \A i \in 1 .. Len(Cooldowns) : Cooldowns[i] \in Nat
    BY ONLY <1>0
  <1>2. /\ KeyTTL \in Nat \ {0} /\ Refill \in Nat \ {0} /\ BucketTTL \in Nat \ {0} /\ Second \in Nat \ {0}
        /\ CooldownForget \in Nat /\ WarningWindow \in Nat /\ WarningLimit \in Nat \ {0}
    BY MessagesAssumption, Zenon
  <1>3. /\ Retention \in Nat /\ MinAge \in Nat /\ ChannelSize \in Nat \ {0}
        /\ None \notin Users /\ None \notin Msgs /\ NoKey \notin Keys /\ Owner \in Users
    BY MessagesAssumption, Zenon
  <1> QED BY <1>1, <1>2, <1>3

\* What is known of a workload.
LEMMA WorkloadOK ==
    ASSUME NEW w \in Workloads
    PROVE  /\ w.users \subseteq Users /\ w.keys \subseteq Keys \cup {NoKey} /\ w.bodies \subseteq Texts
           /\ w.interval \in Nat /\ w.lag \in Nat /\ w.maxTime \in Nat
           /\ w.interval + w.lag * Second <= BucketTTL * Second
  BY MessagesAssumption DEF Texts

\* The idle request is a request, and time 0 exists.
LEMMA IdleTyped ==
    /\ 0 \in Times /\ AnyUser \in Users /\ IdleReq \in ReqRecord
    /\ IdleReq.pc = "idle" /\ IdleReq.id = None /\ IdleReq.late = FALSE /\ IdleReq.isolate = FALSE
    /\ NoMessage \in Message /\ NoOrigin \in Origin /\ NoOrigin.key = NoKey
  <1>1. 0 \in Times
    BY TimesEnd
  <1>2. AnyUser \in Users
    BY Durations DEF AnyUser
  <1>3. IdleReq \in ReqRecord
    BY <1>1, <1>2 DEF IdleReq, ReqRecord, ReqPC, SendPC, Texts
  <1> QED BY <1>1, <1>2, <1>3 DEF IdleReq, NoMessage, NoOrigin, Message, Origin, Texts

\* A clock that a request has read is a time that has come.
LEMMA ClockRead ==
    ASSUME TypeOK, NEW r \in Reqs, NEW t \in Clock(r)
    PROVE  t \in Times /\ t \in Nat /\ req[r].at <= t /\ t <= now /\ req[r].at \in Nat /\ now \in Nat
  <1>1. req[r].at \in Times /\ now \in Times
    BY DEF TypeOK, ReqRecord
  <1> QED BY <1>1, TimesEnd DEF Clock

-----------------------------------------------------------------------------
(* How requests move.                                                      *)

Passed  == {"interval", "repeat", "similar", "limits"}      \* passed the cooldown
Punish  == {"purge", "evaluate", "warning", "violation", "record", "isolate"}
Told    == {"ids", "publish"}

\* A request begins.
Begins(q) ==
    /\ q.at = now /\ ~q.isolate
    /\ \/ q.pc = "reserve" /\ q.id = None
       \/ q.pc = "mark"
       \/ q.pc = "delete" /\ q.id \in stored /\ MayDelete(q.user, q.id)

\* A request goes on with its user and its text, and its clock does not go back.
GoesOn(a, q) ==
    /\ a.pc # "idle" /\ q.pc # "idle" /\ q.user = a.user /\ q.body = a.body /\ q.at \in a.at .. now
    /\ q.late = a.late
    /\ \/ a.pc = "reserve" /\ q.pc = AfterReserve(a.body) /\ q.id \in {a.id} \cup (fresh \ fresh')
       \/ a.pc = "cooldown" /\ q.pc \in Passed /\ q.id = a.id /\ cooldown[a.user].until <= now
       \/ a.pc \in Passed /\ q.pc \in Passed \cup {"add"} /\ q.id = a.id
       \/ q.pc \in Punish
       \/ /\ a.pc = "add" /\ q.pc = "ids" /\ q.event = "created"
          /\ q.id # None /\ q.id \in {a.id} \cup (fresh \ fresh')
       \/ a.pc = "delete" /\ q.pc = "ids" /\ q.event = "deleted" /\ q.id = a.id
       \/ a.pc = "ids" /\ q.pc = "publish" /\ q.id = a.id /\ q.event = a.event /\ q.to = members
       \/ q.pc = "receipts"

Succeeds(a, q) == q = IdleReq \/ (a.pc = "idle" /\ Begins(q)) \/ GoesOn(a, q)

\* Request r moves, and no other.
Moves(r) == \E q \in ReqRecord : req' = [req EXCEPT ![r] = q] /\ Succeeds(req[r], q)

\* Requests that name a message have one.
HasId == \A r \in Reqs : req[r].pc \in Told \cup {"delete"} => req[r].id \in Msgs

\* Requests read the clock before their calls, and are not further behind than
\* the workload lets them be.
OnTime == \A r \in Reqs : req[r].pc # "idle" => req[r].at <= now /\ now <= req[r].at + load.lag

TInv == TypeOK /\ HasId /\ OnTime

\* The parts of a request.
LEMMA ReqParts ==
    ASSUME TypeOK, NEW r \in Reqs
    PROVE  /\ req \in [Reqs -> ReqRecord] /\ req[r] \in ReqRecord
           /\ req[r].user \in Users /\ req[r].body \in Texts /\ req[r].key \in Keys \cup {NoKey}
           /\ req[r].at \in Times /\ req[r].at \in Nat /\ req[r].id \in Msgs \cup {None}
           /\ req[r].todo \in SUBSET Msgs /\ req[r].to \in SUBSET Users
           /\ now \in Nat /\ now \in Times
  BY TimesEnd DEF TypeOK, ReqRecord

\* A request ends.
LEMMA Ends ==
    ASSUME NEW r \in Reqs, Done(r)
    PROVE  Moves(r)
  BY IdleTyped DEF Done, Moves, Succeeds

\* A request that only goes to another place.
LEMMA Goes ==
    ASSUME TypeOK, NEW r \in Reqs, NEW pc \in ReqPC, Goto(r, pc), req[r].pc # "idle", req[r].at <= now,
           \/ req[r].pc = "reserve" /\ pc = AfterReserve(req[r].body)
           \/ req[r].pc \in Passed /\ pc \in Passed \cup {"add"}
           \/ pc \in Punish
    PROVE  Moves(r)
  <1> DEFINE q == [req[r] EXCEPT !.pc = pc]
  <1>1. req[r] \in ReqRecord /\ req \in [Reqs -> ReqRecord] /\ req[r].at \in Nat /\ now \in Nat
    BY ReqParts
  <1>2. req' = [req EXCEPT ![r] = q]
    BY <1>1 DEF Goto
  <1>3. /\ q \in ReqRecord /\ q.pc = pc /\ q.user = req[r].user /\ q.body = req[r].body
        /\ q.at = req[r].at /\ q.id = req[r].id /\ q.late = req[r].late
    BY <1>1 DEF ReqRecord
  <1> HIDE DEF q
  <1>4. q.pc # "idle" /\ q.at \in req[r].at .. now
    BY <1>1, <1>3 DEF AfterReserve, Passed, Punish
  <1>5. GoesOn(req[r], q)
    BY <1>3, <1>4 DEF GoesOn
  <1> QED BY <1>2, <1>3, <1>5 DEF Moves, Succeeds

\* Steps that change nothing but the request's place.
QuietStep(r) ==
    \/ ReserveNothing(r) \/ SimilarMessages(r) \/ EvaluateGroup(r) \/ DeleteRecentRepeatedMessages(r)
    \/ Limits(r) \/ DeleteRecentMessagesByAuthor(r) \/ WarnOnce(r) \/ IsolateMessageAttack(r)
    \/ PublishGroup(r) \/ Abort(r)

\* They move the request as Moves says.
LEMMA QuietMoves ==
    ASSUME TInv, NEW r \in Reqs, QuietStep(r)
    PROVE  Moves(r)
  <1>t. TypeOK /\ (req[r].pc # "idle" => req[r].at <= now)
    BY DEF TInv, OnTime
  <1>1. CASE IsolateMessageAttack(r) \/ PublishGroup(r) \/ Abort(r)
    BY <1>1, Ends DEF IsolateMessageAttack, PublishGroup, Abort
  <1>2. CASE ReserveNothing(r)
    <2>1. AfterReserve(req[r].body) \in ReqPC /\ req[r].pc = "reserve" /\ Goto(r, AfterReserve(req[r].body))
      BY <1>2 DEF ReserveNothing, At, AfterReserve, ReqPC, SendPC
    <2> QED BY <1>t, <2>1, Goes
  <1>3. CASE SimilarMessages(r)
    <2>1. req[r].pc = "similar" /\ \E pc \in {"purge", "limits"} : Goto(r, pc)
      BY <1>3 DEF SimilarMessages, At
    <2> QED BY <1>t, <2>1, Goes DEF ReqPC, SendPC, Passed, Punish
  <1>4. CASE EvaluateGroup(r)
    <2>1. req[r].pc = "evaluate" /\ \E pc \in {"warning", "violation"} : Goto(r, pc)
      BY <1>4 DEF EvaluateGroup, At
    <2> QED BY <1>t, <2>1, Goes DEF ReqPC, SendPC, Passed, Punish
  <1>5. CASE DeleteRecentRepeatedMessages(r)
    <2>1. req[r].pc = "repeat" /\ \E pc \in {"evaluate", "similar"} : Goto(r, pc)
      BY <1>5 DEF DeleteRecentRepeatedMessages, At
    <2> QED BY <1>t, <2>1, Goes DEF ReqPC, SendPC, Passed, Punish
  <1>6. CASE Limits(r)
    <2>1. req[r].pc = "limits" /\ \E pc \in {"purge", "add"} : Goto(r, pc)
      BY <1>6 DEF Limits, At
    <2> QED BY <1>t, <2>1, Goes DEF ReqPC, SendPC, Passed, Punish
  <1>7. CASE DeleteRecentMessagesByAuthor(r)
    <2>1. req[r].pc = "purge" /\ Goto(r, "evaluate")
      BY <1>7 DEF DeleteRecentMessagesByAuthor, At
    <2> QED BY <1>t, <2>1, Goes DEF ReqPC, SendPC, Passed, Punish
  <1>8. CASE WarnOnce(r)
    <2>1. req[r].pc = "violation" /\ (Done(r) \/ \E pc \in {"record", "isolate"} : Goto(r, pc))
      BY <1>8 DEF WarnOnce, At, AfterViolation
    <2>2. ASSUME NEW pc \in {"record", "isolate"}, Goto(r, pc) PROVE Moves(r)
      BY <1>t, <2>1, <2>2, Goes DEF ReqPC, SendPC, Passed, Punish
    <2> QED BY <2>1, <2>2, Ends
  <1> QED BY <1>1, <1>2, <1>3, <1>4, <1>5, <1>6, <1>7, <1>8 DEF QuietStep

\* Requests begin.
LEMMA BeginMoves ==
    ASSUME TInv, NEW r \in Reqs,
           \/ \E u \in load.users, k \in load.keys, b \in load.bodies : Send(r, u, k, b)
           \/ \E u \in load.users, m \in Msgs : DeleteCheck(r, u, m) \/ MarkCheck(r, u, m)
    PROVE  Moves(r)
  <1>t. /\ TypeOK /\ now \in Times /\ load.users \subseteq Users /\ load.keys \subseteq Keys \cup {NoKey}
        /\ load.bodies \subseteq Texts
    BY WorkloadOK DEF TInv, TypeOK
  <1>1. ASSUME NEW u \in load.users, NEW k \in load.keys, NEW b \in load.bodies, Send(r, u, k, b) PROVE Moves(r)
    <2> DEFINE q == [IdleReq EXCEPT !.pc = "reserve", !.user = u, !.key = k, !.body = b, !.at = now]
    <2>1. req' = [req EXCEPT ![r] = q] /\ req[r].pc = "idle"
      BY <1>1 DEF Send, At
    <2>2. q \in ReqRecord /\ q.pc = "reserve" /\ q.at = now /\ q.id = None /\ q.isolate = FALSE
      BY <1>t, IdleTyped DEF ReqRecord, ReqPC, SendPC
    <2> HIDE DEF q
    <2> QED BY <2>1, <2>2 DEF Moves, Succeeds, Begins
  <1>2. ASSUME NEW u \in load.users, NEW m \in Msgs, DeleteCheck(r, u, m) PROVE Moves(r)
    <2> DEFINE q == [IdleReq EXCEPT !.pc = "delete", !.user = u, !.id = m, !.at = now]
    <2>1. req' = [req EXCEPT ![r] = q] /\ req[r].pc = "idle" /\ m \in stored /\ MayDelete(u, m)
      BY <1>2 DEF DeleteCheck, At
    <2>2. q \in ReqRecord /\ q.pc = "delete" /\ q.at = now /\ q.id = m /\ q.isolate = FALSE /\ q.user = u
      BY <1>t, IdleTyped DEF ReqRecord, ReqPC, SendPC
    <2> HIDE DEF q
    <2> QED BY <2>1, <2>2 DEF Moves, Succeeds, Begins
  <1>3. ASSUME NEW u \in load.users, NEW m \in Msgs, MarkCheck(r, u, m) PROVE Moves(r)
    <2> DEFINE q == [IdleReq EXCEPT !.pc = "mark", !.user = u, !.id = m, !.at = now]
    <2>1. req' = [req EXCEPT ![r] = q] /\ req[r].pc = "idle"
      BY <1>3 DEF MarkCheck, At
    <2>2. q \in ReqRecord /\ q.pc = "mark" /\ q.at = now /\ q.isolate = FALSE
      BY <1>t, IdleTyped DEF ReqRecord, ReqPC, SendPC
    <2> HIDE DEF q
    <2> QED BY <2>1, <2>2 DEF Moves, Succeeds, Begins
  <1> QED BY <1>1, <1>2, <1>3

\* Steps that give the request a message or a clock.
BusyStep(r) ==
    \/ Reserve(r) \/ MessageCooldown(r) \/ TakeInterval(r) \/ CreateGroupSpamWarning(r)
    \/ AddMessage(r) \/ GroupMemberIDs(r) \/ DeleteMessage(r) \/ Mark(r) \/ PublishReceipt(r)

\* They move the request as Moves says.
LEMMA BusyMoves ==
    ASSUME TInv, NEW r \in Reqs, BusyStep(r)
    PROVE  Moves(r)
  <1>t. /\ TypeOK /\ req[r] \in ReqRecord /\ req \in [Reqs -> ReqRecord] /\ req[r].at \in Nat /\ now \in Nat
        /\ req[r].at \in Times /\ fresh \subseteq Msgs /\ stored \subseteq Msgs /\ members \subseteq Users
        /\ req[r].id \in Msgs \cup {None} /\ (req[r].pc # "idle" => req[r].at <= now)
        /\ req[r].todo \in SUBSET Msgs /\ None \notin Msgs
    BY ReqParts, Durations DEF TInv, TypeOK, OnTime
  <1>c. ASSUME NEW t \in Clock(r) PROVE t \in Times /\ t \in req[r].at .. now /\ t <= now /\ t \in Nat
    BY <1>c, <1>t, ClockRead
  <1>1. CASE Reserve(r)
    <2>1. CASE Done(r)
      BY <2>1, Ends
    <2>2. CASE ~Done(r)
      <3>1. PICK t \in Clock(r), m \in fresh :
               /\ req' = [req EXCEPT ![r].id = m, ![r].at = t, ![r].pc = AfterReserve(req[r].body)]
               /\ fresh' = fresh \ {m}
        BY <1>1, <2>2 DEF Reserve
      <3> DEFINE q == [req[r] EXCEPT !.id = m, !.at = t, !.pc = AfterReserve(req[r].body)]
      <3>2. req' = [req EXCEPT ![r] = q]
        BY <1>t, <3>1
      <3>3. /\ q \in ReqRecord /\ q.pc = AfterReserve(req[r].body) /\ q.at = t /\ q.id = m
            /\ q.user = req[r].user /\ q.body = req[r].body /\ q.late = req[r].late
        BY <1>t, <1>c DEF ReqRecord, ReqPC, SendPC, AfterReserve
      <3> HIDE DEF q
      <3>4. req[r].pc = "reserve" /\ q.pc # "idle" /\ q.at \in req[r].at .. now
        BY <1>1, <1>c, <3>3 DEF Reserve, At, AfterReserve
      <3> QED BY <3>1, <3>2, <3>3, <3>4 DEF Moves, Succeeds, GoesOn
    <2> QED BY <2>1, <2>2
  <1>2. CASE MessageCooldown(r)
    <2>1. CASE Done(r)
      BY <2>1, Ends
    <2>2. CASE ~Done(r)
      <3>0. PICK pc \in {"interval", "repeat"} : pc = IF load.interval > 0 THEN "interval" ELSE "repeat"
        OBVIOUS
      <3>1. PICK t \in Clock(r) :
               /\ ~(cooldown[req[r].user].until > t)
               /\ req' = [req EXCEPT ![r].at = t, ![r].pc = pc]
        BY <1>2, <2>2, <3>0 DEF MessageCooldown
      <3> DEFINE q == [req[r] EXCEPT !.at = t, !.pc = pc]
      <3>2. req' = [req EXCEPT ![r] = q]
        BY <1>t, <3>1
      <3>3. /\ q \in ReqRecord /\ q.pc = pc /\ q.at = t /\ q.id = req[r].id
            /\ q.user = req[r].user /\ q.body = req[r].body /\ q.late = req[r].late
        BY <1>t, <1>c DEF ReqRecord, ReqPC, SendPC
      <3> HIDE DEF q
      <3>4. cooldown[req[r].user].until <= now
        <4>1. cooldown[req[r].user].until \in Nat
          BY <1>t, ReqParts DEF TypeOK, Cooldown
        <4> QED BY <1>c, <1>t, <3>1, <4>1
      <3>5. req[r].pc = "cooldown" /\ q.pc # "idle" /\ q.pc \in Passed /\ q.at \in req[r].at .. now
        BY <1>2, <1>c, <3>3 DEF MessageCooldown, At, Passed
      <3> QED BY <3>2, <3>3, <3>4, <3>5 DEF Moves, Succeeds, GoesOn
    <2> QED BY <2>1, <2>2
  <1>3. CASE TakeInterval(r)
    <2>1. req[r].pc = "interval" /\ (Done(r) \/ Goto(r, "repeat"))
      BY <1>3 DEF TakeInterval, At
    <2>2. CASE Goto(r, "repeat")
      BY <1>t, <2>1, <2>2, Goes DEF ReqPC, SendPC, Passed
    <2> QED BY <2>1, <2>2, Ends
  <1>4. CASE CreateGroupSpamWarning(r)
    <2>1. PICK i \in BOOLEAN : req' = [req EXCEPT ![r].pc = "violation", ![r].isolate = i]
      BY <1>4 DEF CreateGroupSpamWarning
    <2> DEFINE q == [req[r] EXCEPT !.pc = "violation", !.isolate = i]
    <2>2. req' = [req EXCEPT ![r] = q]
      BY <1>t, <2>1
    <2>3. /\ q \in ReqRecord /\ q.pc = "violation" /\ q.at = req[r].at
          /\ q.user = req[r].user /\ q.body = req[r].body /\ q.late = req[r].late
      BY <1>t DEF ReqRecord, ReqPC, SendPC
    <2> HIDE DEF q
    <2>4. req[r].pc # "idle" /\ q.pc \in Punish /\ q.at \in req[r].at .. now
      BY <1>4, <1>t, <2>3 DEF CreateGroupSpamWarning, At, Punish
    <2> QED BY <2>2, <2>3, <2>4 DEF Moves, Succeeds, GoesOn
  <1>5. CASE AddMessage(r)
    <2>1. PICK m \in IF req[r].id = None THEN fresh ELSE {req[r].id} :
             /\ req' = [req EXCEPT ![r].pc = "ids", ![r].id = m, ![r].event = "created"]
             /\ fresh' = fresh \ {m}
      BY <1>5 DEF AddMessage
    <2> DEFINE q == [req[r] EXCEPT !.pc = "ids", !.id = m, !.event = "created"]
    <2>2. req' = [req EXCEPT ![r] = q]
      BY <1>t, <2>1
    <2>3. m \in Msgs /\ m \in {req[r].id} \cup (fresh \ fresh')
      BY <1>t, <2>1
    <2>4. /\ q \in ReqRecord /\ q.pc = "ids" /\ q.at = req[r].at /\ q.id = m /\ q.event = "created"
          /\ q.user = req[r].user /\ q.body = req[r].body /\ q.late = req[r].late
      BY <1>t, <2>3 DEF ReqRecord, ReqPC, SendPC
    <2> HIDE DEF q
    <2>5. req[r].pc = "add" /\ q.at \in req[r].at .. now
      BY <1>5, <1>t, <2>4 DEF AddMessage, At
    <2> QED BY <1>t, <2>2, <2>3, <2>4, <2>5 DEF Moves, Succeeds, GoesOn
  <1>6. CASE GroupMemberIDs(r)
    <2> DEFINE q == [req[r] EXCEPT !.to = members, !.pc = "publish"]
    <2>1. req' = [req EXCEPT ![r] = q]
      BY <1>6, <1>t DEF GroupMemberIDs
    <2>2. /\ q \in ReqRecord /\ q.pc = "publish" /\ q.at = req[r].at /\ q.id = req[r].id /\ q.event = req[r].event
          /\ q.user = req[r].user /\ q.body = req[r].body /\ q.late = req[r].late /\ q.to = members
      BY <1>t DEF ReqRecord, ReqPC, SendPC
    <2> HIDE DEF q
    <2>3. req[r].pc = "ids" /\ q.at \in req[r].at .. now
      BY <1>6, <1>t, <2>2 DEF GroupMemberIDs, At
    <2> QED BY <2>1, <2>2, <2>3 DEF Moves, Succeeds, GoesOn
  <1>7. CASE DeleteMessage(r)
    <2>1. CASE Done(r)
      BY <2>1, Ends
    <2>2. CASE ~Done(r)
      <3> DEFINE q == [req[r] EXCEPT !.pc = "ids", !.event = "deleted"]
      <3>1. req' = [req EXCEPT ![r] = q]
        BY <1>7, <1>t, <2>2 DEF DeleteMessage
      <3>2. /\ q \in ReqRecord /\ q.pc = "ids" /\ q.at = req[r].at /\ q.id = req[r].id /\ q.event = "deleted"
            /\ q.user = req[r].user /\ q.body = req[r].body /\ q.late = req[r].late
        BY <1>t DEF ReqRecord, ReqPC, SendPC
      <3> HIDE DEF q
      <3>3. req[r].pc = "delete" /\ q.at \in req[r].at .. now
        BY <1>7, <1>t, <3>2 DEF DeleteMessage, At
      <3> QED BY <3>1, <3>2, <3>3 DEF Moves, Succeeds, GoesOn
    <2> QED BY <2>1, <2>2
  <1>8. ASSUME NEW T \in SUBSET Msgs, req[r].pc \in {"mark", "receipts"},
               req' = [req EXCEPT ![r].pc = "receipts", ![r].todo = T]
        PROVE  Moves(r)
    <2> DEFINE q == [req[r] EXCEPT !.pc = "receipts", !.todo = T]
    <2>1. req' = [req EXCEPT ![r] = q]
      BY <1>8, <1>t
    <2>2. /\ q \in ReqRecord /\ q.pc = "receipts" /\ q.at = req[r].at
          /\ q.user = req[r].user /\ q.body = req[r].body /\ q.late = req[r].late
      BY <1>8, <1>t DEF ReqRecord, ReqPC, SendPC
    <2> HIDE DEF q
    <2>3. req[r].pc # "idle" /\ q.at \in req[r].at .. now
      BY <1>8, <1>t, <2>2
    <2> QED BY <2>1, <2>2, <2>3 DEF Moves, Succeeds, GoesOn
  <1>9. CASE Mark(r)
    <2>1. CASE Done(r)
      BY <2>1, Ends
    <2>2. CASE ~Done(r)
      <3>1. PICK T : T = {n \in UpTo(req[r].id) : msg[n].author # req[r].user}
        OBVIOUS
      <3>2. T \in SUBSET Msgs
        BY <1>t, <3>1 DEF UpTo
      <3>3. req[r].pc \in {"mark", "receipts"} /\ req' = [req EXCEPT ![r].pc = "receipts", ![r].todo = T]
        BY <1>9, <2>2, <3>1 DEF Mark, At
      <3> QED BY <1>8, <3>2, <3>3
    <2> QED BY <2>1, <2>2
  <1>10. CASE PublishReceipt(r)
    <2>1. CASE Done(r)
      BY <2>1, Ends
    <2>2. CASE ~Done(r)
      <3>1. PICK m \in req[r].todo : req' = [req EXCEPT ![r].todo = @ \ {m}]
        BY <1>10, <2>2 DEF PublishReceipt
      <3>2. PICK T : T = req[r].todo \ {m}
        OBVIOUS
      <3>3. T \in SUBSET Msgs /\ req[r].pc = "receipts"
        BY <1>10, <1>t, <3>2 DEF PublishReceipt, At
      <3>4. req' = [req EXCEPT ![r].pc = "receipts", ![r].todo = T]
        <4>1. [req[r] EXCEPT !.todo = T] = [req[r] EXCEPT !.pc = "receipts", !.todo = T]
          BY <1>t, <3>3 DEF ReqRecord
        <4>2. req' = [req EXCEPT ![r] = [req[r] EXCEPT !.todo = T]]
          BY <1>t, <3>1, <3>2
        <4>3. [req EXCEPT ![r].pc = "receipts", ![r].todo = T]
                  = [req EXCEPT ![r] = [req[r] EXCEPT !.pc = "receipts", !.todo = T]]
          BY <1>t
        <4> QED BY <4>1, <4>2, <4>3
      <3> QED BY <1>8, <3>3, <3>4
    <2> QED BY <2>1, <2>2
  <1> QED BY <1>1, <1>2, <1>3, <1>4, <1>5, <1>6, <1>7, <1>9, <1>10 DEF BusyStep

\* RecordMessageViolation marks other requests of the author as late.
LateNow(x) == req'[x] = [req[x] EXCEPT !.late = TRUE]

\* What a step does to a request.
Change(x) == req'[x] = req[x] \/ LateNow(x) \/ Succeeds(req[x], req'[x])

\* A recorded violation ends or isolates, and the author's other requests that
\* have passed the cooldown are late from now on.
LEMMA RecordMoves ==
    ASSUME TInv, NEW r \in Reqs, RecordMessageViolation(r)
    PROVE  /\ req' \in [Reqs -> ReqRecord] /\ \A x \in Reqs : Change(x)
           /\ req'[r].pc \in {"isolate", "idle"}
           /\ \A x \in Reqs \ {r} :
                /\ req'[x] = req[x] \/ LateNow(x)
                /\ req[x].user = req[r].user /\ req[x].pc \in Passed \cup {"add"} => req'[x].late
  <1>t. /\ TypeOK /\ req \in [Reqs -> ReqRecord] /\ req[r].at \in Nat /\ now \in Nat
        /\ req[r].at <= now /\ req[r].pc = "record"
    BY ReqParts DEF TInv, TypeOK, OnTime, RecordMessageViolation, At
  <1>1. ASSUME NEW x \in Reqs \ {r}
        PROVE  /\ req'[x] \in ReqRecord /\ (req'[x] = req[x] \/ LateNow(x))
               /\ req[x].user = req[r].user /\ req[x].pc \in Passed \cup {"add"} => req'[x].late
    <2>0. req[x] \in ReqRecord
      BY <1>t
    <2>1. [req[x] EXCEPT !.late = TRUE] \in ReqRecord /\ [req[x] EXCEPT !.late = TRUE].late
      BY ONLY <2>0 DEF ReqRecord
    <2>2. req'[x] = IF req[x].user = req[r].user /\ req[x].pc \in SendPC \ {"reserve", "cooldown"}
                    THEN [req[x] EXCEPT !.late = TRUE] ELSE req[x]
      BY DEF RecordMessageViolation
    <2> QED BY <2>0, <2>1, <2>2 DEF LateNow, SendPC, Passed
  <1>2. PICK q : q = [req[r] EXCEPT !.pc = "isolate"]
    OBVIOUS
  <1>3. req'[r] = IdleReq \/ req'[r] = q
    BY <1>2 DEF RecordMessageViolation
  <1>4. /\ q \in ReqRecord /\ q.pc = "isolate" /\ q.at = req[r].at
        /\ q.user = req[r].user /\ q.body = req[r].body /\ q.late = req[r].late
    BY <1>2, <1>t DEF ReqRecord, ReqPC, SendPC
  <1>5. Succeeds(req[r], q)
    <2>1. q.at \in req[r].at .. now
      BY <1>t, <1>4
    <2> QED BY <1>t, <1>4, <2>1 DEF Succeeds, GoesOn, Punish
  <1>6. Succeeds(req[r], req'[r]) /\ req'[r] \in ReqRecord /\ req'[r].pc \in {"isolate", "idle"}
    BY <1>3, <1>4, <1>5, IdleTyped DEF Succeeds
  <1>7. req' \in [Reqs -> ReqRecord]
    <2>1. DOMAIN req' = Reqs /\ req' = [x \in DOMAIN req' |-> req'[x]]
      BY DEF RecordMessageViolation
    <2> QED BY <1>1, <1>6, <2>1
  <1> QED BY <1>1, <1>6, <1>7 DEF Change

\* The steps, by what they do to requests.
BeginStep(r) ==
    \/ \E u \in load.users, k \in load.keys, b \in load.bodies : Send(r, u, k, b)
    \/ \E u \in load.users, m \in Msgs : DeleteCheck(r, u, m) \/ MarkCheck(r, u, m)
HubStep == \E s \in Streams : (\E u \in load.users : Subscribe(s, u)) \/ Receive(s) \/ Unsubscribe(s)
MemberStep == \E u \in load.users : Join(u) \/ Leave(u)
BanStep == \E u \in load.users : CleanupBannedUser(u)

\* Every step is one of them.
LEMMA StepCases ==
    ASSUME [Next]_vars
    PROVE  \/ \E r \in Reqs : BeginStep(r) \/ QuietStep(r) \/ BusyStep(r) \/ RecordMessageViolation(r)
           \/ HubStep \/ MemberStep \/ DeleteOldMessages \/ BanStep \/ Restart \/ Tick \/ UNCHANGED vars
  BY DEF Next, SendStep, BeginStep, QuietStep, BusyStep, HubStep, MemberStep, BanStep, Answer

\* Every step moves requests in one of these ways.
LEMMA ReqStep ==
    ASSUME TInv, [Next]_vars
    PROVE  req' \in [Reqs -> ReqRecord] /\ \A x \in Reqs : Change(x)
  <1>t. req \in [Reqs -> ReqRecord]
    BY DEF TInv, TypeOK
  <1>1. ASSUME NEW r \in Reqs, Moves(r)
        PROVE  req' \in [Reqs -> ReqRecord] /\ \A x \in Reqs : Change(x)
    BY <1>1, <1>t DEF Moves, Change
  <1>2. ASSUME NEW r \in Reqs, BeginStep(r) \/ QuietStep(r) \/ BusyStep(r) PROVE Moves(r)
    BY <1>2, BeginMoves, QuietMoves, BusyMoves DEF BeginStep
  <1>3. ASSUME UNCHANGED req
        PROVE  req' \in [Reqs -> ReqRecord] /\ \A x \in Reqs : Change(x)
    BY <1>3, <1>t DEF Change
  <1>4. CASE HubStep \/ MemberStep \/ DeleteOldMessages \/ BanStep \/ Tick \/ UNCHANGED vars
    <2>1. UNCHANGED req
      BY <1>4 DEF HubStep, Subscribe, Receive, Unsubscribe, MemberStep, Join, Leave, DeleteOldMessages, BanStep,
                  CleanupBannedUser, Tick, vars
    <2> QED BY <1>3, <2>1
  <1>5. CASE Restart
    BY <1>5, IdleTyped DEF Restart, Change, Succeeds
  <1> QED BY <1>1, <1>2, <1>4, <1>5, RecordMoves, StepCases

-----------------------------------------------------------------------------
(* Which steps write which tables.                                         *)

Writes ==
    /\ load' = load
    /\ now' = now \/ Tick
    /\ UNCHANGED fresh \/ \E r \in Reqs : Reserve(r) \/ AddMessage(r)
    /\ UNCHANGED <<keys, origin>> \/ \E r \in Reqs : Reserve(r)
    /\ UNCHANGED msg \/ \E r \in Reqs : AddMessage(r)
    /\ UNCHANGED seen \/ \E r \in Reqs : Mark(r)
    /\ UNCHANGED entitled \/ (\E r \in Reqs : AddMessage(r)) \/ \E u \in load.users : Join(u)
    /\ UNCHANGED <<bucket, passed>> \/ \E r \in Reqs : TakeInterval(r)
    /\ UNCHANGED cooldown \/ \E r \in Reqs : RecordMessageViolation(r)
    /\ UNCHANGED warnings \/ \E r \in Reqs : CreateGroupSpamWarning(r)

\* What removes messages.
Removes ==
    \/ \E r \in Reqs : DeleteRecentRepeatedMessages(r) \/ DeleteRecentMessagesByAuthor(r) \/ DeleteMessage(r)
    \/ DeleteOldMessages \/ BanStep

WritesToo ==
    /\ UNCHANGED <<stored, reads>> \/ Removes \/ \E r \in Reqs : AddMessage(r) \/ Mark(r)
    /\ UNCHANGED members \/ (\E r \in Reqs : IsolateMessageAttack(r)) \/ MemberStep
    /\ UNCHANGED warned \/ (\E r \in Reqs : Limits(r) \/ WarnOnce(r)) \/ Restart
    /\ UNCHANGED <<stream, chan>> \/ (\E r \in Reqs : PublishGroup(r) \/ PublishReceipt(r)) \/ HubStep \/ Restart

\* What the quiet steps of a request write.
LEMMA QuietWrites ==
    ASSUME NEW r \in Reqs, BeginStep(r) \/ QuietStep(r)
    PROVE  Writes /\ WritesToo
  <1>1. CASE BeginStep(r)
    BY <1>1 DEF BeginStep, Send, DeleteCheck, MarkCheck, tables, hub, ghost, Writes, WritesToo
  <1>2. CASE ReserveNothing(r) \/ SimilarMessages(r) \/ EvaluateGroup(r) \/ Abort(r)
    BY <1>2 DEF ReserveNothing, SimilarMessages, EvaluateGroup, Abort, tables, hub, ghost, Writes, WritesToo
  <1>3. CASE DeleteRecentRepeatedMessages(r) \/ DeleteRecentMessagesByAuthor(r)
    <2>1. UNCHANGED <<now, load, members, fresh, msg, keys, cooldown, bucket, warned, warnings, stream, chan,
                      origin, passed, seen, entitled>>
      BY <1>3 DEF DeleteRecentRepeatedMessages, DeleteRecentMessagesByAuthor, hub, ghost
    <2> QED BY <1>3, <2>1 DEF Writes, WritesToo, Removes
  <1>4. CASE Limits(r) \/ WarnOnce(r)
    <2>1. UNCHANGED <<now, load, members, fresh, msg, keys, cooldown, bucket, warnings, stream, chan,
                      origin, passed, seen, entitled, stored, reads>>
      BY <1>4 DEF Limits, WarnOnce, tables, hub, ghost
    <2> QED BY <1>4, <2>1 DEF Writes, WritesToo
  <1>5. CASE IsolateMessageAttack(r)
    <2>1. UNCHANGED <<now, load, fresh, msg, keys, cooldown, bucket, warned, warnings, stream, chan,
                      origin, passed, seen, entitled, stored, reads>>
      BY <1>5 DEF IsolateMessageAttack, tables, hub, ghost
    <2> QED BY <1>5, <2>1 DEF Writes, WritesToo
  <1>6. CASE PublishGroup(r)
    <2>1. UNCHANGED <<now, load, members, fresh, msg, keys, cooldown, bucket, warned, warnings,
                      origin, passed, seen, entitled, stored, reads>>
      BY <1>6 DEF PublishGroup, tables, ghost
    <2> QED BY <1>6, <2>1 DEF Writes, WritesToo
  <1> QED BY <1>1, <1>2, <1>3, <1>4, <1>5, <1>6 DEF QuietStep

\* What the other steps of a request write.
LEMMA BusyWrites ==
    ASSUME NEW r \in Reqs, BusyStep(r) \/ RecordMessageViolation(r)
    PROVE  Writes /\ WritesToo
  <1>1. CASE Reserve(r)
    <2>1. UNCHANGED <<now, load, members, msg, cooldown, bucket, warned, warnings, stream, chan,
                      passed, seen, entitled, stored, reads>>
      BY <1>1 DEF Reserve, hub
    <2> QED BY <1>1, <2>1 DEF Writes, WritesToo
  <1>2. CASE MessageCooldown(r) \/ GroupMemberIDs(r)
    <2>1. UNCHANGED <<now, load, members, fresh, msg, keys, cooldown, bucket, warned, warnings, stream, chan,
                      origin, passed, seen, entitled, stored, reads>>
      BY <1>2 DEF MessageCooldown, GroupMemberIDs, tables, hub, ghost
    <2> QED BY <2>1 DEF Writes, WritesToo
  <1>3. CASE TakeInterval(r)
    <2>1. UNCHANGED <<now, load, members, fresh, msg, keys, cooldown, warned, warnings, stream, chan,
                      origin, seen, entitled, stored, reads>>
      BY <1>3 DEF TakeInterval, hub
    <2> QED BY <1>3, <2>1 DEF Writes, WritesToo
  <1>4. CASE CreateGroupSpamWarning(r)
    <2>1. UNCHANGED <<now, load, members, fresh, msg, keys, cooldown, bucket, warned, stream, chan,
                      origin, passed, seen, entitled, stored, reads>>
      BY <1>4 DEF CreateGroupSpamWarning, hub, ghost
    <2> QED BY <1>4, <2>1 DEF Writes, WritesToo
  <1>5. CASE AddMessage(r)
    <2>1. UNCHANGED <<now, load, members, keys, cooldown, bucket, warned, warnings, stream, chan,
                      origin, passed, seen, reads>>
      BY <1>5 DEF AddMessage, hub
    <2> QED BY <1>5, <2>1 DEF Writes, WritesToo
  <1>6. CASE DeleteMessage(r)
    <2>1. UNCHANGED <<now, load, members, fresh, msg, keys, cooldown, bucket, warned, warnings, stream, chan,
                      origin, passed, seen, entitled>>
      BY <1>6 DEF DeleteMessage, hub, ghost
    <2> QED BY <1>6, <2>1 DEF Writes, WritesToo, Removes
  <1>7. CASE Mark(r)
    <2>1. UNCHANGED <<now, load, members, fresh, msg, keys, cooldown, bucket, warned, warnings, stream, chan,
                      origin, passed, entitled, stored>>
      BY <1>7 DEF Mark, hub
    <2> QED BY <1>7, <2>1 DEF Writes, WritesToo
  <1>8. CASE PublishReceipt(r)
    <2>1. UNCHANGED <<now, load, members, fresh, msg, keys, cooldown, bucket, warned, warnings,
                      origin, passed, seen, entitled, stored, reads>>
      BY <1>8 DEF PublishReceipt, tables, ghost
    <2> QED BY <1>8, <2>1 DEF Writes, WritesToo
  <1>9. CASE RecordMessageViolation(r)
    <2>1. UNCHANGED <<now, load, members, fresh, msg, keys, bucket, warned, warnings, stream, chan,
                      origin, passed, seen, entitled, stored, reads>>
      BY <1>9 DEF RecordMessageViolation, hub, ghost
    <2> QED BY <1>9, <2>1 DEF Writes, WritesToo
  <1> QED BY <1>1, <1>2, <1>3, <1>4, <1>5, <1>6, <1>7, <1>8, <1>9 DEF BusyStep

\* What every step writes.
LEMMA StepWrites == [Next]_vars => Writes /\ WritesToo
  <1> SUFFICES ASSUME [Next]_vars PROVE Writes /\ WritesToo
    OBVIOUS
  <1>1. CASE HubStep
    <2>1. UNCHANGED <<now, load, members, fresh, msg, keys, cooldown, bucket, warned, warnings,
                      origin, passed, seen, entitled, stored, reads>>
      BY <1>1 DEF HubStep, Subscribe, Receive, Unsubscribe, tables, ghost
    <2> QED BY <1>1, <2>1 DEF Writes, WritesToo
  <1>2. CASE MemberStep
    <2>1. UNCHANGED <<now, load, fresh, msg, keys, cooldown, bucket, warned, warnings, stream, chan,
                      origin, passed, seen, stored, reads>>
      BY <1>2 DEF MemberStep, Join, Leave, tables, hub, ghost
    <2>2. entitled' = entitled \/ \E u \in load.users : Join(u)
      BY <1>2 DEF MemberStep, Leave, ghost
    <2> QED BY <1>2, <2>1, <2>2 DEF Writes, WritesToo
  <1>3. CASE DeleteOldMessages \/ BanStep
    <2>1. UNCHANGED <<now, load, members, fresh, msg, keys, cooldown, bucket, warned, warnings, stream, chan,
                      origin, passed, seen, entitled>>
      BY <1>3 DEF DeleteOldMessages, BanStep, CleanupBannedUser, hub, ghost
    <2> QED BY <1>3, <2>1 DEF Writes, WritesToo, Removes
  <1>4. CASE Restart
    <2>1. UNCHANGED <<now, load, members, fresh, msg, keys, cooldown, bucket, warnings,
                      origin, passed, seen, entitled, stored, reads>>
      BY <1>4 DEF Restart, tables, ghost
    <2> QED BY <1>4, <2>1 DEF Writes, WritesToo
  <1>5. CASE Tick
    <2>1. UNCHANGED <<load, members, fresh, msg, keys, cooldown, bucket, warned, warnings, stream, chan,
                      origin, passed, seen, entitled, stored, reads>>
      BY <1>5 DEF Tick, tables, hub, ghost
    <2> QED BY <1>5, <2>1 DEF Writes, WritesToo
  <1>6. CASE UNCHANGED vars
    BY <1>6 DEF vars, Writes, WritesToo
  <1> QED BY <1>1, <1>2, <1>3, <1>4, <1>5, <1>6, QuietWrites, BusyWrites, StepCases

-----------------------------------------------------------------------------
(* Types.                                                                  *)

\* Whatever removes messages removes their receipts.
LEMMA RemovesDrop ==
    ASSUME Removes
    PROVE  \E M : Drop(M)
  BY DEF Removes, DeleteRecentRepeatedMessages, DeleteRecentMessagesByAuthor, DeleteMessage, DeleteOldMessages,
         BanStep, CleanupBannedUser

\* AddMessage stores message m, with a clock of t.
AddsAs(r, t, m) ==
    /\ t <= now /\ m \in IF req[r].id = None THEN fresh ELSE {req[r].id}
    /\ fresh' = fresh \ {m} /\ stored' = stored \cup {m}
    /\ msg' = [msg EXCEPT ![m] = [author |-> req[r].user, body |-> req[r].body, created |-> t]]
    /\ entitled' = [entitled EXCEPT ![m] = members]
    /\ req' = [req EXCEPT ![r].pc = "ids", ![r].id = m, ![r].event = "created"]

\* Its message exists, and its clock has come.
LEMMA Adds ==
    ASSUME TypeOK, NEW r \in Reqs, AddMessage(r)
    PROVE  \E t \in Times, m \in Msgs : AddsAs(r, t, m)
  <1>1. PICK t \in Clock(r), m \in IF req[r].id = None THEN fresh ELSE {req[r].id} :
             /\ fresh' = fresh \ {m} /\ stored' = stored \cup {m}
             /\ msg' = [msg EXCEPT ![m] = [author |-> req[r].user, body |-> req[r].body, created |-> t]]
             /\ entitled' = [entitled EXCEPT ![m] = members]
             /\ req' = [req EXCEPT ![r].pc = "ids", ![r].id = m, ![r].event = "created"]
    BY DEF AddMessage
  <1>2. t \in Times /\ t <= now
    BY <1>1, ClockRead
  <1>3. m \in Msgs
    BY <1>1, ReqParts DEF TypeOK
  <1> QED BY <1>1, <1>2, <1>3 DEF AddsAs

\* Messages, their columns and their receipts.
LEMMA TablesTyped ==
    ASSUME TInv, [Next]_vars
    PROVE  /\ now' \in Times /\ load' \in Workloads /\ members' \subseteq Users /\ fresh' \subseteq Msgs
           /\ stored' \subseteq Msgs \ fresh' /\ msg' \in [Msgs -> Message] /\ reads' \subseteq stored' \X Users
  <1>t. /\ TypeOK /\ now \in Times /\ load \in Workloads /\ members \subseteq Users /\ fresh \subseteq Msgs
        /\ stored \subseteq Msgs \ fresh /\ msg \in [Msgs -> Message] /\ reads \subseteq stored \X Users
    BY DEF TInv, TypeOK
  <1>w. Writes /\ WritesToo
    BY StepWrites
  <1>1. load' \in Workloads
    BY <1>t, <1>w DEF Writes
  <1>2. now' \in Times
    <2>1. CASE Tick
      BY <1>t, <2>1, TimesEnd DEF Tick
    <2> QED BY <1>t, <1>w, <2>1 DEF Writes
  <1>3. members' \subseteq Users
    <2>1. CASE MemberStep
      <3>1. load.users \subseteq Users
        BY <1>t, WorkloadOK
      <3> QED BY <1>t, <2>1, <3>1 DEF MemberStep, Join, Leave
    <2>2. ASSUME NEW r \in Reqs, IsolateMessageAttack(r) PROVE members' \subseteq Users
      BY <1>t, <2>2 DEF IsolateMessageAttack
    <2> QED BY <1>t, <1>w, <2>1, <2>2 DEF WritesToo
  <1>4. ASSUME NEW r \in Reqs, AddMessage(r)
        PROVE  /\ fresh' \subseteq Msgs /\ stored' \subseteq Msgs \ fresh' /\ msg' \in [Msgs -> Message]
               /\ reads' \subseteq stored' \X Users
    <2>0. PICK t \in Times, m \in Msgs : AddsAs(r, t, m)
      BY <1>4, <1>t, Adds
    <2>1. /\ fresh' = fresh \ {m} /\ stored' = stored \cup {m}
          /\ msg' = [msg EXCEPT ![m] = [author |-> req[r].user, body |-> req[r].body, created |-> t]]
      BY <2>0 DEF AddsAs
    <2>2. [author |-> req[r].user, body |-> req[r].body, created |-> t] \in Message
      BY <1>t, ReqParts DEF Message
    <2>3. reads' = reads
      BY <1>4 DEF AddMessage
    <2> QED BY <1>t, <2>1, <2>2, <2>3
  <1>5. ASSUME NEW r \in Reqs, Reserve(r) PROVE fresh' \subseteq fresh
    BY <1>5 DEF Reserve
  <1>6. fresh' \subseteq Msgs /\ (fresh' \subseteq fresh \/ \E r \in Reqs : AddMessage(r))
    BY <1>t, <1>w, <1>4, <1>5 DEF Writes
  <1>7. msg' \in [Msgs -> Message]
    BY <1>t, <1>w, <1>4 DEF Writes
  <1>8. ASSUME NEW r \in Reqs, Mark(r) PROVE stored' = stored /\ reads' \subseteq stored \X Users
    <2>1. stored' = stored /\ (reads' = reads \/ reads' = reads \cup (UpTo(req[r].id) \X {req[r].user}))
      BY <1>8 DEF Mark
    <2>2. UpTo(req[r].id) \subseteq stored /\ req[r].user \in Users
      BY <1>t, ReqParts DEF UpTo
    <2> QED BY <1>t, <2>1, <2>2
  <1>9. ASSUME NEW M, Drop(M) PROVE stored' \subseteq stored /\ reads' \subseteq stored' \X Users
    <2>1. stored' = stored \ M /\ reads' = {x \in reads : x[1] \notin M}
      BY <1>9 DEF Drop
    <2> QED BY <1>t, <2>1
  <1>10. CASE \E r \in Reqs : AddMessage(r)
    BY <1>1, <1>2, <1>3, <1>4, <1>10
  <1>11. CASE ~ \E r \in Reqs : AddMessage(r)
    <2>1. stored' \subseteq stored /\ reads' \subseteq stored' \X Users
      BY <1>t, <1>w, <1>8, <1>9, <1>11, RemovesDrop DEF WritesToo
    <2> QED BY <1>1, <1>2, <1>3, <1>6, <1>7, <1>11, <1>t, <2>1
  <1> QED BY <1>10, <1>11

\* Reserve finds the key, or writes a row for a message that is new.
Known(r, t) == \E k \in Live(t) : k.user = req[r].user /\ k.key = req[r].key
Reserves(r, t, m) ==
    /\ ~Known(r, t)
    /\ fresh' = fresh \ {m}
    /\ keys' = Live(t) \cup {[user |-> req[r].user, key |-> req[r].key, id |-> m, expires |-> t + KeyTTL]}
    /\ origin' = [origin EXCEPT ![m] = [user |-> req[r].user, key |-> req[r].key, at |-> t]]
    /\ req' = [req EXCEPT ![r].id = m, ![r].at = t, ![r].pc = AfterReserve(req[r].body)]

\* ReserveIdempotencyKey finds a live row, or makes one for a new message.
LEMMA ReserveCases ==
    ASSUME TypeOK, NEW r \in Reqs, Reserve(r)
    PROVE  /\ req[r].key \in Keys /\ req[r].key # NoKey /\ req[r].pc = "reserve"
           /\ \E t \in Times :
                /\ t \in Nat /\ req[r].at <= t /\ t <= now
                /\ \/ Known(r, t) /\ keys' = Live(t) /\ UNCHANGED <<fresh, origin>> /\ Done(r)
                   \/ \E m \in fresh : Reserves(r, t, m)
  <1>1. req[r].key \in Keys /\ req[r].key # NoKey /\ req[r].pc = "reserve"
    BY ReqParts DEF Reserve, At
  <1>2. PICK t \in Clock(r) :
          \/ Known(r, t) /\ keys' = Live(t) /\ UNCHANGED <<fresh, origin>> /\ Done(r)
          \/ \E m \in fresh : Reserves(r, t, m)
    BY DEF Reserve, Known, Reserves
  <1>3. t \in Times /\ t \in Nat /\ req[r].at <= t /\ t <= now
    BY <1>2, ClockRead
  <1> QED BY <1>1, <1>2, <1>3

\* A user has one row per key.
LEMMA KeysTyped ==
    ASSUME TInv, [Next]_vars
    PROVE  /\ keys' \subseteq KeyRow /\ \A a, b \in keys' : a.user = b.user /\ a.key = b.key => a = b
           /\ origin' \in [Msgs -> Origin]
  <1>t. /\ TypeOK /\ keys \subseteq KeyRow /\ \A a, b \in keys : a.user = b.user /\ a.key = b.key => a = b
        /\ origin \in [Msgs -> Origin] /\ fresh \subseteq Msgs
    BY DEF TInv, TypeOK
  <1>1. ASSUME NEW r \in Reqs, Reserve(r)
        PROVE  /\ keys' \subseteq KeyRow /\ \A a, b \in keys' : a.user = b.user /\ a.key = b.key => a = b
               /\ origin' \in [Msgs -> Origin]
    <2>1. req[r].key \in Keys /\ req[r].user \in Users
      BY <1>1, <1>t, ReserveCases, ReqParts
    <2>2. PICK t \in Times :
             /\ t \in Nat
             /\ \/ Known(r, t) /\ keys' = Live(t) /\ UNCHANGED <<fresh, origin>>
                \/ \E m \in fresh : Reserves(r, t, m)
      BY <1>1, <1>t, ReserveCases
    <2>3. Live(t) \subseteq keys
      BY DEF Live
    <2>4. CASE keys' = Live(t) /\ UNCHANGED <<fresh, origin>>
      BY <1>t, <2>3, <2>4
    <2>5. ASSUME NEW m \in fresh, Reserves(r, t, m)
          PROVE  /\ keys' \subseteq KeyRow /\ \A a, b \in keys' : a.user = b.user /\ a.key = b.key => a = b
                 /\ origin' \in [Msgs -> Origin]
      <3>1. PICK row : row = [user |-> req[r].user, key |-> req[r].key, id |-> m, expires |-> t + KeyTTL]
        OBVIOUS
      <3>2. row \in KeyRow /\ row.user = req[r].user /\ row.key = req[r].key
        BY <1>t, <2>1, <2>2, <3>1, Durations DEF KeyRow
      <3>3. keys' = Live(t) \cup {row}
        BY <2>5, <3>1 DEF Reserves
      <3>4. \A k \in Live(t) : ~(k.user = row.user /\ k.key = row.key)
        BY <2>5, <3>2 DEF Reserves, Known
      <3>5. [user |-> req[r].user, key |-> req[r].key, at |-> t] \in Origin
        BY <2>1 DEF Origin
      <3>6. origin' \in [Msgs -> Origin]
        BY <1>t, <2>5, <3>5 DEF Reserves
      <3> QED BY <1>t, <2>3, <3>2, <3>3, <3>4, <3>6
    <2> QED BY <2>2, <2>4, <2>5
  <1> QED BY <1>t, <1>1, StepWrites DEF Writes

\* What the bucket holds is at most the interval, and what it held and what the
\* seconds since have refilled, unless its row has expired.
LEMMA RefilledNat ==
    ASSUME NEW b \in Bucket, NEW t \in Nat, NEW d, load.interval \in Nat
    PROVE  /\ Refilled(b, t, d) \in Nat /\ Refilled(b, t, d) <= load.interval
           /\ ~(b.expires <= d) =>
                Refilled(b, t, d) <= b.tokens + (IF t > b.updated THEN (t - b.updated) * Second ELSE 0)
  <1>1. b.tokens \in Nat /\ b.updated \in Nat /\ Second \in Nat
    BY TimesEnd, Durations DEF Bucket
  <1>2. PICK s \in Nat : s = b.tokens + (IF t > b.updated THEN (t - b.updated) * Second ELSE 0)
    <2>1. CASE t > b.updated
      <3>1. PICK e \in Nat : e = t - b.updated
        BY <1>1, <2>1
      <3>2. e * Second \in Nat
        BY <1>1
      <3> QED BY <1>1, <2>1, <3>1, <3>2
    <2>2. CASE ~(t > b.updated)
      BY <1>1, <2>2
    <2> QED BY <2>1, <2>2
  <1>3. Refilled(b, t, d) = IF b.expires <= d \/ s > load.interval THEN load.interval ELSE s
    BY <1>2 DEF Refilled
  <1> QED BY <1>2, <1>3

\* TakeRateLimit with a clock of t finds n tokens, in a row that is gone when it
\* has expired at d.
TakesAs(r, u, t, d, n) ==
    /\ u = req[r].user /\ n = Refilled(bucket[u], t, d)
    /\ \/ /\ n < load.interval /\ Done(r)
          /\ bucket' = [bucket EXCEPT ![u] = [tokens |-> n, updated |-> t, expires |-> t + BucketTTL]]
          /\ passed' = [passed EXCEPT ![u] =
                [at |-> passed[u].at,
                 back |-> passed[u].back + IF t < bucket[u].updated THEN bucket[u].updated - t ELSE 0]]
       \/ /\ ~(n < load.interval) /\ Goto(r, "repeat")
          /\ bucket' = [bucket EXCEPT ![u] =
                [tokens |-> n - load.interval, updated |-> t, expires |-> t + BucketTTL]]
          /\ passed' = [passed EXCEPT ![u] = [at |-> t, back |-> 0]]

LEMMA TakesTokens ==
    ASSUME TypeOK, NEW r \in Reqs, TakeInterval(r)
    PROVE  \E u \in Users, n \in Nat, t \in Clock(r) : \E d \in t .. now :
              /\ TakesAs(r, u, t, d, n) /\ n <= load.interval /\ t \in Times /\ t \in Nat
  <1>1. PICK u : u = req[r].user
    OBVIOUS
  <1>t. /\ u \in Users /\ bucket[u] \in Bucket /\ passed[u] \in Pass /\ load.interval \in Nat
        /\ passed \in [Users -> Pass]
    BY <1>1, ReqParts, WorkloadOK DEF TypeOK
  <1>2. PICK t \in Clock(r) : \E d \in t .. now :
           IF Refilled(bucket[u], t, d) < load.interval
           THEN /\ bucket' = [bucket EXCEPT ![u] =
                      [tokens |-> Refilled(bucket[u], t, d), updated |-> t, expires |-> t + BucketTTL]]
                /\ Done(r)
                /\ passed' = [passed EXCEPT ![u].back =
                      @ + IF t < bucket[u].updated THEN bucket[u].updated - t ELSE 0]
           ELSE /\ bucket' = [bucket EXCEPT ![u] =
                      [tokens |-> Refilled(bucket[u], t, d) - load.interval, updated |-> t, expires |-> t + BucketTTL]]
                /\ Goto(r, "repeat")
                /\ passed' = [passed EXCEPT ![u] = [at |-> t, back |-> 0]]
    BY <1>1 DEF TakeInterval
  <1>3. PICK d \in t .. now :
           IF Refilled(bucket[u], t, d) < load.interval
           THEN /\ bucket' = [bucket EXCEPT ![u] =
                      [tokens |-> Refilled(bucket[u], t, d), updated |-> t, expires |-> t + BucketTTL]]
                /\ Done(r)
                /\ passed' = [passed EXCEPT ![u].back =
                      @ + IF t < bucket[u].updated THEN bucket[u].updated - t ELSE 0]
           ELSE /\ bucket' = [bucket EXCEPT ![u] =
                      [tokens |-> Refilled(bucket[u], t, d) - load.interval, updated |-> t, expires |-> t + BucketTTL]]
                /\ Goto(r, "repeat")
                /\ passed' = [passed EXCEPT ![u] = [at |-> t, back |-> 0]]
    BY <1>2
  <1>4. PICK n : n = Refilled(bucket[u], t, d)
    OBVIOUS
  <1>5. n \in Nat /\ n <= load.interval /\ t \in Times /\ t \in Nat
    BY <1>t, <1>4, ClockRead, RefilledNat
  <1>6. PICK late : late = IF t < bucket[u].updated THEN bucket[u].updated - t ELSE 0
    OBVIOUS
  <1>7. [passed EXCEPT ![u].back = @ + late] =
            [passed EXCEPT ![u] = [at |-> passed[u].at, back |-> passed[u].back + late]]
    <2>1. [passed[u] EXCEPT !.back = @ + late] = [at |-> passed[u].at, back |-> passed[u].back + late]
      BY <1>t DEF Pass
    <2> QED BY <1>t, <2>1
  <1>8. TakesAs(r, u, t, d, n)
    BY <1>1, <1>3, <1>4, <1>6, <1>7 DEF TakesAs
  <1> QED BY <1>t, <1>5, <1>8

\* Cooldowns, buckets, warnings.
LEMMA GuardTyped ==
    ASSUME TInv, [Next]_vars
    PROVE  /\ cooldown' \in [Users -> Cooldown] /\ bucket' \in [Users -> Bucket] /\ passed' \in [Users -> Pass]
           /\ warned' \in [Users -> Nat] /\ warnings' \in [Times -> Nat]
  <1>t. /\ TypeOK /\ cooldown \in [Users -> Cooldown] /\ bucket \in [Users -> Bucket] /\ passed \in [Users -> Pass]
        /\ warned \in [Users -> Nat] /\ warnings \in [Times -> Nat] /\ load \in Workloads /\ load.interval \in Nat
    BY WorkloadOK DEF TInv, TypeOK
  <1>w. Writes /\ WritesToo
    BY StepWrites
  <1>1. ASSUME NEW r \in Reqs, RecordMessageViolation(r) PROVE cooldown' \in [Users -> Cooldown]
    <2>1. PICK u, at : u = req[r].user /\ at = req[r].at
      OBVIOUS
    <2>2. u \in Users /\ at \in Times /\ at \in Nat
      BY <1>t, <2>1, ReqParts
    <2>3. PICK level : level = NextLevel(u, at)
      OBVIOUS
    <2>4. cooldown[u].level \in 0 .. Len(Cooldowns)
      BY <1>t, <2>2 DEF Cooldown
    <2>5. level \in 1 .. Len(Cooldowns)
      BY <2>3, <2>4, Durations DEF NextLevel
    <2>6. cooldown' = [cooldown EXCEPT ![u] = [level |-> level, until |-> at + Cooldowns[level], last |-> at]]
      BY <1>1, <2>1, <2>3 DEF RecordMessageViolation
    <2>7. [level |-> level, until |-> at + Cooldowns[level], last |-> at] \in Cooldown
      BY <2>2, <2>5, Durations DEF Cooldown
    <2> QED BY <1>t, <2>2, <2>6, <2>7
  <1>2. ASSUME NEW r \in Reqs, TakeInterval(r) PROVE bucket' \in [Users -> Bucket] /\ passed' \in [Users -> Pass]
    <2>1. PICK u \in Users, n \in Nat, t \in Times : \E d : TakesAs(r, u, t, d, n)
      BY <1>2, <1>t, TakesTokens
    <2>2. t \in Nat /\ bucket[u] \in Bucket /\ passed[u] \in Pass /\ bucket[u].updated \in Nat
          /\ passed[u].at \in Int /\ passed[u].back \in Nat
      BY <1>t, TimesEnd DEF Bucket, Pass
    <2>3. \A m \in Nat : [tokens |-> m, updated |-> t, expires |-> t + BucketTTL] \in Bucket
      BY <2>2, Durations DEF Bucket
    <2>4. \A e \in Nat : [at |-> passed[u].at, back |-> passed[u].back + e] \in Pass /\ [at |-> t, back |-> 0] \in Pass
      BY <2>2 DEF Pass
    <2>5. PICK late \in Nat : late = IF t < bucket[u].updated THEN bucket[u].updated - t ELSE 0
      BY <2>2
    <2>6. CASE n < load.interval
      <3>1. /\ bucket' = [bucket EXCEPT ![u] = [tokens |-> n, updated |-> t, expires |-> t + BucketTTL]]
            /\ passed' = [passed EXCEPT ![u] = [at |-> passed[u].at, back |-> passed[u].back + late]]
        BY <2>1, <2>5, <2>6 DEF TakesAs
      <3> QED BY <1>t, <2>3, <2>4, <3>1
    <2>7. CASE ~(n < load.interval)
      <3>1. /\ bucket' = [bucket EXCEPT ![u] = [tokens |-> n - load.interval, updated |-> t, expires |-> t + BucketTTL]]
            /\ passed' = [passed EXCEPT ![u] = [at |-> t, back |-> 0]]
        BY <2>1, <2>7 DEF TakesAs
      <3>2. n - load.interval \in Nat
        BY <1>t, <2>7
      <3> QED BY <1>t, <2>3, <2>4, <3>1, <3>2
    <2> QED BY <2>6, <2>7
  <1>3. ASSUME NEW r \in Reqs, CreateGroupSpamWarning(r) PROVE warnings' \in [Times -> Nat]
    <2>1. PICK t : t = req[r].at
      OBVIOUS
    <2>2. PICK kept : kept = [s \in Times |-> IF s < t - WarningWindow THEN 0 ELSE warnings[s]]
      OBVIOUS
    <2>3. kept \in [Times -> Nat]
      BY <1>t, <2>2
    <2>4. warnings' \in {kept, [kept EXCEPT ![t] = @ + 1]}
      BY <1>3, <2>1, <2>2 DEF CreateGroupSpamWarning
    <2> QED BY <2>3, <2>4
  <1>4. ASSUME NEW r \in Reqs, Limits(r) \/ WarnOnce(r) PROVE warned' \in [Users -> Nat]
    <2>1. req[r].at \in Nat /\ req[r].user \in Users
      BY <1>t, ReqParts
    <2>2. warned' = warned \/ \E n \in Nat : warned' = [warned EXCEPT ![req[r].user] = n]
      <3>1. CASE Limits(r)
        BY <3>1 DEF Limits
      <3>2. CASE WarnOnce(r)
        <4>1. req[r].at + Refill \in Nat
          BY <2>1, Durations
        <4>2. warned' = warned \/ warned' = [warned EXCEPT ![req[r].user] = req[r].at + Refill]
          BY <3>2 DEF WarnOnce
        <4> QED BY <4>1, <4>2
      <3> QED BY <1>4, <3>1, <3>2
    <2> QED BY <1>t, <2>1, <2>2
  <1>5. CASE Restart
    BY <1>5, <1>t, <1>w DEF Restart, Writes, tables, ghost
  <1>6. warned' \in [Users -> Nat]
    BY <1>t, <1>w, <1>4, <1>5 DEF WritesToo
  <1> QED BY <1>t, <1>w, <1>1, <1>2, <1>3, <1>6 DEF Writes

\* Receipts and memberships.
LEMMA HistoryTyped ==
    ASSUME TInv, [Next]_vars
    PROVE  seen' \in [Users -> Int] /\ entitled' \in [Msgs -> SUBSET Users]
  <1>t. /\ TypeOK /\ seen \in [Users -> Int] /\ entitled \in [Msgs -> SUBSET Users] /\ load.users \subseteq Users
        /\ members \subseteq Users /\ msg \in [Msgs -> Message] /\ stored \subseteq Msgs
    BY WorkloadOK DEF TInv, TypeOK
  <1>1. ASSUME NEW r \in Reqs, Mark(r) PROVE seen' \in [Users -> Int]
    <2>1. PICK m, u : m = req[r].id /\ u = req[r].user
      OBVIOUS
    <2>2. seen' = seen \/ (m \in stored /\ seen' \in {seen, [seen EXCEPT ![u] = msg[m].created]})
      <3>1. CASE m \notin stored
        BY <1>1, <2>1, <3>1 DEF Mark
      <3>2. CASE m \in stored
        <4>1. seen' = [seen EXCEPT ![u] = IF msg[m].created > @ THEN msg[m].created ELSE @]
          BY <1>1, <2>1, <3>2 DEF Mark
        <4> QED BY <1>t, <3>2, <4>1
      <3> QED BY <3>1, <3>2
    <2>3. m \in stored => msg[m].created \in Int
      BY <1>t, TimesEnd DEF Message
    <2> QED BY <1>t, <2>2, <2>3
  <1>2. ASSUME NEW r \in Reqs, AddMessage(r) PROVE entitled' \in [Msgs -> SUBSET Users]
    BY <1>2, <1>t, Adds DEF AddsAs
  <1>3. ASSUME NEW u \in load.users, Join(u) PROVE entitled' \in [Msgs -> SUBSET Users]
    BY <1>3, <1>t DEF Join
  <1> QED BY <1>t, <1>1, <1>2, <1>3, StepWrites DEF Writes

\* Publish appends to a channel that has room.
LEMMA AppendTyped ==
    ASSUME NEW c \in Seq(Event), NEW d, NEW e \in Event, Len(c) <= ChannelSize,
           d = c \/ (Len(c) < ChannelSize /\ d = Append(c, e))
    PROVE  d \in Seq(Event) /\ Len(d) <= ChannelSize
  <1>1. CASE d = c
    BY <1>1
  <1>2. CASE Len(c) < ChannelSize /\ d = Append(c, e)
    <2>1. Len(d) = Len(c) + 1 /\ d \in Seq(Event) /\ Len(c) \in Nat
      BY <1>2
    <2> QED BY <1>2, <2>1, Durations
  <1> QED BY <1>1, <1>2

\* Streams have a user or none, and no channel exceeds its capacity.
LEMMA HubTyped ==
    ASSUME TInv, [Next]_vars
    PROVE  /\ stream' \in [Streams -> Users \cup {None}]
           /\ chan' \in [Streams -> Seq(Event)] /\ \A s \in Streams : Len(chan'[s]) <= ChannelSize
  <1>t. /\ TypeOK /\ stream \in [Streams -> Users \cup {None}] /\ load.users \subseteq Users
        /\ chan \in [Streams -> Seq(Event)] /\ \A s \in Streams : Len(chan[s]) <= ChannelSize
    BY WorkloadOK DEF TInv, TypeOK
  <1>1. ASSUME NEW e \in Event, NEW to, Publish(to, e)
        PROVE  chan' \in [Streams -> Seq(Event)] /\ \A s \in Streams : Len(chan'[s]) <= ChannelSize
    <2>1. ASSUME NEW s \in Streams PROVE chan'[s] \in Seq(Event) /\ Len(chan'[s]) <= ChannelSize
      <3>1. chan'[s] = chan[s] \/ (Len(chan[s]) < ChannelSize /\ chan'[s] = Append(chan[s], e))
        BY <1>1 DEF Publish
      <3>2. chan[s] \in Seq(Event) /\ Len(chan[s]) <= ChannelSize
        BY <1>t
      <3>3. PICK c, d : c = chan[s] /\ d = chan'[s]
        OBVIOUS
      <3>4. d \in Seq(Event) /\ Len(d) <= ChannelSize
        BY <3>1, <3>2, <3>3, AppendTyped
      <3> QED BY <3>3, <3>4
    <2>2. DOMAIN chan' = Streams /\ chan' = [s \in DOMAIN chan' |-> chan'[s]]
      BY <1>1 DEF Publish
    <2> QED BY <2>1, <2>2
  <1>2. ASSUME NEW r \in Reqs, PublishGroup(r)
        PROVE  stream' = stream /\ chan' \in [Streams -> Seq(Event)] /\ \A s \in Streams : Len(chan'[s]) <= ChannelSize
    <2>1. req[r].id \in Msgs /\ req[r].event \in {"created", "deleted"} /\ stream' = stream
      BY <1>2, ReqParts DEF TInv, HasId, Told, PublishGroup, At, ReqRecord
    <2>2. [type |-> req[r].event, id |-> req[r].id] \in Event
      BY <2>1 DEF Event
    <2> QED BY <1>1, <1>2, <2>1, <2>2 DEF PublishGroup
  <1>3. ASSUME NEW r \in Reqs, PublishReceipt(r)
        PROVE  stream' = stream /\ chan' \in [Streams -> Seq(Event)] /\ \A s \in Streams : Len(chan'[s]) <= ChannelSize
    <2>1. stream' = stream /\ req[r].todo \subseteq Msgs
      BY <1>3, <1>t, ReqParts DEF PublishReceipt
    <2>2. CASE chan' = chan
      BY <1>t, <2>1, <2>2
    <2>3. CASE chan' # chan
      <3>1. PICK m \in req[r].todo : Publish({msg[m].author}, [type |-> "read", id |-> m])
        BY <1>3, <2>3 DEF PublishReceipt
      <3>2. [type |-> "read", id |-> m] \in Event
        BY <2>1 DEF Event
      <3> QED BY <1>1, <2>1, <3>1, <3>2
    <2> QED BY <2>2, <2>3
  <1>4. ASSUME NEW s \in Streams, NEW u \in load.users, Subscribe(s, u)
        PROVE  stream' \in [Streams -> Users \cup {None}] /\ chan' = chan
    BY <1>4, <1>t DEF Subscribe
  <1>5. ASSUME NEW s \in Streams, Receive(s)
        PROVE  stream' = stream /\ chan' \in [Streams -> Seq(Event)] /\ \A x \in Streams : Len(chan'[x]) <= ChannelSize
    <2>1. stream' = stream /\ chan' = [chan EXCEPT ![s] = Tail(@)] /\ chan[s] # <<>>
      BY <1>5 DEF Receive
    <2>2. chan[s] \in Seq(Event) /\ Len(chan[s]) <= ChannelSize
      BY <1>t
    <2>3. Tail(chan[s]) \in Seq(Event) /\ Len(Tail(chan[s])) <= Len(chan[s]) /\ Len(Tail(chan[s])) \in Nat
      BY <2>1, <2>2
    <2>4. Len(Tail(chan[s])) <= ChannelSize
      BY <2>2, <2>3, Durations
    <2> QED BY <1>t, <2>1, <2>3, <2>4
  <1>6. ASSUME NEW s \in Streams, Unsubscribe(s)
        PROVE  /\ stream' \in [Streams -> Users \cup {None}]
               /\ chan' \in [Streams -> Seq(Event)] /\ \A x \in Streams : Len(chan'[x]) <= ChannelSize
    <2>1. stream' = [stream EXCEPT ![s] = None] /\ chan' = [chan EXCEPT ![s] = <<>>]
      BY <1>6 DEF Unsubscribe
    <2>2. <<>> \in Seq(Event) /\ Len(<<>>) = 0 /\ 0 <= ChannelSize
      BY Durations
    <2> QED BY <1>t, <2>1, <2>2
  <1>7. ASSUME Restart
        PROVE  /\ stream' \in [Streams -> Users \cup {None}]
               /\ chan' \in [Streams -> Seq(Event)] /\ \A x \in Streams : Len(chan'[x]) <= ChannelSize
    <2>1. stream' = [s \in Streams |-> None] /\ chan' = [s \in Streams |-> <<>>]
      BY <1>7 DEF Restart
    <2>2. <<>> \in Seq(Event) /\ Len(<<>>) = 0 /\ 0 <= ChannelSize
      BY Durations
    <2> QED BY <2>1, <2>2
  <1> QED BY <1>t, <1>2, <1>3, <1>4, <1>5, <1>6, <1>7, StepWrites DEF WritesToo, HubStep

\* Init's requests are idle and its tables empty.
LEMMA InitTyped == Init => TInv
  <1> SUFFICES ASSUME Init PROVE TInv
    OBVIOUS
  <1>t. 0 \in Times /\ load \in Workloads /\ load.users \subseteq Users /\ load.interval \in Int /\ load.lag \in Int
    BY IdleTyped, WorkloadOK DEF Init
  <1>1. fresh \subseteq Msgs
    BY DEF Init, kSubset
  <1>2. cooldown \in [Users -> Cooldown] /\ bucket \in [Users -> Bucket]
    BY <1>t, Durations DEF Init, Cooldown, Bucket
  <1>3. /\ chan \in [Streams -> Seq(Event)] /\ \A s \in Streams : Len(chan[s]) <= ChannelSize
        /\ stream \in [Streams -> Users \cup {None}]
    BY Durations DEF Init
  <1>4. passed \in [Users -> Pass] /\ seen \in [Users -> Int]
    BY <1>t DEF Init, Pass
  <1>5. req \in [Reqs -> ReqRecord] /\ \A r \in Reqs : req[r].pc = "idle"
    BY IdleTyped DEF Init
  <1>6. /\ stored = {} /\ reads = {} /\ keys = {} /\ now = 0 /\ members = load.users
        /\ warned \in [Users -> Nat] /\ warnings \in [Times -> Nat] /\ entitled \in [Msgs -> SUBSET Users]
        /\ msg \in [Msgs -> Message] /\ origin \in [Msgs -> Origin]
    BY IdleTyped DEF Init
  <1>7. TypeOK
    BY <1>t, <1>1, <1>2, <1>3, <1>4, <1>5, <1>6 DEF TypeOK
  <1>8. HasId /\ OnTime
    BY <1>5 DEF HasId, OnTime, Told
  <1> QED BY <1>7, <1>8 DEF TInv

\* Every step keeps the types, the identifiers and the clocks of requests.
LEMMA StepTyped == TInv /\ [Next]_vars => TInv'
  <1> SUFFICES ASSUME TInv, [Next]_vars PROVE TInv'
    OBVIOUS
  <1>1. req' \in [Reqs -> ReqRecord] /\ \A x \in Reqs : Change(x)
    BY ReqStep
  <1>2. TypeOK'
    BY <1>1, TablesTyped, KeysTyped, GuardTyped, HistoryTyped, HubTyped DEF TypeOK
  <1>t. TypeOK /\ HasId /\ OnTime /\ stored \subseteq Msgs /\ load.lag \in Nat /\ now \in Nat /\ load' = load
    BY WorkloadOK, TimesEnd, StepWrites DEF TInv, TypeOK, Writes
  <1>3. ASSUME NEW x \in Reqs, req'[x].pc \in Told \cup {"delete"} PROVE req'[x].id \in Msgs
    <2>0. Change(x) /\ req'[x] \in ReqRecord /\ req[x] \in ReqRecord
      BY <1>1, <1>t, ReqParts
    <2>1. CASE req'[x] = req[x]
      BY <1>3, <1>t, <2>1 DEF HasId
    <2>2. CASE LateNow(x)
      <3>1. req'[x].pc = req[x].pc /\ req'[x].id = req[x].id
        BY <2>0, <2>2 DEF LateNow, ReqRecord
      <3> QED BY <1>3, <1>t, <3>1 DEF HasId
    <2>3. CASE Succeeds(req[x], req'[x])
      <3>1. req'[x].id \in Msgs \cup {None}
        BY <2>0 DEF ReqRecord
      <3>2. ~(req'[x] = IdleReq)
        BY <1>3, IdleTyped DEF Told
      <3>3. CASE Begins(req'[x])
        BY <1>3, <1>t, <3>3 DEF Begins, Told
      <3>4. CASE GoesOn(req[x], req'[x])
        <4>1. \/ req[x].pc = "add" /\ req'[x].id # None
              \/ req[x].pc = "delete" /\ req'[x].id = req[x].id
              \/ req[x].pc = "ids" /\ req'[x].id = req[x].id
          BY <1>3, <3>4 DEF GoesOn, Told, Passed, Punish, AfterReserve
        <4> QED BY <1>t, <3>1, <4>1 DEF HasId, Told
      <3> QED BY <2>3, <3>2, <3>3, <3>4 DEF Succeeds
    <2> QED BY <2>0, <2>1, <2>2, <2>3 DEF Change
  <1>4. ASSUME NEW x \in Reqs, req'[x].pc # "idle", now' = now
        PROVE  req'[x].at <= now' /\ now' <= req'[x].at + load'.lag
    <2>0. Change(x) /\ req'[x] \in ReqRecord /\ req[x] \in ReqRecord /\ req[x].at \in Nat
      BY <1>1, <1>t, ReqParts
    <2>1. CASE req'[x] = req[x]
      BY <1>4, <1>t, <2>1 DEF OnTime
    <2>2. CASE LateNow(x)
      <3>1. req'[x].pc = req[x].pc /\ req'[x].at = req[x].at
        BY <2>0, <2>2 DEF LateNow, ReqRecord
      <3> QED BY <1>4, <1>t, <3>1 DEF OnTime
    <2>3. CASE Succeeds(req[x], req'[x])
      <3>1. ~(req'[x] = IdleReq)
        BY <1>4, IdleTyped
      <3>2. CASE Begins(req'[x])
        BY <1>4, <1>t, <3>2 DEF Begins
      <3>3. CASE GoesOn(req[x], req'[x])
        <4>1. req[x].pc # "idle" /\ req'[x].at \in req[x].at .. now
          BY <3>3 DEF GoesOn
        <4>2. req[x].at <= now /\ now <= req[x].at + load.lag
          BY <1>t, <4>1 DEF OnTime
        <4> QED BY <1>4, <1>t, <2>0, <4>1, <4>2
      <3> QED BY <2>3, <3>1, <3>2, <3>3 DEF Succeeds
    <2> QED BY <2>0, <2>1, <2>2, <2>3 DEF Change
  <1>5. CASE Tick
    <2>1. ASSUME NEW x \in Reqs, req'[x].pc # "idle" PROVE req'[x].at <= now' /\ now' <= req'[x].at + load'.lag
      <3>1. req' = req /\ now' = now + 1 /\ now < req[x].at + load.lag
        BY <1>5, <2>1 DEF Tick, At
      <3>2. req[x].at <= now /\ req[x].at \in Nat
        BY <1>t, <2>1, <3>1, ReqParts DEF OnTime
      <3> QED BY <1>t, <3>1, <3>2
    <2> QED BY <1>2, <1>3, <2>1 DEF TInv, HasId, OnTime
  <1>6. CASE now' = now
    BY <1>2, <1>3, <1>4, <1>6 DEF TInv, HasId, OnTime
  <1> QED BY <1>5, <1>6, StepWrites DEF Writes

\* The typing invariant, for use below.
LEMMA TypeInvariant == Spec => []TInv
  BY InitTyped, StepTyped, PTL DEF Spec

\* The tables, requests, streams and channels keep their types: receipts and
\* messages refer to rows that exist, a user has one row per key, and no channel
\* exceeds its capacity.
THEOREM TypeCorrect == Spec => []TypeOK
  <1>1. TInv => TypeOK
    BY DEF TInv
  <1> QED BY <1>1, TypeInvariant, PTL

-----------------------------------------------------------------------------
(* Idempotency keys.                                                       *)

\* A message that was reserved has its row in idempotency_keys until it expires.
RowOf(m) == \E k \in keys : /\ k.user = origin[m].user /\ k.key = origin[m].key
                            /\ k.expires = origin[m].at + KeyTTL
KeysKept ==
    /\ \A m \in fresh : origin[m].key = NoKey
    /\ \A m \in Msgs \ fresh : origin[m].key # NoKey => RowOf(m) \/ origin[m].at + KeyTTL <= now

KInv == KeysKept /\ PostedOnce

\* The parts of an origin.
LEMMA OriginParts ==
    ASSUME TypeOK, NEW m \in Msgs
    PROVE  origin[m] \in Origin /\ origin[m].at \in Nat /\ origin \in [Msgs -> Origin]
  BY TimesEnd DEF TypeOK, Origin

\* A key is reserved for a message that is new.
LEMMA ReserveOnce ==
    ASSUME TInv, KInv, NEW r \in Reqs, NEW t \in Nat, NEW a \in fresh, Reserves(r, t, a),
           req[r].at <= t, t <= now, req[r].key # NoKey, req[r].pc = "reserve", UNCHANGED <<now, load>>
    PROVE  KInv'
  <1>t. /\ TypeOK /\ fresh \subseteq Msgs /\ now \in Nat /\ load.lag \in Nat /\ KeyTTL \in Nat
        /\ origin \in [Msgs -> Origin] /\ req[r].at \in Nat /\ now <= req[r].at + load.lag
    BY WorkloadOK, ReqParts, Durations DEF TInv, TypeOK, OnTime
  <1>1. PICK o : o = [user |-> req[r].user, key |-> req[r].key, at |-> t]
    OBVIOUS
  <1>2. o.user = req[r].user /\ o.key = req[r].key /\ o.at = t
    BY <1>1
  <1>3. /\ fresh' = fresh \ {a} /\ origin' = [origin EXCEPT ![a] = o]
        /\ keys' = Live(t) \cup {[user |-> o.user, key |-> o.key, id |-> a, expires |-> o.at + KeyTTL]}
    BY <1>1, <1>2 DEF Reserves
  <1>4. a \in Msgs /\ origin'[a] = o /\ \A m \in Msgs \ {a} : origin'[m] = origin[m]
    BY <1>3, <1>t
  <1>5. ASSUME NEW m \in Msgs \ fresh, origin[m].key # NoKey
        PROVE  RowOf(m)' \/ origin[m].at + KeyTTL <= t \/ origin[m].at + KeyTTL <= now
    <2>1. CASE RowOf(m)
      <3>1. PICK k \in keys : /\ k.user = origin[m].user /\ k.key = origin[m].key
                              /\ k.expires = origin[m].at + KeyTTL
        BY <2>1 DEF RowOf
      <3>2. CASE k.expires > t
        <4>1. k \in keys' /\ origin'[m] = origin[m]
          BY <1>3, <1>4, <3>2 DEF Live
        <4> QED BY <3>1, <4>1 DEF RowOf
      <3>3. CASE ~(k.expires > t)
        <4>1. origin[m].at \in Nat
          BY <1>t, OriginParts
        <4> QED BY <1>t, <3>1, <3>3, <4>1
      <3> QED BY <3>2, <3>3
    <2> QED BY <1>5, <2>1 DEF KInv, KeysKept
  <1>6. RowOf(a)'
    <2>1. PICK k : k = [user |-> o.user, key |-> o.key, id |-> a, expires |-> o.at + KeyTTL]
      OBVIOUS
    <2>2. k \in keys' /\ k.user = o.user /\ k.key = o.key /\ k.expires = o.at + KeyTTL
      BY <1>3, <2>1
    <2> QED BY <1>4, <2>2 DEF RowOf
  <1>7. KeysKept'
    <2>1. \A m \in fresh' : origin'[m].key = NoKey
      BY <1>3, <1>4, <1>t DEF KInv, KeysKept
    <2>2. ASSUME NEW m \in Msgs \ fresh', origin'[m].key # NoKey PROVE RowOf(m)' \/ origin'[m].at + KeyTTL <= now'
      <3>1. CASE m = a
        BY <1>6, <3>1
      <3>2. CASE m # a
        <4>1. m \in Msgs \ fresh /\ origin'[m] = origin[m] /\ origin[m].at \in Nat
          BY <1>3, <1>4, <1>t, <3>2, OriginParts
        <4>2. RowOf(m)' \/ origin[m].at + KeyTTL <= t \/ origin[m].at + KeyTTL <= now
          BY <1>5, <2>2, <4>1
        <4> QED BY <1>t, <4>1, <4>2
      <3> QED BY <3>1, <3>2
    <2> QED BY <2>1, <2>2 DEF KeysKept
  <1>8. ASSUME NEW n \in Msgs \ fresh, origin[n].key # NoKey, origin[n].user = o.user, origin[n].key = o.key
        PROVE  origin[n].at + KeyTTL <= o.at + load.lag
    <2>1. origin[n].at \in Nat
      BY <1>t, OriginParts
    <2>2. CASE RowOf(n)
      <3>1. PICK k \in keys : /\ k.user = o.user /\ k.key = o.key /\ k.expires = origin[n].at + KeyTTL
        BY <1>8, <2>2 DEF RowOf
      <3>2. ~(k.expires > t)
        BY <1>2, <3>1 DEF Reserves, Known, Live
      <3> QED BY <1>2, <1>t, <2>1, <3>1, <3>2
    <2>3. CASE origin[n].at + KeyTTL <= now
      BY <1>2, <1>t, <2>1, <2>3
    <2> QED BY <1>8, <2>2, <2>3 DEF KInv, KeysKept
  <1>9. PostedOnce'
    <2> SUFFICES ASSUME NEW m \in Msgs \ fresh', NEW n \in Msgs \ fresh', m # n, origin'[m].key # NoKey,
                        origin'[m].user = origin'[n].user, origin'[m].key = origin'[n].key
                 PROVE  Apart(origin[m], origin[n])' \/ Apart(origin[n], origin[m])'
      BY DEF PostedOnce
    <2>1. CASE m # a /\ n # a
      <3>1. m \in Msgs \ fresh /\ n \in Msgs \ fresh /\ origin'[m] = origin[m] /\ origin'[n] = origin[n] /\ load' = load
        BY <1>3, <1>4, <2>1
      <3>2. Apart(origin[m], origin[n]) \/ Apart(origin[n], origin[m])
        BY <3>1 DEF KInv, PostedOnce
      <3> QED BY <3>1, <3>2 DEF Apart
    <2>2. CASE m = a
      <3>1. n \in Msgs \ fresh /\ origin'[n] = origin[n] /\ origin'[m] = o
        BY <1>3, <1>4, <2>2
      <3>2. origin[n].at + KeyTTL <= o.at + load.lag
        BY <1>8, <3>1
      <3> QED BY <3>1, <3>2 DEF Apart
    <2>3. CASE n = a
      <3>1. m \in Msgs \ fresh /\ origin'[m] = origin[m] /\ origin'[n] = o
        BY <1>3, <1>4, <2>3
      <3>2. origin[m].at + KeyTTL <= o.at + load.lag
        BY <1>8, <3>1
      <3> QED BY <3>1, <3>2 DEF Apart
    <2> QED BY <2>1, <2>2, <2>3
  <1> QED BY <1>7, <1>9 DEF KInv

\* Every other step leaves the keys alone; time passes.
LEMMA KeysStay ==
    ASSUME TInv, KInv, UNCHANGED <<keys, origin, load>>, now <= now', now' \in Nat,
           fresh' = fresh \/ \E m \in fresh : fresh' = fresh \ {m}
    PROVE  KInv'
  <1>t. TypeOK /\ fresh \subseteq Msgs /\ now \in Nat /\ KeyTTL \in Nat
    <2>1. TypeOK /\ fresh \subseteq Msgs /\ now \in Times
      BY DEF TInv, TypeOK
    <2> QED BY <2>1, Durations, TimesEnd
  <1>1. fresh' \subseteq fresh /\ \A m \in fresh \ fresh' : origin[m].key = NoKey
    BY DEF KInv, KeysKept
  <1>2. ASSUME NEW m \in Msgs \ fresh', origin'[m].key # NoKey PROVE RowOf(m)' \/ origin'[m].at + KeyTTL <= now'
    <2>1. m \in Msgs \ fresh /\ origin[m].at \in Nat /\ origin[m].key # NoKey
      BY <1>1, <1>2, <1>t, OriginParts
    <2>2. RowOf(m) \/ origin[m].at + KeyTTL <= now
      BY <2>1 DEF KInv, KeysKept
    <2>3. CASE RowOf(m)
      BY <2>3 DEF RowOf
    <2>4. CASE origin[m].at + KeyTTL <= now
      BY <1>t, <2>1, <2>4
    <2> QED BY <2>2, <2>3, <2>4
  <1>3. KeysKept'
    BY <1>1, <1>2 DEF KInv, KeysKept
  <1>4. PostedOnce'
    BY <1>1 DEF KInv, PostedOnce, Apart
  <1> QED BY <1>3, <1>4 DEF KInv

\* Every step keeps the rows of keys that have not expired.
LEMMA StepKeys == TInv /\ KInv /\ [Next]_vars => KInv'
  <1> SUFFICES ASSUME TInv, KInv, [Next]_vars PROVE KInv'
    OBVIOUS
  <1>t. TypeOK /\ now \in Nat /\ now' \in Nat /\ now <= now' /\ load' = load
    <2>1. TypeOK /\ now \in Times /\ now' \in Times
      BY TablesTyped DEF TInv, TypeOK
    <2>2. load' = load /\ (now' = now \/ now' = now + 1)
      BY StepWrites DEF Writes, Tick
    <2> QED BY <2>1, <2>2, TimesEnd
  <1>1. ASSUME NEW r \in Reqs, Reserve(r) PROVE KInv'
    <2>1. req[r].key # NoKey /\ req[r].pc = "reserve" /\ now' = now
      BY <1>1, <1>t, ReserveCases DEF Reserve
    <2>2. PICK t \in Nat : /\ req[r].at <= t /\ t <= now
                           /\ \/ keys' = Live(t) /\ UNCHANGED <<fresh, origin>>
                              \/ \E m \in fresh : Reserves(r, t, m)
      BY <1>1, <1>t, ReserveCases
    <2>3. CASE \E m \in fresh : Reserves(r, t, m)
      BY <1>t, <2>1, <2>2, <2>3, ReserveOnce
    <2>4. CASE keys' = Live(t) /\ UNCHANGED <<fresh, origin>>
      <3>1. ASSUME NEW m \in Msgs \ fresh, origin[m].key # NoKey PROVE RowOf(m)' \/ origin'[m].at + KeyTTL <= now'
        <4>0. origin[m].at \in Nat /\ KeyTTL \in Nat
          BY <1>t, OriginParts, Durations
        <4>1. CASE RowOf(m)
          <5>1. PICK k \in keys : /\ k.user = origin[m].user /\ k.key = origin[m].key
                                  /\ k.expires = origin[m].at + KeyTTL
            BY <4>1 DEF RowOf
          <5>2. CASE k.expires > t
            BY <2>4, <5>1, <5>2 DEF RowOf, Live
          <5>3. CASE ~(k.expires > t)
            BY <1>t, <2>1, <2>2, <2>4, <4>0, <5>1, <5>3
          <5> QED BY <5>2, <5>3
        <4>2. CASE origin[m].at + KeyTTL <= now
          BY <2>1, <2>4, <4>2
        <4> QED BY <3>1, <4>1, <4>2 DEF KInv, KeysKept
      <3>2. KeysKept'
        BY <2>4, <3>1 DEF KInv, KeysKept
      <3>3. PostedOnce'
        BY <1>t, <2>4 DEF KInv, PostedOnce, Apart
      <3> QED BY <3>2, <3>3 DEF KInv
    <2> QED BY <2>2, <2>3, <2>4
  <1>2. CASE ~ \E r \in Reqs : Reserve(r)
    <2>1. UNCHANGED <<keys, origin>>
      BY <1>2, StepWrites DEF Writes
    <2>2. fresh' = fresh \/ \E m \in fresh : fresh' = fresh \ {m}
      <3>1. ASSUME NEW r \in Reqs, AddMessage(r) PROVE \E m : fresh' = fresh \ {m}
        BY <3>1, <1>t, Adds DEF AddsAs
      <3>2. fresh' = fresh \/ \E m : fresh' = fresh \ {m}
        BY <1>2, <3>1, StepWrites DEF Writes
      <3> QED BY <3>2
    <2> QED BY <1>t, <2>1, <2>2, KeysStay
  <1> QED BY <1>1, <1>2

\* However often, concurrently or with whatever crashes in between a request is
\* sent again: ReserveIdempotencyKey lets one key of a user reserve two messages
\* only KeyTTL apart, less the lag of a request behind the clock.
THEOREM KeysPostOnce == Spec => []PostedOnce
  <1>1. Init => KInv
    <2> SUFFICES ASSUME Init PROVE KInv
      OBVIOUS
    <2>1. fresh \subseteq Msgs /\ \A m \in Msgs : origin[m].key = NoKey
      BY IdleTyped DEF Init, kSubset
    <2> QED BY <2>1 DEF KInv, KeysKept, PostedOnce
  <1>2. KInv => PostedOnce
    BY DEF KInv
  <1> QED BY <1>1, <1>2, TypeInvariant, StepKeys, PTL DEF Spec

-----------------------------------------------------------------------------
(* Cooldowns.                                                              *)

\* A request with a text that has passed the check of the cooldown: its author
\* is not in cooldown, unless the cooldown began after the check.
Checked(q) == q.pc \in Passed \/ (q.pc = "add" /\ q.body # NoText)
NotSilenced(q) == q.late \/ cooldown[q.user].until <= now
CInv == \A r \in Reqs : Checked(req[r]) => NotSilenced(req[r])

\* Only AddMessage stores a message.
LEMMA StoredBy ==
    ASSUME TInv, [Next]_vars
    PROVE  stored' \subseteq stored \/ \E r \in Reqs : AddMessage(r)
  <1>1. ASSUME Removes PROVE stored' \subseteq stored
    BY <1>1, RemovesDrop DEF Drop
  <1>2. ASSUME NEW r \in Reqs, Mark(r) PROVE stored' = stored
    BY <1>2 DEF Mark
  <1> QED BY <1>1, <1>2, StepWrites DEF WritesToo

\* A step keeps the cooldown of a request that has passed, or makes it late.
LEMMA StepCooldown == TInv /\ CInv /\ [Next]_vars => CInv'
  <1> SUFFICES ASSUME TInv, CInv, [Next]_vars, NEW x \in Reqs, Checked(req'[x])
               PROVE  req'[x].late \/ cooldown'[req'[x].user].until <= now'
    BY DEF CInv, NotSilenced, Checked
  <1>t. /\ TypeOK /\ now \in Nat /\ (now' = now \/ now' = now + 1)
        /\ req[x] \in ReqRecord /\ req'[x] \in ReqRecord /\ Change(x)
        /\ req[x].user \in Users /\ cooldown \in [Users -> Cooldown] /\ cooldown[req[x].user].until \in Nat
    <2>1. TypeOK /\ req[x].user \in Users /\ now \in Nat /\ req[x] \in ReqRecord
      BY ReqParts DEF TInv
    <2>2. cooldown \in [Users -> Cooldown] /\ cooldown[req[x].user].until \in Nat
      BY <2>1 DEF TypeOK, Cooldown
    <2>3. now' = now \/ now' = now + 1
      BY StepWrites DEF Writes, Tick
    <2>4. req'[x] \in ReqRecord /\ Change(x)
      BY ReqStep
    <2> QED BY <2>1, <2>2, <2>3, <2>4
  <1>1. CASE req'[x] = req[x]
    <2>0. NotSilenced(req[x])
      BY <1>1 DEF CInv
    <2>1. CASE UNCHANGED cooldown
      BY <1>1, <1>t, <2>0, <2>1 DEF NotSilenced
    <2>2. ASSUME NEW r \in Reqs, RecordMessageViolation(r)
          PROVE  req'[x].late \/ cooldown'[req'[x].user].until <= now'
      <3>1. CASE x = r
        <4>1. req'[r].pc \in {"isolate", "idle"}
          BY <2>2, RecordMoves
        <4> QED BY <3>1, <4>1 DEF Checked, Passed
      <3>2. CASE x # r /\ req[x].user = req[r].user
        <4>1. req[x].pc \in Passed \cup {"add"}
          BY <1>1 DEF Checked
        <4> QED BY <2>2, <3>2, <4>1, RecordMoves
      <3>3. CASE req[x].user # req[r].user
        <4>1. PICK c : cooldown' = [cooldown EXCEPT ![req[r].user] = c]
          BY <2>2 DEF RecordMessageViolation
        <4>2. cooldown'[req[x].user] = cooldown[req[x].user] /\ now' = now
          BY <1>t, <2>2, <3>3, <4>1 DEF RecordMessageViolation
        <4> QED BY <1>1, <2>0, <4>2 DEF NotSilenced
      <3> QED BY <3>1, <3>2, <3>3
    <2> QED BY <2>1, <2>2, StepWrites DEF Writes
  <1>2. CASE LateNow(x)
    BY <1>2, <1>t DEF LateNow, ReqRecord
  <1>3. CASE Succeeds(req[x], req'[x]) /\ req'[x] # req[x] /\ ~LateNow(x)
    <2>1. UNCHANGED cooldown
      <3>1. ASSUME NEW r \in Reqs, RecordMessageViolation(r) PROVE FALSE
        <4>1. CASE x = r
          <5>1. req'[r].pc \in {"isolate", "idle"}
            BY <3>1, RecordMoves
          <5> QED BY <4>1, <5>1 DEF Checked, Passed
        <4>2. CASE x # r
          BY <1>3, <3>1, <4>2, RecordMoves
        <4> QED BY <4>1, <4>2
      <3> QED BY <3>1, StepWrites DEF Writes
    <2>2. GoesOn(req[x], req'[x])
      BY <1>3, IdleTyped DEF Succeeds, Begins, Checked, Passed
    <2>3. /\ req'[x].user = req[x].user /\ req'[x].body = req[x].body /\ req'[x].late = req[x].late
          /\ Checked(req[x]) \/ cooldown[req[x].user].until <= now
      BY <2>2 DEF GoesOn, Checked, Passed, Punish, AfterReserve
    <2>4. req[x].late \/ cooldown[req[x].user].until <= now
      BY <2>3 DEF CInv, NotSilenced
    <2> QED BY <1>t, <2>1, <2>3, <2>4
  <1> QED BY <1>1, <1>2, <1>3, <1>t DEF Change

\* Guard.Check silences: whatever requests of the account are in flight, a text
\* is stored during a cooldown only by one that had passed the check of the
\* cooldown before the violation that began it was recorded.
THEOREM CooldownSilences == Spec => CooldownHolds
  <1>1. Init => CInv
    BY IdleTyped DEF Init, CInv, Checked, Passed
  <1>2. TInv /\ CInv /\ [Next]_vars => CooldownStep
    <2> SUFFICES ASSUME TInv, CInv, [Next]_vars, NEW m \in stored' \ stored,
                        msg'[m].body # NoText, cooldown[msg'[m].author].until > now
                 PROVE  \E r \in Reqs : At(r, "add") /\ req[r].user = msg'[m].author /\ req[r].late
      BY DEF CooldownStep
    <2>1. PICK r \in Reqs : AddMessage(r)
      BY StoredBy
    <2>t. TypeOK /\ req[r].user \in Users /\ now \in Nat /\ msg \in [Msgs -> Message]
      BY ReqParts DEF TInv, TypeOK
    <2>2. PICK t \in Times, n \in Msgs : AddsAs(r, t, n)
      BY <2>1, <2>t, Adds
    <2>3. m = n /\ msg'[m].author = req[r].user /\ msg'[m].body = req[r].body
      BY <2>2, <2>t DEF AddsAs
    <2>4. At(r, "add")
      BY <2>1 DEF AddMessage
    <2>5. req[r].late \/ cooldown[req[r].user].until <= now
      BY <2>3, <2>4 DEF CInv, Checked, NotSilenced, At
    <2>6. cooldown[req[r].user].until \in Nat
      BY <2>t DEF TypeOK, Cooldown
    <2> QED BY <2>t, <2>3, <2>4, <2>5, <2>6
  <1> QED BY <1>1, <1>2, TypeInvariant, StepCooldown, PTL DEF Spec, CooldownHolds

-----------------------------------------------------------------------------
(* The message interval.                                                   *)

\* A request that goes on does so by a step of its own.
LEMMA OwnStep ==
    ASSUME TInv, [Next]_vars, NEW r \in Reqs, req'[r] # req[r], ~LateNow(r), req'[r] # IdleReq
    PROVE  BeginStep(r) \/ QuietStep(r) \/ BusyStep(r) \/ RecordMessageViolation(r)
  <1>t. req \in [Reqs -> ReqRecord]
    BY DEF TInv, TypeOK
  <1>1. ASSUME NEW x \in Reqs, x # r, BeginStep(x) \/ QuietStep(x) \/ BusyStep(x) PROVE FALSE
    <2>1. Moves(x)
      BY <1>1, BeginMoves, QuietMoves, BusyMoves DEF BeginStep
    <2> QED BY <1>1, <1>t, <2>1 DEF Moves
  <1>2. ASSUME NEW x \in Reqs, x # r, RecordMessageViolation(x) PROVE FALSE
    BY <1>2, RecordMoves
  <1>3. ~(HubStep \/ MemberStep \/ DeleteOldMessages \/ BanStep \/ Tick \/ UNCHANGED vars)
    BY DEF HubStep, Subscribe, Receive, Unsubscribe, MemberStep, Join, Leave, DeleteOldMessages, BanStep,
           CleanupBannedUser, Tick, vars
  <1>4. ~Restart
    BY DEF Restart
  <1> QED BY <1>1, <1>2, <1>3, <1>4, StepCases

\* The second since which a bucket has been refilled: the last pass, less what
\* refused calls have set it back.  A bucket holds no more than what was refilled
\* since then, and no clock that a call may have lets its row expire before it is
\* full again.
Since(u) == passed[u].at - passed[u].back
BucketOK(u) ==
    /\ bucket[u].tokens <= (bucket[u].updated - Since(u)) * Second
    /\ Since(u) <= bucket[u].updated /\ bucket[u].updated <= now
    /\ Since(u) * Second + load.interval + load.lag * Second <= bucket[u].expires * Second
BInv == \A u \in Users : BucketOK(u)

\* Tokens have been earned: in the seconds up to the later of the call's clock
\* and that of the call before it.
LEMMA RefillEarned ==
    ASSUME TypeOK, NEW u \in Users, BucketOK(u), NEW t \in Nat, NEW d \in t .. now, now <= t + load.lag
    PROVE  \E x \in {bucket[u].updated, t} :
              /\ Refilled(bucket[u], t, d) <= (x - Since(u)) * Second
              /\ t <= bucket[u].updated /\ Refilled(bucket[u], t, d) < load.interval => x = bucket[u].updated
              /\ t > bucket[u].updated => x = t
  <1>1. PICK n, b, p, i, lag : /\ n = Refilled(bucket[u], t, d) /\ b = bucket[u] /\ p = Since(u)
                               /\ i = load.interval /\ lag = load.lag
    OBVIOUS
  <1>t. /\ now \in Nat /\ i \in Nat /\ lag \in Nat /\ b \in Bucket /\ p \in Int /\ d \in Int /\ d <= now
        /\ b.tokens \in Nat /\ b.updated \in Nat /\ b.expires \in Nat
    <2>1. load \in Workloads /\ bucket[u] \in Bucket /\ passed[u] \in Pass /\ now \in Nat
      BY TimesEnd DEF TypeOK
    <2>2. i \in Nat /\ lag \in Nat
      BY <1>1, <2>1, WorkloadOK
    <2> QED BY <1>1, <2>1, <2>2, TimesEnd DEF Since, Bucket, Pass
  <1>s. Second \in Nat
    BY Durations
  <1>b. /\ b.tokens <= (b.updated - p) * Second /\ p <= b.updated /\ b.updated <= now
        /\ p * Second + i + lag * Second <= b.expires * Second
    BY <1>1 DEF BucketOK
  <1>n. /\ n \in Nat /\ n <= i
        /\ ~(b.expires <= d) => n <= b.tokens + (IF t > b.updated THEN (t - b.updated) * Second ELSE 0)
    BY <1>1, <1>t, RefilledNat
  <1>2. CASE t > b.updated /\ ~(b.expires <= d)
    <2>1. PICK k \in Nat, c \in Nat : k = b.tokens /\ c = b.updated
      BY <1>t
    <2>2. n <= k + (t - c) * Second /\ k <= (c - p) * Second /\ n \in Nat
      BY <1>b, <1>n, <1>2, <2>1
    <2>3. n <= (t - p) * Second
      BY ONLY <1>s, <1>t, <2>1, <2>2, t \in Nat
    <2> QED BY <1>1, <1>t, <1>2, <2>3
  <1>3. CASE ~(t > b.updated) /\ ~(b.expires <= d)
    <2>1. PICK k \in Nat, c \in Nat : k = b.tokens /\ c = b.updated
      BY <1>t
    <2>2. n <= k + 0 /\ k <= (c - p) * Second /\ n \in Nat
      BY <1>b, <1>n, <1>3, <2>1
    <2>3. n <= (c - p) * Second
      BY ONLY <1>s, <1>t, <2>1, <2>2
    <2> QED BY <1>1, <1>t, <1>3, <2>1, <2>3
  <1>4. CASE b.expires <= d
    <2>1. PICK e \in Nat : e = b.expires
      BY <1>t
    <2>2. e <= t + lag /\ p * Second + i + lag * Second <= e * Second
      <3>1. e <= t + lag
        BY ONLY <1>t, <1>1, <1>4, <2>1, t \in Nat, now <= t + load.lag
      <3> QED BY <1>b, <2>1, <3>1
    <2>3. i <= (t - p) * Second
      BY ONLY <1>s, <1>t, <2>1, <2>2, t \in Nat
    <2>4. n <= (t - p) * Second /\ n = i
      <3>1. n = i
        BY <1>1, <1>4 DEF Refilled
      <3> QED BY <2>3, <3>1
    <2> QED BY <1>1, <1>t, <2>4
  <1> QED BY <1>2, <1>3, <1>4

\* What TakeInterval does to the bucket, and when it lets a message pass.
LEMMA TakesEarned ==
    ASSUME TInv, BInv, NEW r \in Reqs, TakeInterval(r)
    PROVE  /\ \A u \in Users : BucketOK(u)'
           /\ req'[r].pc = "repeat" =>
                \E x \in {bucket[req[r].user].updated, bucket'[req[r].user].updated} :
                    load.interval <= (x - Since(req[r].user)) * Second
  <1>1. PICK u \in Users, n \in Nat, t \in Clock(r) : \E d \in t .. now :
           TakesAs(r, u, t, d, n) /\ n <= load.interval /\ t \in Times /\ t \in Nat
    BY TakesTokens DEF TInv
  <1>2. PICK d \in t .. now : TakesAs(r, u, t, d, n) /\ n <= load.interval /\ t \in Nat
    BY <1>1
  <1>3. PICK b, s, i, lag : b = bucket[u] /\ s = Since(u) /\ i = load.interval /\ lag = load.lag
    OBVIOUS
  <1>t. /\ TypeOK /\ now \in Nat /\ i \in Nat /\ lag \in Nat /\ BucketTTL \in Nat /\ b.updated \in Nat /\ b.tokens \in Nat
        /\ s \in Int /\ i + lag * Second <= BucketTTL * Second /\ passed[u].at \in Int /\ passed[u].back \in Nat
        /\ bucket \in [Users -> Bucket] /\ passed \in [Users -> Pass] /\ u = req[r].user
    <2>1. TypeOK /\ load \in Workloads /\ bucket[u] \in Bucket /\ passed[u] \in Pass /\ now \in Nat
      BY TimesEnd DEF TInv, TypeOK
    <2>2. i \in Nat /\ lag \in Nat /\ i + lag * Second <= BucketTTL * Second /\ BucketTTL \in Nat
      BY <1>3, <2>1, WorkloadOK, Durations
    <2>3. b.updated \in Nat /\ b.tokens \in Nat
      BY <1>3, <2>1, TimesEnd DEF Bucket
    <2>4. passed[u].at \in Int /\ passed[u].back \in Nat /\ s \in Int
      BY <1>3, <2>1 DEF Pass, Since
    <2> QED BY <1>2, <2>1, <2>2, <2>3, <2>4 DEF TypeOK, TakesAs
  <1>c. t <= now /\ now <= t + lag
    <2>1. req[r].at <= t /\ t <= now /\ req[r].at \in Nat
      BY <1>t, ClockRead
    <2>2. now <= req[r].at + lag
      BY <1>3 DEF TInv, OnTime, TakeInterval, At
    <2> QED BY <1>t, <1>2, <2>1, <2>2
  <1>s. Second \in Nat
    BY Durations
  <1>b. b.tokens <= (b.updated - s) * Second /\ s <= b.updated /\ b.updated <= now
    BY <1>3 DEF BInv, BucketOK
  <1>4. PICK x \in {b.updated, t} : /\ n <= (x - s) * Second
                                    /\ t <= b.updated /\ n < i => x = b.updated
                                    /\ t > b.updated => x = t
    <2>1. n = Refilled(bucket[u], t, d) /\ BucketOK(u)
      BY <1>2 DEF TakesAs, BInv
    <2> QED BY <1>t, <1>c, <1>2, <1>3, <2>1, RefillEarned
  <1>5. load' = load /\ now' = now
    BY DEF TakeInterval
  <1>6. ASSUME n < i
        PROVE  BucketOK(u)' /\ req'[r].pc # "repeat"
    <2>1. PICK late \in Nat : late = IF t < b.updated THEN b.updated - t ELSE 0
      BY <1>t, <1>2
    <2>2. /\ Done(r) /\ bucket' = [bucket EXCEPT ![u] = [tokens |-> n, updated |-> t, expires |-> t + BucketTTL]]
          /\ passed' = [passed EXCEPT ![u] = [at |-> passed[u].at, back |-> passed[u].back + late]]
      BY <1>2, <1>3, <1>6, <2>1 DEF TakesAs
    <2>3. /\ bucket'[u].tokens = n /\ bucket'[u].updated = t /\ bucket'[u].expires = t + BucketTTL
          /\ passed'[u].at = passed[u].at /\ passed'[u].back = passed[u].back + late
      BY <1>t, <2>2
    <2>4. Since(u)' = s - late
      <3>1. s = passed[u].at - passed[u].back
        BY <1>3 DEF Since
      <3>2. Since(u)' = passed'[u].at - passed'[u].back
        BY DEF Since
      <3> QED BY ONLY <1>t, <2>1, <2>3, <3>1, <3>2
    <2>5. t - (s - late) = x - s /\ s - late <= t
      BY ONLY <1>t, <1>2, <1>b, <1>4, <1>6, <2>1
    <2>6. (s - late) * Second + i + lag * Second <= (t + BucketTTL) * Second
      <3>1. i \in Nat /\ lag \in Nat /\ s \in Int /\ BucketTTL \in Nat /\ i + lag * Second <= BucketTTL * Second
        BY <1>t
      <3>2. t \in Nat
        BY <1>2
      <3> QED BY ONLY <1>s, <2>1, <2>5, <3>1, <3>2
    <2>7. BucketOK(u)'
      BY <1>3, <1>4, <1>5, <1>c, <2>3, <2>4, <2>5, <2>6 DEF BucketOK
    <2>8. req'[r] = IdleReq
      BY <1>t, <2>2, ReqParts DEF Done
    <2> QED BY <2>7, <2>8, IdleTyped
  <1>7. ASSUME ~(n < i)
        PROVE  BucketOK(u)' /\ bucket'[u].updated = t /\ n = i
    <2>0. n = i
      BY ONLY <1>t, <1>2, <1>3, <1>7, n \in Nat
    <2>1. /\ bucket' = [bucket EXCEPT ![u] = [tokens |-> n - i, updated |-> t, expires |-> t + BucketTTL]]
          /\ passed' = [passed EXCEPT ![u] = [at |-> t, back |-> 0]]
      BY <1>2, <1>3, <1>7 DEF TakesAs
    <2>2. /\ bucket'[u].tokens = 0 /\ bucket'[u].updated = t /\ bucket'[u].expires = t + BucketTTL
          /\ Since(u)' = t
      BY <1>t, <1>2, <2>0, <2>1 DEF Since
    <2>3. t * Second + i + lag * Second <= (t + BucketTTL) * Second
      <3>1. i \in Nat /\ lag \in Nat /\ BucketTTL \in Nat /\ i + lag * Second <= BucketTTL * Second
        BY <1>t
      <3>2. t \in Nat
        BY <1>2
      <3> QED BY ONLY <1>s, <3>1, <3>2
    <2>4. 0 <= (t - t) * Second /\ t <= t
      BY <1>2, <1>s
    <2> QED BY <1>3, <1>5, <1>c, <2>0, <2>2, <2>3, <2>4 DEF BucketOK
  <1>8. ASSUME NEW v \in Users, v # u PROVE BucketOK(v)'
    <2>1. bucket'[v] = bucket[v] /\ passed'[v] = passed[v]
      BY <1>2, <1>8, <1>t DEF TakesAs
    <2>2. BucketOK(v)
      BY DEF BInv
    <2> QED BY <1>5, <2>1, <2>2 DEF BucketOK, Since
  <1>9. req'[r].pc = "repeat" => \E y \in {bucket[u].updated, bucket'[u].updated} : i <= (y - s) * Second
    BY <1>3, <1>4, <1>6, <1>7
  <1> QED BY <1>3, <1>6, <1>7, <1>8, <1>9, <1>t

\* Other steps leave the buckets alone, and time passes.
LEMMA StepBucket == TInv /\ BInv /\ [Next]_vars => BInv'
  <1> SUFFICES ASSUME TInv, BInv, [Next]_vars PROVE \A u \in Users : BucketOK(u)'
    BY DEF BInv
  <1>1. CASE UNCHANGED <<bucket, passed>>
    <2> SUFFICES ASSUME NEW u \in Users PROVE BucketOK(u)'
      OBVIOUS
    <2>1. load' = load /\ (now' = now \/ now' = now + 1) /\ BucketOK(u)
      BY StepWrites DEF BInv, Writes, Tick
    <2>2. now \in Nat /\ bucket[u].updated \in Nat
      BY TimesEnd DEF TInv, TypeOK, Bucket
    <2>3. bucket[u].updated <= now'
      BY <2>1, <2>2 DEF BucketOK
    <2> QED BY <1>1, <2>1, <2>3 DEF BucketOK, Since
  <1> QED BY <1>1, TakesEarned, StepWrites DEF Writes

\* TakeRateLimit lets two messages of an account pass only when the seconds of
\* the clock between them add up to MinMessageInterval, for an interval of any
\* length (the shipped one is shorter than a second), whatever was refused in
\* between, however long the account was silent and however late calls are: what
\* refused calls have set the bucket back is all that can be missing.
THEOREM IntervalSeparates == Spec => IntervalKept
  <1>1. Init => BInv
    <2> SUFFICES ASSUME Init, NEW u \in Users PROVE BucketOK(u)
      BY DEF BInv
    <2>1. load.interval \in Nat /\ load.lag \in Nat
      BY WorkloadOK DEF Init
    <2>2. /\ bucket[u] = [tokens |-> 0, updated |-> 0, expires |-> 0] /\ now = 0
          /\ passed[u] = [at |-> 0 - load.interval - load.lag, back |-> 0]
      BY DEF Init
    <2>3. PICK i \in Nat, lag \in Nat, e \in Nat : i = load.interval /\ lag = load.lag /\ e = i + lag
      BY <2>1
    <2>4. Since(u) = 0 - e
      BY <2>2, <2>3 DEF Since
    <2>5. Second \in Nat \ {0}
      BY Durations
    <2>6. (0 - e) * Second + i + lag * Second <= 0 * Second /\ 0 <= (0 - (0 - e)) * Second /\ 0 - e <= 0
      BY ONLY <2>3, <2>5
    <2> QED BY <2>2, <2>3, <2>4, <2>6 DEF BucketOK
  <1>2. TInv /\ BInv /\ [Next]_vars => IntervalStep
    <2> SUFFICES ASSUME TInv, BInv, [Next]_vars, NEW r \in Reqs, req[r].pc = "interval", req'[r].pc = "repeat"
                 PROVE  \E t \in {bucket[req[r].user].updated, bucket'[req[r].user].updated} :
                            (t - passed[req[r].user].at + passed[req[r].user].back) * Second >= load.interval
      BY DEF IntervalStep, At
    <2>1. req'[r] # req[r] /\ req'[r] # IdleReq /\ ~LateNow(r)
      BY IdleTyped, ReqParts DEF LateNow, TInv, ReqRecord
    <2>2. BeginStep(r) \/ QuietStep(r) \/ BusyStep(r) \/ RecordMessageViolation(r)
      BY <2>1, OwnStep
    <2>3. ~BeginStep(r) /\ ~RecordMessageViolation(r)
      BY DEF BeginStep, Send, DeleteCheck, MarkCheck, RecordMessageViolation, At
    <2>4. ~Abort(r)
      BY IdleTyped, ReqParts DEF Abort, Done, TInv
    <2>5. ~QuietStep(r)
      BY <2>4 DEF QuietStep, ReserveNothing, SimilarMessages, EvaluateGroup, DeleteRecentRepeatedMessages,
                  Limits, DeleteRecentMessagesByAuthor, WarnOnce, IsolateMessageAttack, PublishGroup, At
    <2>6. TakeInterval(r)
      BY <2>2, <2>3, <2>5 DEF BusyStep, Reserve, MessageCooldown, CreateGroupSpamWarning, AddMessage,
                              GroupMemberIDs, DeleteMessage, Mark, PublishReceipt, At
    <2>7. PICK u, s : u = req[r].user /\ s = Since(u)
      OBVIOUS
    <2>8. PICK t \in {bucket[u].updated, bucket'[u].updated} : load.interval <= (t - s) * Second
      BY <2>6, <2>7, TakesEarned
    <2>9. t - passed[u].at + passed[u].back = t - s /\ t - s \in Int /\ load.interval \in Nat
      <3>1. TypeOK /\ u \in Users /\ load \in Workloads
        BY <2>7, ReqParts DEF TInv, TypeOK
      <3>2. passed[u] \in Pass /\ bucket[u] \in Bucket /\ bucket'[u] \in Bucket
        BY <3>1, GuardTyped DEF TypeOK
      <3>3. t \in Nat /\ passed[u].at \in Int /\ passed[u].back \in Nat
        BY <2>8, <3>2, TimesEnd DEF Bucket, Pass
      <3> QED BY <2>7, <3>1, <3>3, WorkloadOK DEF Since
    <2>10. (t - s) * Second >= load.interval
      BY ONLY <2>8, <2>9, Durations
    <2> QED BY <2>7, <2>9, <2>10
  <1> QED BY <1>1, <1>2, TypeInvariant, StepBucket, PTL DEF Spec, IntervalKept

-----------------------------------------------------------------------------
(* Identifiers: the one a request has reserved is nobody else's.           *)

Unsent == {"cooldown", "add"} \cup Passed       \* the message is not stored yet
Named  == {"delete"} \cup Told                  \* the message was stored

\* No open stream, no row and no request knows message m.
Tells(m) == \E s \in Streams : \E i \in 1 .. Len(chan[s]) :
                chan[s][i].type = "created" /\ chan[s][i].id = m
Untouched(m) == m \notin stored /\ ~Tells(m) /\ \A x \in Reqs : req[x].pc \in Named => req[x].id # m

IInv ==
    /\ \A r \in Reqs : req[r].pc = "reserve" => req[r].id = None
    /\ \A m \in fresh : Untouched(m) /\ \A r \in Reqs : req[r].pc \in Unsent => req[r].id # m
    /\ \A r \in Reqs : req[r].pc \in Unsent /\ req[r].id # None => Untouched(req[r].id)
    /\ \A r, x \in Reqs : r # x /\ req[r].pc \in Unsent /\ req[x].pc \in Unsent /\ req[r].id # None
            => req[r].id # req[x].id

\* Request r goes on.
Active(r) == req'[r] # req[r] /\ ~LateNow(r) /\ req'[r] # IdleReq

\* One request goes on in a step.
LEMMA OneActive ==
    ASSUME TInv, [Next]_vars, NEW r \in Reqs, NEW x \in Reqs, Active(r), Active(x)
    PROVE  r = x
  <1>t. req \in [Reqs -> ReqRecord]
    BY DEF TInv, TypeOK
  <1>1. BeginStep(r) \/ QuietStep(r) \/ BusyStep(r) \/ RecordMessageViolation(r)
    BY OwnStep DEF Active
  <1>2. CASE BeginStep(r) \/ QuietStep(r) \/ BusyStep(r)
    <2>1. Moves(r)
      BY <1>2, BeginMoves, QuietMoves, BusyMoves DEF BeginStep
    <2> QED BY <1>t, <2>1 DEF Moves, Active
  <1>3. CASE RecordMessageViolation(r)
    BY <1>3, RecordMoves DEF Active
  <1> QED BY <1>1, <1>2, <1>3

\* Where a request that holds a message has it from.
LEMMA Holds ==
    ASSUME TInv, [Next]_vars, NEW r \in Reqs
    PROVE  /\ req'[r].pc = "reserve" => req'[r].id = None \/ (req[r].pc = "reserve" /\ req'[r].id = req[r].id)
           /\ req'[r].pc \in Unsent =>
                \/ req[r].pc \in Unsent /\ req'[r].id = req[r].id
                \/ Active(r) /\ req[r].pc = "reserve" /\ req'[r].id \in {req[r].id} \cup (fresh \ fresh')
           /\ req'[r].pc \in Named =>
                \/ /\ req[r].pc \in Named /\ req'[r].id = req[r].id
                   /\ req'[r].pc \in Told /\ req'[r].event = "created"
                        => req[r].pc \in Told /\ req[r].event = "created"
                \/ req'[r].pc = "delete" /\ req'[r].id \in stored
                \/ /\ Active(r) /\ req[r].pc = "add" /\ req'[r].pc = "ids" /\ req'[r].id # None
                   /\ req'[r].id \in {req[r].id} \cup (fresh \ fresh')
  <1>t. req[r] \in ReqRecord /\ req'[r] \in ReqRecord /\ Change(r)
    BY ReqStep, ReqParts DEF TInv
  <1>1. CASE req'[r] = req[r]
    BY <1>1
  <1>2. CASE LateNow(r)
    <2>1. req'[r].pc = req[r].pc /\ req'[r].id = req[r].id /\ req'[r].event = req[r].event
      BY <1>2, <1>t DEF LateNow, ReqRecord
    <2> QED BY <2>1
  <1>3. CASE req'[r] = IdleReq
    BY <1>3, IdleTyped DEF Unsent, Named, Told, Passed
  <1>4. CASE Active(r) /\ Begins(req'[r])
    BY <1>4 DEF Begins, Unsent, Named, Told, Passed
  <1>5. CASE Active(r) /\ GoesOn(req[r], req'[r])
    <2>1. req'[r].pc # "reserve"
      BY <1>5 DEF GoesOn, Passed, Punish, AfterReserve
    <2>2. ASSUME req'[r].pc \in Unsent
          PROVE  \/ req[r].pc \in Unsent /\ req'[r].id = req[r].id
                 \/ Active(r) /\ req[r].pc = "reserve" /\ req'[r].id \in {req[r].id} \cup (fresh \ fresh')
      BY <1>5, <2>2 DEF GoesOn, Unsent, Passed, Punish, AfterReserve
    <2>3. ASSUME req'[r].pc \in Named
          PROVE  \/ /\ req[r].pc \in Named /\ req'[r].id = req[r].id
                    /\ req'[r].pc \in Told /\ req'[r].event = "created"
                        => req[r].pc \in Told /\ req[r].event = "created"
                 \/ /\ Active(r) /\ req[r].pc = "add" /\ req'[r].pc = "ids" /\ req'[r].id # None
                    /\ req'[r].id \in {req[r].id} \cup (fresh \ fresh')
      BY <1>5, <2>3 DEF GoesOn, Named, Told, Passed, Punish, AfterReserve
    <2> QED BY <2>1, <2>2, <2>3
  <1> QED BY <1>1, <1>2, <1>3, <1>4, <1>5, <1>t DEF Change, Succeeds, Active

\* Nobody stores m in this step.
Untaken(m) == \A x \in Reqs : req[x].pc = "add" /\ req'[x].pc = "ids" => req'[x].id # m

\* A row is stored by a request that then tells of it.
LEMMA StoredNow ==
    ASSUME TInv, [Next]_vars
    PROVE  \/ stored' \subseteq stored
           \/ \E r \in Reqs : /\ AddMessage(r) /\ stored' = stored \cup {req'[r].id}
                              /\ req[r].pc = "add" /\ req'[r].pc = "ids" /\ req'[r].event = "created"
  <1>1. ASSUME NEW r \in Reqs, AddMessage(r)
        PROVE  /\ stored' = stored \cup {req'[r].id}
               /\ req[r].pc = "add" /\ req'[r].pc = "ids" /\ req'[r].event = "created"
    <2>t. TypeOK /\ req \in [Reqs -> ReqRecord] /\ req[r] \in ReqRecord
      BY ReqParts DEF TInv
    <2>1. PICK t \in Times, m \in Msgs : AddsAs(r, t, m)
      BY <1>1, <2>t, Adds
    <2>2. req'[r].id = m /\ req'[r].pc = "ids" /\ req'[r].event = "created"
      BY <2>1, <2>t DEF AddsAs, ReqRecord
    <2> QED BY <1>1, <2>1, <2>2 DEF AddsAs, AddMessage, At
  <1> QED BY <1>1, StoredBy

-----------------------------------------------------------------------------
(* Channels.                                                               *)

\* Only open streams hold events.
HInv == \A s \in Streams : stream[s] = None => chan[s] = <<>>

\* Where event e of stream s comes from: it was there, it is a receipt, or a
\* request publishes it to the account of the stream.
WasThere(s, e) == stream'[s] = stream[s] /\ \E j \in 1 .. Len(chan[s]) : chan[s][j] = e
Published(s, e) ==
    \E r \in Reqs : /\ PublishGroup(r) /\ stream[s] \in req[r].to /\ stream'[s] = stream[s]
                    /\ e = [type |-> req[r].event, id |-> req[r].id]
ComesFrom(s, e) == WasThere(s, e) \/ e.type = "read" \/ Published(s, e)

\* Publishing adds at the end of a channel.
LEMMA AppendAt ==
    ASSUME NEW c \in Seq(Event), NEW e \in Event, NEW i \in 1 .. Len(Append(c, e))
    PROVE  Append(c, e)[i] = e \/ (i \in 1 .. Len(c) /\ Append(c, e)[i] = c[i])
  OBVIOUS

\* Receiving shifts the rest of a channel by one.
LEMMA TailAt ==
    ASSUME NEW c \in Seq(Event), c # <<>>, NEW i \in 1 .. Len(Tail(c))
    PROVE  i + 1 \in 1 .. Len(c) /\ Tail(c)[i] = c[i + 1]
  OBVIOUS

\* Publish's part in a channel.
LEMMA PublishAt ==
    ASSUME TypeOK, NEW to, NEW e \in Event, Publish(to, e), NEW s \in Streams, NEW i \in 1 .. Len(chan'[s])
    PROVE  \/ \E j \in 1 .. Len(chan[s]) : chan[s][j] = chan'[s][i]
           \/ stream[s] \in to /\ chan'[s][i] = e
  <1>1. chan[s] \in Seq(Event)
    BY DEF TypeOK
  <1>2. chan'[s] = chan[s] \/ (stream[s] \in to /\ chan'[s] = Append(chan[s], e))
    BY DEF Publish
  <1>3. CASE chan'[s] = chan[s]
    BY <1>3
  <1>4. CASE stream[s] \in to /\ chan'[s] = Append(chan[s], e)
    BY <1>1, <1>4, AppendAt
  <1> QED BY <1>2, <1>3, <1>4

\* Streams that are closed or opened hold nothing, and no step puts anything
\* else into a channel.
LEMMA StepHub == TInv /\ HInv /\ [Next]_vars =>
    /\ HInv'
    /\ \A s \in Streams : \A i \in 1 .. Len(chan'[s]) : ComesFrom(s, chan'[s][i])
  <1> SUFFICES ASSUME TInv, HInv, [Next]_vars
               PROVE  /\ HInv'
                      /\ \A s \in Streams : \A i \in 1 .. Len(chan'[s]) : ComesFrom(s, chan'[s][i])
    OBVIOUS
  <1>t. /\ TypeOK /\ stream \in [Streams -> Users \cup {None}] /\ chan \in [Streams -> Seq(Event)]
        /\ None \notin Users /\ load.users \subseteq Users
    BY Durations, WorkloadOK DEF TInv, TypeOK
  <1>1. CASE UNCHANGED <<stream, chan>>
    BY <1>1 DEF HInv, ComesFrom, WasThere
  <1>2. ASSUME NEW r \in Reqs, PublishGroup(r)
        PROVE  /\ HInv'
               /\ \A s \in Streams : \A i \in 1 .. Len(chan'[s]) : ComesFrom(s, chan'[s][i])
    <2>1. PICK to, e : to = req[r].to /\ e = [type |-> req[r].event, id |-> req[r].id]
      OBVIOUS
    <2>2. Publish(to, e) /\ stream' = stream
      BY <1>2, <2>1 DEF PublishGroup
    <2>3. e \in Event /\ to \subseteq Users
      <3>1. req[r].id \in Msgs /\ req[r].event \in {"created", "deleted"} /\ req[r].to \subseteq Users
        BY <1>2, ReqParts DEF TInv, HasId, Told, PublishGroup, At, ReqRecord
      <3> QED BY <2>1, <3>1 DEF Event
    <2>4. ASSUME NEW s \in Streams, stream'[s] = None PROVE chan'[s] = <<>>
      <3>1. chan[s] = <<>> /\ ~(stream[s] \in to)
        BY <1>t, <2>2, <2>3, <2>4 DEF HInv
      <3> QED BY <2>2, <3>1 DEF Publish
    <2>5. ASSUME NEW s \in Streams, NEW i \in 1 .. Len(chan'[s]) PROVE ComesFrom(s, chan'[s][i])
      <3>1. (\E j \in 1 .. Len(chan[s]) : chan[s][j] = chan'[s][i]) \/ (stream[s] \in to /\ chan'[s][i] = e)
        BY <1>t, <2>2, <2>3, PublishAt
      <3>2. stream'[s] = stream[s]
        BY <2>2
      <3> QED BY <1>2, <2>1, <3>1, <3>2 DEF ComesFrom, WasThere, Published
    <2> QED BY <2>4, <2>5 DEF HInv
  <1>3. ASSUME NEW r \in Reqs, PublishReceipt(r), chan' # chan
        PROVE  /\ HInv'
               /\ \A s \in Streams : \A i \in 1 .. Len(chan'[s]) : ComesFrom(s, chan'[s][i])
    <2>1. PICK m \in req[r].todo : Publish({msg[m].author}, [type |-> "read", id |-> m])
      BY <1>3 DEF PublishReceipt
    <2>2. PICK to, e : to = {msg[m].author} /\ e = [type |-> "read", id |-> m]
      OBVIOUS
    <2>3. Publish(to, e) /\ stream' = stream
      BY <1>3, <2>1, <2>2 DEF PublishReceipt
    <2>4. e \in Event /\ to \subseteq Users /\ e.type = "read"
      <3>1. m \in Msgs
        BY <1>t, ReqParts
      <3> QED BY <1>t, <2>2, <3>1 DEF Event, TypeOK, Message
    <2>5. ASSUME NEW s \in Streams, stream'[s] = None PROVE chan'[s] = <<>>
      <3>1. chan[s] = <<>> /\ ~(stream[s] \in to)
        BY <1>t, <2>3, <2>4, <2>5 DEF HInv
      <3> QED BY <2>3, <3>1 DEF Publish
    <2>6. ASSUME NEW s \in Streams, NEW i \in 1 .. Len(chan'[s]) PROVE ComesFrom(s, chan'[s][i])
      <3>1. (\E j \in 1 .. Len(chan[s]) : chan[s][j] = chan'[s][i]) \/ (stream[s] \in to /\ chan'[s][i] = e)
        BY <1>t, <2>3, <2>4, PublishAt
      <3>2. stream'[s] = stream[s]
        BY <2>3
      <3> QED BY <2>4, <3>1, <3>2 DEF ComesFrom, WasThere
    <2> QED BY <2>5, <2>6 DEF HInv
  <1>4. ASSUME NEW s \in Streams, NEW u \in load.users, Subscribe(s, u)
        PROVE  /\ HInv'
               /\ \A x \in Streams : \A i \in 1 .. Len(chan'[x]) : ComesFrom(x, chan'[x][i])
    <2>1. stream[s] = None /\ stream' = [stream EXCEPT ![s] = u] /\ chan' = chan /\ u \in Users
      BY <1>4, <1>t DEF Subscribe
    <2>2. HInv'
      BY <1>t, <2>1 DEF HInv
    <2>3. ASSUME NEW x \in Streams, NEW i \in 1 .. Len(chan'[x]) PROVE ComesFrom(x, chan'[x][i])
      <3>1. CASE x = s
        <4>1. chan'[x] = <<>>
          BY <2>1, <3>1 DEF HInv
        <4>2. 1 .. Len(chan'[x]) = {}
          BY <4>1
        <4> QED BY <4>2
      <3>2. CASE x # s
        <4>1. stream'[x] = stream[x]
          BY <1>t, <2>1, <3>2
        <4> QED BY <2>1, <4>1 DEF ComesFrom, WasThere
      <3> QED BY <3>1, <3>2
    <2> QED BY <2>2, <2>3
  <1>5. ASSUME NEW s \in Streams, Receive(s)
        PROVE  /\ HInv'
               /\ \A x \in Streams : \A i \in 1 .. Len(chan'[x]) : ComesFrom(x, chan'[x][i])
    <2>1. stream[s] # None /\ chan[s] # <<>> /\ stream' = stream /\ chan' = [chan EXCEPT ![s] = Tail(@)]
      BY <1>5 DEF Receive
    <2>2. chan'[s] = Tail(chan[s]) /\ \A x \in Streams \ {s} : chan'[x] = chan[x]
      BY <1>t, <2>1
    <2>3. HInv'
      BY <2>1, <2>2 DEF HInv
    <2>4. ASSUME NEW i \in 1 .. Len(chan'[s]) PROVE ComesFrom(s, chan'[s][i])
      <3>1. i + 1 \in 1 .. Len(chan[s]) /\ Tail(chan[s])[i] = chan[s][i + 1]
        BY <1>t, <2>1, <2>2, TailAt
      <3> QED BY <2>1, <2>2, <3>1 DEF ComesFrom, WasThere
    <2>5. ASSUME NEW x \in Streams \ {s}, NEW i \in 1 .. Len(chan'[x]) PROVE ComesFrom(x, chan'[x][i])
      BY <2>1, <2>2 DEF ComesFrom, WasThere
    <2> QED BY <2>3, <2>4, <2>5
  <1>6. ASSUME NEW s \in Streams, Unsubscribe(s)
        PROVE  /\ HInv'
               /\ \A x \in Streams : \A i \in 1 .. Len(chan'[x]) : ComesFrom(x, chan'[x][i])
    <2>1. /\ stream' = [stream EXCEPT ![s] = None] /\ chan' = [chan EXCEPT ![s] = <<>>]
      BY <1>6 DEF Unsubscribe
    <2>2. chan'[s] = <<>> /\ \A x \in Streams \ {s} : chan'[x] = chan[x] /\ stream'[x] = stream[x]
      BY <1>t, <2>1
    <2>3. HInv'
      BY <2>2 DEF HInv
    <2>4. 1 .. Len(chan'[s]) = {}
      BY <2>2
    <2>5. ASSUME NEW x \in Streams \ {s}, NEW i \in 1 .. Len(chan'[x]) PROVE ComesFrom(x, chan'[x][i])
      BY <2>2 DEF ComesFrom, WasThere
    <2> QED BY <2>3, <2>4, <2>5
  <1>7. ASSUME Restart
        PROVE  /\ HInv'
               /\ \A x \in Streams : \A i \in 1 .. Len(chan'[x]) : ComesFrom(x, chan'[x][i])
    <2>1. \A x \in Streams : chan'[x] = <<>>
      BY <1>7 DEF Restart
    <2>2. \A x \in Streams : 1 .. Len(chan'[x]) = {}
      BY <2>1
    <2> QED BY <2>1, <2>2 DEF HInv
  <1>8. ASSUME NEW r \in Reqs, PublishReceipt(r), chan' = chan PROVE UNCHANGED <<stream, chan>>
    BY <1>8 DEF PublishReceipt
  <1> QED BY <1>1, <1>2, <1>3, <1>4, <1>5, <1>6, <1>7, <1>8, StepWrites DEF WritesToo, HubStep

\* A message that nobody stores in this step stays untouched.
LEMMA UntouchedStays ==
    ASSUME TInv, HInv, [Next]_vars, NEW m, Untouched(m), Untaken(m)
    PROVE  Untouched(m)'
  <1>1. m \notin stored'
    BY StoredNow DEF Untouched, Untaken
  <1>2. ASSUME NEW s \in Streams, NEW i \in 1 .. Len(chan'[s]), chan'[s][i].type = "created", chan'[s][i].id = m
        PROVE  FALSE
    <2>1. PICK e : e = chan'[s][i]
      OBVIOUS
    <2>2. ComesFrom(s, e) /\ e.type = "created" /\ e.id = m
      BY <1>2, <2>1, StepHub
    <2>3. CASE WasThere(s, e)
      BY <2>2, <2>3 DEF WasThere, Untouched, Tells
    <2>4. CASE Published(s, e)
      <3>1. PICK r \in Reqs : PublishGroup(r) /\ e = [type |-> req[r].event, id |-> req[r].id]
        BY <2>4 DEF Published
      <3>2. req[r].pc = "publish" /\ req[r].id = m
        BY <2>2, <3>1 DEF PublishGroup, At
      <3> QED BY <3>2 DEF Untouched, Named, Told
    <2> QED BY <2>2, <2>3, <2>4 DEF ComesFrom
  <1>3. ASSUME NEW x \in Reqs, req'[x].pc \in Named PROVE req'[x].id # m
    BY <1>3, Holds DEF Untouched, Untaken
  <1> QED BY <1>1, <1>2, <1>3 DEF Untouched, Tells

\* A request that stores a message of its own takes no other one.
LEMMA Takes ==
    ASSUME TInv, IInv, [Next]_vars, NEW x \in Reqs, req[x].pc = "add", req'[x].pc = "ids"
    PROVE  /\ req'[x].id \in {req[x].id} \cup (fresh \ fresh') /\ req'[x].id # None /\ Active(x)
           /\ req[x].pc \in Unsent
  BY Holds DEF Named, Told, Unsent

\* Identifiers that nobody holds stay so.
LEMMA StepIds == TInv /\ HInv /\ IInv /\ [Next]_vars => IInv'
  <1> SUFFICES ASSUME TInv, HInv, IInv, [Next]_vars PROVE IInv'
    OBVIOUS
  <1>t. fresh' \subseteq fresh /\ fresh \subseteq Msgs /\ None \notin Msgs
    <2>1. TypeOK /\ fresh \subseteq Msgs /\ None \notin Msgs
      BY Durations DEF TInv, TypeOK
    <2>2. ASSUME NEW r \in Reqs, Reserve(r) PROVE fresh' \subseteq fresh
      BY <2>2 DEF Reserve
    <2>3. ASSUME NEW r \in Reqs, AddMessage(r) PROVE fresh' \subseteq fresh
      BY <2>3 DEF AddMessage
    <2> QED BY <2>1, <2>2, <2>3, StepWrites DEF Writes
  <1>1. \A r \in Reqs : req'[r].pc = "reserve" => req'[r].id = None
    BY Holds DEF IInv
  <1>h. ASSUME NEW r \in Reqs, req'[r].pc \in Unsent, req'[r].id # None
        PROVE  \/ req[r].pc \in Unsent /\ req'[r].id = req[r].id
               \/ Active(r) /\ req'[r].id \in fresh \ fresh'
    BY <1>h, Holds DEF IInv
  <1>2. ASSUME NEW m \in fresh' PROVE Untouched(m)' /\ \A r \in Reqs : req'[r].pc \in Unsent => req'[r].id # m
    <2>1. Untouched(m) /\ \A r \in Reqs : req[r].pc \in Unsent => req[r].id # m
      BY <1>t DEF IInv
    <2>2. Untaken(m)
      BY <2>1, Takes DEF Untaken
    <2>3. Untouched(m)'
      BY <2>1, <2>2, UntouchedStays
    <2>4. ASSUME NEW r \in Reqs, req'[r].pc \in Unsent PROVE req'[r].id # m
      BY <1>h, <1>t, <2>1, <2>4
    <2> QED BY <2>3, <2>4
  <1>3. ASSUME NEW r \in Reqs, req'[r].pc \in Unsent, req'[r].id # None PROVE Untouched(req[r].id)'
    <2>0. PICK m : m = req'[r].id
      OBVIOUS
    <2>1. CASE req[r].pc \in Unsent /\ m = req[r].id
      <3>1. Untouched(m) /\ m \notin fresh
        BY <1>3, <2>0, <2>1 DEF IInv
      <3>2. Untaken(m)
        <4> SUFFICES ASSUME NEW x \in Reqs, req[x].pc = "add", req'[x].pc = "ids", req'[x].id = m PROVE FALSE
          BY DEF Untaken
        <4>1. x # r
          BY <1>3 DEF Unsent, Passed
        <4>2. req[x].id = m /\ req[x].pc \in Unsent
          BY <3>1, Takes
        <4> QED BY <1>3, <2>0, <2>1, <4>1, <4>2 DEF IInv
      <3>3. Untouched(m)'
        BY <3>1, <3>2, UntouchedStays
      <3> QED BY <2>0, <3>3 DEF Untouched, Tells
    <2>2. CASE Active(r) /\ m \in fresh \ fresh'
      <3>1. Untouched(m) /\ \A x \in Reqs : req[x].pc \in Unsent => req[x].id # m
        BY <2>2 DEF IInv
      <3>2. Untaken(m)
        <4> SUFFICES ASSUME NEW x \in Reqs, req[x].pc = "add", req'[x].pc = "ids", req'[x].id = m PROVE FALSE
          BY DEF Untaken
        <4>1. Active(x)
          BY Takes
        <4>2. x = r
          BY <2>2, <4>1, OneActive
        <4> QED BY <1>3, <4>2 DEF Unsent, Passed
      <3>3. Untouched(m)'
        BY <3>1, <3>2, UntouchedStays
      <3> QED BY <2>0, <3>3 DEF Untouched, Tells
    <2> QED BY <1>3, <1>h, <2>0, <2>1, <2>2
  <1>4. ASSUME NEW r \in Reqs, NEW x \in Reqs, r # x, req'[r].pc \in Unsent, req'[x].pc \in Unsent,
               req'[r].id # None, req'[r].id = req'[x].id
        PROVE  FALSE
    <2>1. \/ req[r].pc \in Unsent /\ req'[r].id = req[r].id
          \/ Active(r) /\ req'[r].id \in fresh
      BY <1>4, <1>h
    <2>2. \/ req[x].pc \in Unsent /\ req'[x].id = req[x].id
          \/ Active(x) /\ req'[x].id \in fresh
      BY <1>4, <1>h
    <2>3. ~(Active(r) /\ Active(x))
      BY <1>4, OneActive
    <2> QED BY <1>4, <2>1, <2>2, <2>3 DEF IInv
  <1>5. \A r, x \in Reqs : r # x /\ req'[r].pc \in Unsent /\ req'[x].pc \in Unsent /\ req'[r].id # None
            => req'[r].id # req'[x].id
    BY <1>4
  <1> QED BY <1>1, <1>2, <1>3, <1>5 DEF IInv

\* In the beginning nothing is stored, told or held.
LEMMA InitIds == Init => HInv /\ IInv
  <1> SUFFICES ASSUME Init PROVE HInv /\ IInv
    OBVIOUS
  <1>1. \A r \in Reqs : req[r].pc = "idle"
    BY IdleTyped DEF Init
  <1>2. \A s \in Streams : chan[s] = <<>> /\ 1 .. Len(chan[s]) = {}
    BY DEF Init
  <1>3. \A m : Untouched(m)
    BY <1>1, <1>2 DEF Init, Untouched, Tells, Named, Told
  <1> QED BY <1>1, <1>2, <1>3 DEF HInv, IInv, Unsent, Passed

\* The message that AddMessage stores was not known before.
LEMMA AddsNew ==
    ASSUME TInv, IInv, NEW r \in Reqs, NEW t, NEW m, AddsAs(r, t, m), req[r].pc = "add"
    PROVE  Untouched(m)
  BY DEF AddsAs, IInv, Unsent

-----------------------------------------------------------------------------
(* Read receipts.                                                          *)

\* MarkRead's receipts are of messages up to the one that is marked.
LEMMA MarkSeen ==
    ASSUME TInv, ReadMeansSeen, NEW r \in Reqs, Mark(r)
    PROVE  ReadMeansSeen'
  <1>1. PICK m, u : m = req[r].id /\ u = req[r].user
    OBVIOUS
  <1>t. /\ TypeOK /\ u \in Users /\ msg \in [Msgs -> Message] /\ seen \in [Users -> Int]
        /\ reads \subseteq stored \X Users /\ stored \subseteq Msgs
    BY <1>1, ReqParts DEF TInv, TypeOK
  <1>c. \A n \in Msgs : msg[n].created \in Nat
    BY <1>t, TimesEnd DEF Message
  <1>2. msg' = msg
    BY DEF Mark
  <1>3. CASE m \notin stored
    BY <1>1, <1>2, <1>3 DEF Mark, ReadMeansSeen
  <1>4. CASE m \in stored
    <2>1. /\ reads' = reads \cup (UpTo(m) \X {u})
          /\ seen' = [seen EXCEPT ![u] = IF msg[m].created > @ THEN msg[m].created ELSE @]
      BY <1>1, <1>4 DEF Mark
    <2>2. /\ seen'[u] \in Int /\ seen'[u] >= seen[u] /\ seen'[u] >= msg[m].created
          /\ \A v \in Users \ {u} : seen'[v] = seen[v]
      BY <1>t, <1>c, <1>4, <2>1
    <2>3. ASSUME NEW x \in reads PROVE msg'[x[1]].created <= seen'[x[2]]
      <3>1. msg[x[1]].created <= seen[x[2]] /\ x[1] \in Msgs /\ x[2] \in Users
        BY <1>t DEF ReadMeansSeen
      <3>2. seen[x[2]] \in Int /\ msg[x[1]].created \in Nat /\ seen'[x[2]] \in Int /\ seen[x[2]] <= seen'[x[2]]
        BY <1>t, <1>c, <2>2, <3>1
      <3> QED BY <1>2, <3>1, <3>2
    <2>4. ASSUME NEW x \in UpTo(m) \X {u} PROVE msg'[x[1]].created <= seen'[x[2]]
      <3>1. x[1] \in stored /\ msg[x[1]].created <= msg[m].created /\ x[2] = u
        BY <2>4 DEF UpTo
      <3>2. msg[x[1]].created \in Nat /\ msg[m].created \in Nat
        BY <1>t, <1>c, <1>4, <3>1
      <3> QED BY <1>2, <2>2, <3>1, <3>2
    <2> QED BY <2>1, <2>3, <2>4 DEF ReadMeansSeen
  <1> QED BY <1>3, <1>4

\* Deleting a message deletes its receipts, and a new message has none.
LEMMA StepSeen == TInv /\ IInv /\ ReadMeansSeen /\ [Next]_vars => ReadMeansSeen'
  <1> SUFFICES ASSUME TInv, IInv, ReadMeansSeen, [Next]_vars PROVE ReadMeansSeen'
    OBVIOUS
  <1>t. TypeOK /\ reads \subseteq stored \X Users /\ stored \subseteq Msgs /\ msg \in [Msgs -> Message]
    BY DEF TInv, TypeOK
  <1>1. ASSUME NEW r \in Reqs, AddMessage(r) PROVE ReadMeansSeen'
    <2>1. PICK t \in Times, m \in Msgs : AddsAs(r, t, m)
      BY <1>1, <1>t, Adds
    <2>2. m \notin stored
      BY <1>1, <2>1, AddsNew DEF AddMessage, At, Untouched
    <2>3. reads' = reads /\ seen' = seen /\ \A n \in stored : msg'[n] = msg[n]
      BY <1>1, <1>t, <2>1, <2>2 DEF AddMessage, AddsAs
    <2> QED BY <1>t, <2>3 DEF ReadMeansSeen
  <1>2. CASE (~ \E r \in Reqs : AddMessage(r)) /\ (~ \E r \in Reqs : Mark(r))
    <2>1. msg' = msg /\ seen' = seen
      BY <1>2, StepWrites DEF Writes
    <2>2. reads' \subseteq reads
      BY <1>2, RemovesDrop, StepWrites DEF WritesToo, Drop
    <2> QED BY <2>1, <2>2 DEF ReadMeansSeen
  <1> QED BY <1>1, <1>2, MarkSeen

\* Events and requests name messages that were handed out.
LEMMA Identified == Spec => [](HInv /\ IInv)
  BY InitIds, TypeInvariant, StepHub, StepIds, PTL DEF Spec

\* MarkRead is truthful: whatever is stored, deleted and marked in between, an
\* account has receipts only for messages no newer than one it has marked.
THEOREM ReceiptsTruthful == Spec => []ReadMeansSeen
  <1>1. Init => ReadMeansSeen
    BY DEF Init, ReadMeansSeen
  <1> QED BY <1>1, TypeInvariant, Identified, StepSeen, PTL DEF Spec

-----------------------------------------------------------------------------
(* Who hears of a message.                                                 *)

\* A request that tells of a message it has stored.
Telling(q) == q.pc \in Told /\ q.event = "created"

\* The members when the message was stored, and those that joined since, are
\* entitled to it; the recipients a request has read are among them.
EInv ==
    /\ \A r \in Reqs : Telling(req[r]) => members \subseteq entitled[req[r].id]
    /\ \A r \in Reqs : Telling(req[r]) /\ req[r].pc = "publish" => req[r].to \subseteq entitled[req[r].id]
    /\ OnlyMembersHear

\* Entitlements only grow, except for a message nobody knows yet.
LEMMA EntitledGrows ==
    ASSUME TInv, IInv, [Next]_vars, NEW m \in Msgs, ~Untouched(m)
    PROVE  entitled[m] \subseteq entitled'[m]
  <1>t. TypeOK /\ entitled \in [Msgs -> SUBSET Users]
    BY DEF TInv, TypeOK
  <1>1. ASSUME NEW r \in Reqs, AddMessage(r) PROVE entitled'[m] = entitled[m]
    <2>1. PICK t \in Times, n \in Msgs : AddsAs(r, t, n)
      BY <1>1, <1>t, Adds
    <2>2. n # m
      BY <1>1, <2>1, AddsNew DEF AddMessage, At
    <2> QED BY <1>t, <2>1, <2>2 DEF AddsAs
  <1>2. ASSUME NEW u \in load.users, Join(u) PROVE entitled[m] \subseteq entitled'[m]
    <2>1. m \notin fresh
      BY DEF IInv
    <2> QED BY <1>2, <2>1 DEF Join
  <1> QED BY <1>1, <1>2, StepWrites DEF Writes

\* Those who join are entitled to everything that is known.
LEMMA MembersEntitled ==
    ASSUME TInv, IInv, [Next]_vars, NEW m \in Msgs, ~Untouched(m), members \subseteq entitled[m]
    PROVE  members' \subseteq entitled'[m]
  <1>1. entitled[m] \subseteq entitled'[m]
    BY EntitledGrows
  <1>2. ASSUME NEW u \in load.users, Join(u) PROVE members' \subseteq entitled'[m]
    <2>1. m \notin fresh
      BY DEF IInv
    <2> QED BY <1>2, <2>1 DEF Join
  <1>3. ASSUME NEW u \in load.users, Leave(u) PROVE members' \subseteq members
    BY <1>3 DEF Leave
  <1>4. ASSUME NEW r \in Reqs, IsolateMessageAttack(r) PROVE members' \subseteq members
    BY <1>4 DEF IsolateMessageAttack
  <1> QED BY <1>1, <1>2, <1>3, <1>4, StepWrites DEF WritesToo, MemberStep

\* A request that comes to tell of a message has stored it in this step.
LEMMA AddsHere ==
    ASSUME TInv, [Next]_vars, NEW r \in Reqs, Active(r), req[r].pc = "add", req'[r].pc = "ids"
    PROVE  AddMessage(r)
  <1>1. BeginStep(r) \/ QuietStep(r) \/ BusyStep(r) \/ RecordMessageViolation(r)
    BY OwnStep DEF Active
  <1>2. ~BeginStep(r) /\ ~RecordMessageViolation(r)
    BY DEF BeginStep, Send, DeleteCheck, MarkCheck, RecordMessageViolation, At
  <1>3. ~Abort(r)
    BY IdleTyped, ReqParts DEF Abort, Done, TInv
  <1>4. ~QuietStep(r)
    BY <1>3 DEF QuietStep, ReserveNothing, SimilarMessages, EvaluateGroup, DeleteRecentRepeatedMessages,
                Limits, DeleteRecentMessagesByAuthor, WarnOnce, IsolateMessageAttack, PublishGroup, At
  <1> QED BY <1>1, <1>2, <1>4 DEF BusyStep, Reserve, MessageCooldown, CreateGroupSpamWarning, TakeInterval,
                                  GroupMemberIDs, DeleteMessage, Mark, PublishReceipt, At

\* GroupMemberIDs reads who the members are.
LEMMA ReadsMembers ==
    ASSUME TInv, [Next]_vars, NEW r \in Reqs, req'[r].pc = "publish"
    PROVE  \/ req[r].pc = "publish" /\ req'[r].to = req[r].to
           \/ req[r].pc = "ids" /\ req'[r].to = members
  <1>t. req[r] \in ReqRecord /\ Change(r)
    BY ReqStep, ReqParts DEF TInv
  <1>1. CASE req'[r] = req[r]
    BY <1>1
  <1>2. CASE LateNow(r)
    BY <1>2, <1>t DEF LateNow, ReqRecord
  <1>3. CASE Succeeds(req[r], req'[r])
    BY <1>3, IdleTyped DEF Succeeds, Begins, GoesOn, Passed, Punish, AfterReserve
  <1> QED BY <1>1, <1>2, <1>3, <1>t DEF Change

\* Every step keeps events away from accounts that were no members.
LEMMA StepEntitled == TInv /\ HInv /\ IInv /\ EInv /\ [Next]_vars => EInv'
  <1> SUFFICES ASSUME TInv, HInv, IInv, EInv, [Next]_vars PROVE EInv'
    OBVIOUS
  <1>t. TypeOK /\ HasId /\ chan \in [Streams -> Seq(Event)] /\ entitled \in [Msgs -> SUBSET Users]
    BY DEF TInv, TypeOK
  <1>k. ASSUME NEW r \in Reqs, Telling(req[r])
        PROVE  req[r].id \in Msgs /\ ~Untouched(req[r].id)
    BY <1>k, <1>t DEF HasId, Telling, Untouched, Named
  <1>1. ASSUME NEW r \in Reqs, Telling(req'[r])
        PROVE  \/ Telling(req[r]) /\ req'[r].id = req[r].id
               \/ AddMessage(r) /\ req'[r].pc = "ids"
    <2>1. req'[r].pc \in Named /\ req'[r].pc \in Told /\ req'[r].event = "created" /\ req'[r].pc # "delete"
      BY <1>1 DEF Telling, Named, Told
    <2> QED BY <2>1, Holds, AddsHere DEF Telling
  <1>2. ASSUME NEW r \in Reqs, AddMessage(r)
        PROVE  members' = members /\ entitled'[req'[r].id] = members
    <2>t. req \in [Reqs -> ReqRecord] /\ req[r] \in ReqRecord
      BY <1>t, ReqParts
    <2>1. PICK t \in Times, m \in Msgs : AddsAs(r, t, m)
      BY <1>2, <1>t, Adds
    <2>2. req'[r].id = m
      BY <2>1, <2>t DEF AddsAs, ReqRecord
    <2> QED BY <1>2, <1>t, <2>1, <2>2 DEF AddsAs, AddMessage
  <1>3. ASSUME NEW r \in Reqs, Telling(req'[r]) PROVE members' \subseteq entitled'[req'[r].id]
    <2>1. CASE Telling(req[r]) /\ req'[r].id = req[r].id
      BY <1>k, <2>1, MembersEntitled DEF EInv
    <2>2. CASE AddMessage(r)
      BY <1>2, <2>2
    <2> QED BY <1>1, <1>3, <2>1, <2>2
  <1>4. ASSUME NEW r \in Reqs, Telling(req'[r]), req'[r].pc = "publish"
        PROVE  req'[r].to \subseteq entitled'[req'[r].id]
    <2>1. Telling(req[r]) /\ req'[r].id = req[r].id
      BY <1>1, <1>4
    <2>2. entitled[req[r].id] \subseteq entitled'[req[r].id]
      BY <1>k, <2>1, EntitledGrows
    <2>3. req'[r].to \subseteq entitled[req[r].id]
      BY <1>4, <2>1, ReadsMembers DEF EInv
    <2> QED BY <2>1, <2>2, <2>3
  <1>5. ASSUME NEW s \in Streams, NEW i \in 1 .. Len(chan'[s]), chan'[s][i].type = "created"
        PROVE  stream'[s] \in entitled'[chan'[s][i].id]
    <2>1. PICK e : e = chan'[s][i]
      OBVIOUS
    <2>2. ComesFrom(s, e) /\ e.type = "created"
      BY <1>5, <2>1, StepHub
    <2>3. CASE WasThere(s, e)
      <3>1. PICK j \in 1 .. Len(chan[s]) : chan[s][j] = e /\ stream'[s] = stream[s]
        BY <2>3 DEF WasThere
      <3>2. e.id \in Msgs
        <4>1. chan[s] \in Seq(Event)
          BY <1>t
        <4>2. chan[s][j] \in Event
          BY <4>1
        <4> QED BY <3>1, <4>2 DEF Event
      <3>3. ~Untouched(e.id)
        BY <2>2, <3>1 DEF Untouched, Tells
      <3>4. stream[s] \in entitled[e.id]
        BY <2>2, <3>1 DEF EInv, OnlyMembersHear
      <3>5. stream'[s] \in entitled'[e.id]
        BY <3>1, <3>2, <3>3, <3>4, EntitledGrows
      <3> QED BY <2>1, <3>5
    <2>4. CASE Published(s, e)
      <3>1. PICK r \in Reqs : /\ PublishGroup(r) /\ stream[s] \in req[r].to /\ stream'[s] = stream[s]
                              /\ e = [type |-> req[r].event, id |-> req[r].id]
        BY <2>4 DEF Published
      <3>2. e.id = req[r].id /\ req[r].event = "created" /\ req[r].pc = "publish"
        BY <2>2, <3>1 DEF PublishGroup, At
      <3>3. Telling(req[r])
        BY <3>2 DEF Telling, Told
      <3>4. stream[s] \in entitled[e.id] /\ entitled[e.id] \subseteq entitled'[e.id]
        BY <1>k, <3>1, <3>2, <3>3, EntitledGrows DEF EInv
      <3> QED BY <2>1, <3>1, <3>4
    <2> QED BY <2>2, <2>3, <2>4 DEF ComesFrom
  <1>6. OnlyMembersHear'
    BY <1>5 DEF OnlyMembersHear
  <1> QED BY <1>3, <1>4, <1>6 DEF EInv

\* Events reach members only: the recipients are read after the row was stored,
\* and yet every account that hears of a message was a member at some time
\* since then, whatever joins, leaves and full channels come between.
THEOREM MembersHear == Spec => []OnlyMembersHear
  <1>1. Init => EInv
    <2> SUFFICES ASSUME Init PROVE EInv
      OBVIOUS
    <2>1. \A r \in Reqs : req[r].pc = "idle"
      BY IdleTyped DEF Init
    <2>2. \A s \in Streams : 1 .. Len(chan[s]) = {}
      BY DEF Init
    <2> QED BY <2>1, <2>2 DEF EInv, Telling, Told, OnlyMembersHear
  <1>2. EInv => OnlyMembersHear
    BY DEF EInv
  <1> QED BY <1>1, <1>2, TypeInvariant, Identified, StepEntitled, PTL DEF Spec

-----------------------------------------------------------------------------
(* Losses.                                                                 *)

\* Who is about to delete a message may do so.
DInv == \A r \in Reqs : req[r].pc = "delete" => MayDelete(req[r].user, req[r].id)

\* The columns of a message that is known do not change.
LEMMA MessageStays ==
    ASSUME TInv, IInv, [Next]_vars, NEW m \in Msgs, ~Untouched(m)
    PROVE  msg'[m] = msg[m]
  <1>t. TypeOK /\ msg \in [Msgs -> Message]
    BY DEF TInv, TypeOK
  <1>1. ASSUME NEW r \in Reqs, AddMessage(r) PROVE msg'[m] = msg[m]
    <2>1. PICK t \in Times, n \in Msgs : AddsAs(r, t, n)
      BY <1>1, <1>t, Adds
    <2>2. n # m
      BY <1>1, <2>1, AddsNew DEF AddMessage, At
    <2> QED BY <1>t, <2>1, <2>2 DEF AddsAs
  <1> QED BY <1>1, StepWrites DEF Writes

\* A permission that was checked stays true until the message is deleted.
LEMMA StepMayDelete == TInv /\ IInv /\ DInv /\ [Next]_vars => DInv'
  <1> SUFFICES ASSUME TInv, IInv, DInv, [Next]_vars, NEW x \in Reqs, req'[x].pc = "delete"
               PROVE  MayDelete(req[x].user, req[x].id)'
    BY DEF DInv
  <1>t. /\ req[x] \in ReqRecord /\ Change(x) /\ HasId /\ stored \subseteq Msgs
    BY ReqStep, ReqParts DEF TInv, TypeOK
  <1>1. PICK u, m : u = req'[x].user /\ m = req'[x].id
    OBVIOUS
  <1>2. MayDelete(u, m) /\ ~Untouched(m) /\ m \in Msgs
    <2>1. CASE req'[x] = req[x]
      BY <1>1, <1>t, <2>1 DEF DInv, HasId, Untouched, Named
    <2>2. CASE LateNow(x)
      <3>1. req[x].pc = "delete" /\ u = req[x].user /\ m = req[x].id
        BY <1>1, <1>t, <2>2 DEF LateNow, ReqRecord
      <3> QED BY <1>t, <3>1 DEF DInv, HasId, Untouched, Named
    <2>3. CASE Succeeds(req[x], req'[x])
      <3>1. Begins(req'[x])
        BY <2>3, IdleTyped DEF Succeeds, GoesOn, Passed, Punish, AfterReserve
      <3> QED BY <1>1, <1>t, <3>1 DEF Begins, Untouched
    <2> QED BY <1>t, <2>1, <2>2, <2>3 DEF Change
  <1>3. msg'[m] = msg[m]
    BY <1>2, MessageStays
  <1> QED BY <1>1, <1>2, <1>3 DEF MayDelete

\* Antispam, deletion and cleanup take nobody else's messages: a message that
\* goes is old, is deleted by its author or the owner, or is a recent one of an
\* account that violates the limits in this very step.
THEOREM LossesOwn == Spec => OnlyOwnLosses
  <1>1. Init => DInv
    BY IdleTyped DEF Init, DInv
  <1>2. TInv /\ DInv /\ [Next]_vars => LossStep
    <2> SUFFICES ASSUME TInv, DInv, [Next]_vars, NEW m \in stored \ stored'
                 PROVE  \/ msg[m].created < now - (IF MinAge < Retention THEN MinAge ELSE Retention)
                        \/ \E r \in Reqs : /\ At(r, "delete") /\ req[r].id = m
                                           /\ req[r].user \in {msg[m].author, Owner}
                        \/ \E r \in Reqs : /\ At(r, "repeat") \/ At(r, "purge")
                                           /\ req[r].user = msg[m].author /\ req[r].at <= msg[m].created + Refill
                        \/ CleanupBannedUser(msg[m].author)
      BY DEF LossStep
    <2>t. /\ TypeOK /\ m \in Msgs /\ msg[m].created \in Nat /\ now \in Nat /\ Refill \in Nat
          /\ MinAge \in Nat /\ Retention \in Nat /\ load.lag \in Nat
      <3>1. TypeOK /\ m \in Msgs /\ msg[m] \in Message /\ now \in Times /\ load \in Workloads
        BY DEF TInv, TypeOK
      <3>2. msg[m].created \in Nat /\ now \in Nat
        BY <3>1, TimesEnd DEF Message
      <3> QED BY <3>1, <3>2, WorkloadOK, Durations
    <2>1. Removes
      <3>1. ASSUME NEW r \in Reqs, AddMessage(r) PROVE stored \subseteq stored'
        BY <3>1 DEF AddMessage
      <3>2. ASSUME NEW r \in Reqs, Mark(r) PROVE stored' = stored
        BY <3>2 DEF Mark
      <3> QED BY <3>1, <3>2, StepWrites DEF WritesToo
    <2>2. ASSUME NEW r \in Reqs, DeleteRecentRepeatedMessages(r) \/ DeleteRecentMessagesByAuthor(r)
          PROVE  /\ At(r, "repeat") \/ At(r, "purge")
                 /\ req[r].user = msg[m].author /\ req[r].at <= msg[m].created + Refill
      <3>1. m \in Own(r) /\ (At(r, "repeat") \/ At(r, "purge"))
        BY <2>2 DEF DeleteRecentRepeatedMessages, DeleteRecentMessagesByAuthor, Drop
      <3>2. req[r].user = msg[m].author /\ msg[m].created >= req[r].at - Refill
        BY <3>1 DEF Own, Recent
      <3>3. req[r].at \in Nat
        BY <2>t, ReqParts
      <3> QED BY <2>t, <3>1, <3>2, <3>3
    <2>3. ASSUME NEW r \in Reqs, DeleteMessage(r)
          PROVE  At(r, "delete") /\ req[r].id = m /\ req[r].user \in {msg[m].author, Owner}
      <3>1. At(r, "delete") /\ m = req[r].id
        BY <2>3 DEF DeleteMessage, Drop
      <3> QED BY <3>1 DEF DInv, MayDelete, At
    <2>4. CASE DeleteOldMessages
      <3>1. PICK t \in now - load.lag .. now : m \in Expired(t) \cup Oldest(t)
        BY <2>4 DEF DeleteOldMessages, Drop
      <3>2. t \in Int /\ t <= now
        BY <2>t
      <3>3. msg[m].created < t - Retention \/ msg[m].created < t - MinAge
        BY <3>1 DEF Expired, Oldest
      <3> QED BY <2>t, <3>2, <3>3
    <2>5. ASSUME NEW u \in load.users, CleanupBannedUser(u) PROVE CleanupBannedUser(msg[m].author)
      <3>1. u = msg[m].author
        BY <2>5 DEF CleanupBannedUser, Drop
      <3> QED BY <2>5, <3>1
    <2> QED BY <2>1, <2>2, <2>3, <2>4, <2>5 DEF Removes, BanStep
  <1> QED BY <1>1, <1>2, TypeInvariant, Identified, StepMayDelete, PTL DEF Spec, OnlyOwnLosses

-----------------------------------------------------------------------------
(* Isolation.                                                              *)

\* The warnings on record are separate: at most one in a window of the guard.
Separate(w) ==
    /\ \A s \in Times : w[s] <= 1
    /\ \A s, t \in Times : s # t /\ w[s] > 0 /\ w[t] > 0 => s + Refill <= t \/ t + Refill <= s
WInv == Separate(warnings)

\* CreateGroupSpamWarning's warning is separate from the ones before it.
LEMMA StepWarnings == TInv /\ WInv /\ [Next]_vars => WInv'
  <1> SUFFICES ASSUME TInv, WInv, [Next]_vars PROVE WInv'
    OBVIOUS
  <1>1. ASSUME NEW r \in Reqs, CreateGroupSpamWarning(r) PROVE WInv'
    <2>1. PICK t, kept : /\ t = req[r].at
                         /\ kept = [s \in Times |-> IF s < t - WarningWindow THEN 0 ELSE warnings[s]]
      OBVIOUS
    <2>t. /\ TypeOK /\ t \in Times /\ t \in Nat /\ warnings \in [Times -> Nat] /\ Refill \in Nat \ {0}
          /\ WarningWindow \in Nat /\ Times \subseteq Nat
      <3>1. TypeOK /\ t \in Times /\ t \in Nat
        BY <2>1, ReqParts DEF TInv
      <3>2. warnings \in [Times -> Nat]
        BY <3>1 DEF TypeOK
      <3> QED BY <3>1, <3>2, Durations, TimesEnd
    <2>2. \A s \in Times : kept[s] \in Nat /\ kept[s] <= warnings[s] /\ (kept[s] = 0 \/ kept[s] = warnings[s])
      BY <2>1, <2>t
    <2>3. Separate(kept)
      <3>1. \A s \in Times : warnings[s] \in Nat /\ warnings[s] <= 1
        BY <2>t DEF WInv, Separate
      <3>2. \A s \in Times : kept[s] <= 1 /\ (kept[s] > 0 => warnings[s] > 0)
        BY <2>2, <3>1
      <3> QED BY <3>2 DEF WInv, Separate
    <2>4. CASE WarnedSince(t - Refill)
      <3>1. warnings' = kept
        BY <1>1, <2>1, <2>4 DEF CreateGroupSpamWarning
      <3> QED BY <2>3, <3>1 DEF WInv, Separate
    <2>5. CASE ~WarnedSince(t - Refill)
      <3>1. warnings' = [kept EXCEPT ![t] = @ + 1]
        BY <1>1, <2>1, <2>5 DEF CreateGroupSpamWarning
      <3>2. \A s \in Times : s > t - Refill => warnings[s] = 0
        BY <2>5, <2>t DEF WarnedSince
      <3>3. kept[t] = 0
        BY <2>1, <2>t, <3>2
      <3>4. warnings'[t] = 1 /\ \A s \in Times \ {t} : warnings'[s] = kept[s]
        BY <2>1, <2>t, <3>1, <3>3
      <3>5. ASSUME NEW s \in Times, kept[s] > 0 PROVE s + Refill <= t
        <4>1. warnings[s] # 0
          BY <2>2, <3>5
        <4>2. ~(s > t - Refill)
          BY <3>2, <4>1
        <4> QED BY <2>t, <4>2
      <3>6. \A s \in Times : warnings'[s] <= 1
        BY <2>3, <3>4 DEF Separate
      <3>7. ASSUME NEW s \in Times, NEW x \in Times, s # x, warnings'[s] > 0, warnings'[x] > 0
            PROVE  s + Refill <= x \/ x + Refill <= s
        <4>1. CASE s = t
          BY <3>4, <3>5, <3>7, <4>1
        <4>2. CASE x = t
          BY <3>4, <3>5, <3>7, <4>2
        <4>3. CASE s # t /\ x # t
          BY <2>3, <3>4, <3>7, <4>3 DEF Separate
        <4> QED BY <4>1, <4>2, <4>3
      <3> QED BY <3>6, <3>7 DEF WInv, Separate
    <2> QED BY <2>4, <2>5
  <1>2. CASE UNCHANGED warnings
    BY <1>2 DEF WInv, Separate
  <1> QED BY <1>1, <1>2, StepWrites DEF Writes

\* The decision to isolate is made in CreateGroupSpamWarning.
LEMMA DecidesHere ==
    ASSUME TInv, [Next]_vars, NEW r \in Reqs, req'[r].isolate, ~req[r].isolate
    PROVE  CreateGroupSpamWarning(r)
  <1>t. req \in [Reqs -> ReqRecord] /\ req[r] \in ReqRecord
    BY ReqParts DEF TInv
  <1>1. req'[r] # req[r] /\ ~LateNow(r) /\ req'[r] # IdleReq
    BY <1>t, IdleTyped DEF LateNow, ReqRecord
  <1>2. BeginStep(r) \/ QuietStep(r) \/ BusyStep(r) \/ RecordMessageViolation(r)
    BY <1>1, OwnStep
  <1>d. ~Done(r)
    BY <1>1, <1>t DEF Done
  <1>g. ASSUME NEW pc PROVE ~Goto(r, pc)
    <2>1. ASSUME Goto(r, pc) PROVE req'[r] = [req[r] EXCEPT !.pc = pc]
      BY <2>1, <1>t DEF Goto
    <2> QED BY <2>1, <1>t DEF ReqRecord
  <1>3. ~BeginStep(r)
    <2>1. ASSUME BeginStep(r) PROVE FALSE
      <3>1. Moves(r) /\ req[r].pc = "idle"
        BY <2>1, BeginMoves DEF BeginStep, Send, DeleteCheck, MarkCheck, At
      <3>2. Begins(req'[r])
        BY <1>1, <1>t, <3>1 DEF Moves, Succeeds, GoesOn
      <3> QED BY <3>2 DEF Begins
    <2> QED BY <2>1
  <1>4. ~QuietStep(r)
    BY <1>d, <1>g DEF QuietStep, ReserveNothing, SimilarMessages, EvaluateGroup, DeleteRecentRepeatedMessages,
            Limits, DeleteRecentMessagesByAuthor, WarnOnce, AfterViolation, IsolateMessageAttack, PublishGroup, Abort
  <1>5. ~RecordMessageViolation(r)
    <2>1. ASSUME RecordMessageViolation(r) PROVE req'[r] = IdleReq \/ req'[r] = [req[r] EXCEPT !.pc = "isolate"]
      BY <2>1 DEF RecordMessageViolation
    <2> QED BY <1>1, <1>t, <2>1 DEF ReqRecord
  <1>6. ~(Reserve(r) \/ MessageCooldown(r) \/ TakeInterval(r) \/ AddMessage(r))
    <2>1. ASSUME Reserve(r) PROVE FALSE
      <3>1. PICK t \in Clock(r), m \in fresh, pc \in {AfterReserve(req[r].body)} :
               req' = [req EXCEPT ![r].id = m, ![r].at = t, ![r].pc = pc]
        BY <1>d, <2>1 DEF Reserve
      <3>2. req'[r] = [req[r] EXCEPT !.id = m, !.at = t, !.pc = pc]
        BY <1>t, <3>1
      <3> QED BY <1>t, <3>2 DEF ReqRecord
    <2>2. ASSUME MessageCooldown(r) PROVE FALSE
      <3>1. PICK t, pc : req' = [req EXCEPT ![r].at = t, ![r].pc = pc]
        BY <1>d, <2>2 DEF MessageCooldown
      <3>2. req'[r] = [req[r] EXCEPT !.at = t, !.pc = pc]
        BY <1>t, <3>1
      <3> QED BY <1>t, <3>2 DEF ReqRecord
    <2>3. ~TakeInterval(r)
      BY <1>d, <1>g DEF TakeInterval
    <2>4. ASSUME AddMessage(r) PROVE FALSE
      <3>1. PICK m : req' = [req EXCEPT ![r].pc = "ids", ![r].id = m, ![r].event = "created"]
        BY <2>4 DEF AddMessage
      <3>2. req'[r] = [req[r] EXCEPT !.pc = "ids", !.id = m, !.event = "created"]
        BY <1>t, <3>1
      <3> QED BY <1>t, <3>2 DEF ReqRecord
    <2> QED BY <2>1, <2>2, <2>3, <2>4
  <1>7. ~(GroupMemberIDs(r) \/ DeleteMessage(r) \/ Mark(r) \/ PublishReceipt(r))
    <2>1. ASSUME NEW T, NEW pc, req' = [req EXCEPT ![r].to = T, ![r].pc = pc] PROVE FALSE
      <3>1. req'[r] = [req[r] EXCEPT !.to = T, !.pc = pc]
        BY <1>t, <2>1
      <3> QED BY <1>t, <3>1 DEF ReqRecord
    <2>2. ASSUME NEW e, NEW pc, req' = [req EXCEPT ![r].pc = pc, ![r].event = e] PROVE FALSE
      <3>1. req'[r] = [req[r] EXCEPT !.pc = pc, !.event = e]
        BY <1>t, <2>2
      <3> QED BY <1>t, <3>1 DEF ReqRecord
    <2>3. ASSUME NEW T, NEW pc, req' = [req EXCEPT ![r].pc = pc, ![r].todo = T] PROVE FALSE
      <3>1. req'[r] = [req[r] EXCEPT !.pc = pc, !.todo = T]
        BY <1>t, <2>3
      <3> QED BY <1>t, <3>1 DEF ReqRecord
    <2>4. ASSUME NEW m, req' = [req EXCEPT ![r].todo = @ \ {m}] PROVE FALSE
      <3>1. req'[r] = [req[r] EXCEPT !.todo = @ \ {m}]
        BY <1>t, <2>4
      <3> QED BY <1>t, <3>1 DEF ReqRecord
    <2>5. ~GroupMemberIDs(r) /\ ~DeleteMessage(r)
      BY <1>d, <2>1, <2>2 DEF GroupMemberIDs, DeleteMessage
    <2>6. ~Mark(r) /\ ~PublishReceipt(r)
      BY <1>d, <2>3, <2>4 DEF Mark, PublishReceipt
    <2> QED BY <2>5, <2>6
  <1> QED BY <1>2, <1>3, <1>4, <1>5, <1>6, <1>7 DEF BusyStep

\* A count of warnings that are separate is a count of times.
LEMMA CountTimes ==
    ASSUME NEW w \in [Times -> Nat], Separate(w), NEW t \in Int
    PROVE  Count(w, t) <= Cardinality({s \in Times : w[s] > 0}) /\ Count(w, t) \in Nat
  <1>1. PICK f, P : f = [s \in Times |-> IF s >= t THEN w[s] ELSE 0] /\ P = {s \in Times : w[s] > 0}
    OBVIOUS
  <1>2. IsFiniteSet(Times) /\ P \in SUBSET Times /\ DOMAIN f = Times
    BY <1>1, TimesEnd
  <1>3. \A s \in Times : f[s] \in Nat /\ f[s] <= 1
    BY <1>1 DEF Separate
  <1>4. \A s \in Times \ P : f[s] = 0
    BY <1>1
  <1>5. SumOver(f, Times) <= Cardinality(P) /\ SumOver(f, Times) \in Nat
    BY <1>2, <1>3, <1>4, SumOfOnes, SumNat
  <1>6. Count(w, t) = SumOver(f, Times)
    BY <1>1, <1>2, SumOfFunction DEF Count
  <1> QED BY <1>1, <1>5, <1>6

\* Texts isolate a group only after WarningLimit attacks in different windows:
\* requests that see the same flood at once add one warning between them.
THEOREM IsolationIsEarned == Spec => IsolationEarned
  <1>1. Init => WInv
    BY DEF Init, WInv, Separate
  <1>2. TInv /\ WInv /\ [Next]_vars => IsolationStep
    <2> SUFFICES ASSUME TInv, WInv, [Next]_vars, NEW r \in Reqs, req'[r].isolate, ~req[r].isolate
                 PROVE  \E W \in kSubset(WarningLimit, {s \in Times : warnings'[s] > 0}) :
                            \A s, t \in W : s # t => s + Refill <= t \/ t + Refill <= s
      BY DEF IsolationStep
    <2>1. CreateGroupSpamWarning(r)
      BY DecidesHere
    <2>2. PICK t : t = req[r].at
      OBVIOUS
    <2>t. TypeOK /\ req \in [Reqs -> ReqRecord] /\ req[r] \in ReqRecord /\ t \in Nat /\ WarningWindow \in Nat
          /\ WarningLimit \in Nat
      BY <2>2, ReqParts, Durations DEF TInv
    <2>3. Separate(warnings') /\ warnings' \in [Times -> Nat]
      BY StepWarnings, StepTyped DEF WInv, TInv, TypeOK
    <2>4. PICK i : i = (~WarnedSince(t - Refill) /\ Count(warnings', t - WarningWindow) >= WarningLimit)
      OBVIOUS
    <2>5. req' = [req EXCEPT ![r].pc = "violation", ![r].isolate = i]
      BY <2>1, <2>2, <2>4 DEF CreateGroupSpamWarning
    <2>6. req'[r].isolate = i
      BY <2>5, <2>t DEF ReqRecord
    <2>7. Count(warnings', t - WarningWindow) >= WarningLimit
      BY <2>4, <2>6
    <2>8. PICK w, P : w = warnings' /\ P = {s \in Times : w[s] > 0}
      OBVIOUS
    <2>9. Separate(w) /\ w \in [Times -> Nat] /\ Count(w, t - WarningWindow) >= WarningLimit
      BY <2>3, <2>7, <2>8
    <2>10. IsFiniteSet(P) /\ Cardinality(P) \in Nat
      BY <2>8, TimesEnd, FS_Subset, FS_CardinalityType
    <2>11. WarningLimit <= Cardinality(P)
      <3>1. t - WarningWindow \in Int
        BY <2>t
      <3>2. Count(w, t - WarningWindow) <= Cardinality(P) /\ Count(w, t - WarningWindow) \in Nat
        BY <2>8, <2>9, <3>1, CountTimes
      <3> QED BY <2>9, <2>10, <2>t, <3>2
    <2>12. PICK W \in SUBSET P : IsFiniteSet(W) /\ Cardinality(W) = WarningLimit
      BY <2>10, <2>11, <2>t, SubsetOfSize
    <2>13. W \in kSubset(WarningLimit, P)
      BY <2>12 DEF kSubset
    <2>14. \A s, x \in W : s # x => s + Refill <= x \/ x + Refill <= s
      BY <2>8, <2>9, <2>12 DEF Separate
    <2> QED BY <2>8, <2>13, <2>14
  <1> QED BY <1>1, <1>2, TypeInvariant, StepWarnings, PTL DEF Spec, IsolationEarned
=============================================================================
