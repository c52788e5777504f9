-------------------------------- MODULE Bans --------------------------------
(***************************************************************************)
(* The ban ladder: the abuse guard around every HTTP request, the ip_bans  *)
(* table that counts rate-limit violations per IP and per account          *)
(* (store/rate), and the enforcer that blocks an account, cleans up after  *)
(* it and deletes it after repeated top-level bans (httpapi/ban).          *)
(*                                                                         *)
(* Requests run concurrently and every store call is one step (SQLite has  *)
(* one connection).  What a ban does to rooms is BanTx of module Rooms.    *)
(***************************************************************************)
EXTENDS Integers, FiniteSets, FiniteSetsExt

CONSTANTS
    Accounts,       \* registered accounts
    IPs,            \* addresses of anonymous requests
    Reqs,           \* requests in flight at the same time
    Threshold,      \* IP_BAN_THRESHOLD
    Window,         \* IP_BAN_WINDOW
    Levels, Steps,  \* IP_BAN_STEPS: Levels durations
    Forget,         \* IP_BAN_ESCALATION_FORGET
    BanWindow,      \* ACCOUNT_BAN_WINDOW
    DeletionCount,  \* ACCOUNT_BAN_DELETION_COUNT
    Faults,         \* database, LiveKit and process may fail
    Lag,            \* bound: ticks between a request's violation and its end
    MaxTime         \* bound on the clock

Keys  == Accounts \cup IPs
Times == 0 .. MaxTime

\* config.go requires positive values; that no ban outlasts Forget holds for
\* the shipped durations (24h and 24h) but is not enforced.
ASSUME BansAssumption ==
    /\ Keys # {} /\ Accounts \cap IPs = {} /\ IsFiniteSet(Accounts) /\ IsFiniteSet(Reqs)
    /\ {Threshold, Levels, Window, Forget, DeletionCount} \subseteq Nat \ {0}
    /\ {BanWindow, Lag, MaxTime} \subseteq Nat
    /\ Steps \in [1 .. Levels -> Nat \ {0}]
    /\ \A l \in 1 .. Levels : Steps[l] <= Forget
    /\ Faults \in BOOLEAN

VARIABLES
    now,            \* the clock
    accounts,       \* rows of users
    noted,          \* keys with a row in ip_bans
    row,            \* its columns
    block,          \* account_blocks.until, 0 without a row
    strikes,        \* account_bans: how many rows for an account and a second
    req,            \* requests in flight
    bans            \* history: <<time, level>> of every ban created for a key

vars == <<now, accounts, noted, row, block, strikes, req, bans>>

ReqPC == {"idle", "handle", "note", "block", "cleanup", "strike", "delete"}

Row        == [violations : Nat, windowStart : Nat, until : Nat, updatedAt : Nat, banCount : Nat]
NoRow      == [violations |-> 0, windowStart |-> 0, until |-> 0, updatedAt |-> 0, banCount |-> 0]
ReqRecord  == [pc : ReqPC, key : Keys, level : 0 .. Levels, until : Nat, at : Nat]
IdleReq    == [pc |-> "idle", key |-> CHOOSE k \in Keys : TRUE, level |-> 0, until |-> 0, at |-> 0]

DataTypes ==
    /\ now \in Times
    /\ accounts \subseteq Accounts
    /\ noted \subseteq Keys
    /\ row \in [Keys -> Row]
    /\ block \in [Accounts -> Nat]
    /\ strikes \in [Accounts -> [Times -> Nat]]
    /\ bans \in [Keys -> SUBSET (Nat \X (1 .. Levels))]

\* What a request may carry at each stage of the enforcer.
StageOK(q) ==
    /\ q.pc \in {"block", "cleanup", "strike", "delete"} => q.key \in Accounts /\ q.level > 0
    /\ q.pc \in {"strike", "delete"} => q.level = Levels

\* Types; only accounts get past the count of violations, and only the highest
\* level gets to the strikes.
TypeOK ==
    /\ DataTypes
    /\ req \in [Reqs -> ReqRecord]
    /\ \A r \in Reqs : StageOK(req[r])

NoStrikes == [t \in Times |-> 0]

Init ==
    /\ now = 0
    /\ accounts = Accounts
    /\ noted = {}
    /\ row = [k \in Keys |-> NoRow]
    /\ block = [u \in Accounts |-> 0]
    /\ strikes = [u \in Accounts |-> NoStrikes]
    /\ req = [r \in Reqs |-> IdleReq]
    /\ bans = [k \in Keys |-> {}]

Done(r)     == req' = [req EXCEPT ![r] = IdleReq]
Goto(r, pc) == req' = [req EXCEPT ![r].pc = pc]

-----------------------------------------------------------------------------
(* abuseGuard: an account is checked against account_blocks (an expired    *)
(* row is deleted), an anonymous request against the ban of its IP.  When  *)
(* the check itself fails the request is let through.                      *)

Banned(k) == k \in noted /\ row[k].until > now

Guard(r, k) ==
    /\ req[r].pc = "idle"
    /\ \/ k \in accounts /\ (block[k] <= now \/ Faults)
       \/ k \in IPs /\ (~Banned(k) \/ Faults)
    /\ req' = [req EXCEPT ![r] = [IdleReq EXCEPT !.pc = "handle", !.key = k, !.at = now]]
    /\ block' = [u \in Accounts |-> IF u = k /\ block[u] <= now THEN 0 ELSE block[u]]
    /\ UNCHANGED <<now, accounts, noted, row, strikes, bans>>

\* 429 for a blocked account or a banned address: the guard returns before it
\* notes a violation.  The token of a deleted account authenticates nobody, so
\* whatever its requests are answered no violation is counted for them.
Refuse(k) ==
    /\ \/ k \in accounts /\ block[k] > now
       \/ k \in Accounts \ accounts
       \/ k \in IPs /\ Banned(k)
    /\ UNCHANGED vars

\* The handler answers, or some limit answers 429.
Handle(r) ==
    /\ req[r].pc = "handle"
    /\ Done(r) \/ req' = [req EXCEPT ![r].pc = "note", ![r].at = now]
    /\ UNCHANGED <<now, accounts, noted, row, block, strikes, bans>>

-----------------------------------------------------------------------------
(* Store.NoteViolation, one transaction.                                   *)

\* DELETE FROM ip_bans WHERE updated_at <= now - forget
ForgottenByWindow == {k \in noted : row[k].windowStart <= now - Forget}   \* mutant
Forgotten == {k \in noted : row[k].updatedAt <= now - Forget}

\* Violations counted before this one: none without a row or in a new window.
InWindow(k, known) == k \in known /\ now - row[k].windowStart <= Window

\* The columns after one more violation; banCount is kept in a row that was
\* not forgotten, whatever became of the window.
CountedEveryViolation(k, known) ==                                    \* mutant
    LET v == IF InWindow(k, known) THEN row[k].violations + 1 ELSE 1
        b == IF k \in known THEN row[k].banCount ELSE 0 IN
    [violations |-> v, windowStart |-> IF InWindow(k, known) THEN row[k].windowStart ELSE now,
     until |-> 0, updatedAt |-> now, banCount |-> b + 1]
Counted(k, known) ==
    LET v == IF InWindow(k, known) THEN row[k].violations + 1 ELSE 1
        b == IF k \in known THEN row[k].banCount ELSE 0 IN
    [violations |-> v, windowStart |-> IF InWindow(k, known) THEN row[k].windowStart ELSE now,
     until |-> 0, updatedAt |-> now, banCount |-> IF v >= Threshold THEN b + 1 ELSE b]

LevelOf(count) == IF count < Levels THEN count ELSE Levels

\* Violations while banned are ignored, and their transaction rolls back.  An
\* account that no longer exists is not counted either.
NoteViolation(r) ==
    LET k     == req[r].key
        known == noted \ Forgotten
        next  == Counted(k, known)
        level == LevelOf(next.banCount)
        until == now + Steps[level] IN
    /\ req[r].pc = "note"
    /\ \/ /\ (k \in known /\ row[k].until > now) \/ k \in Accounts \ accounts
          /\ Done(r)
          /\ UNCHANGED <<noted, row, bans>>
       \/ /\ ~(k \in known /\ row[k].until > now) /\ k \notin Accounts \ accounts
          /\ noted' = known \cup {k}
          /\ \/ /\ next.violations < Threshold
                /\ row' = [row EXCEPT ![k] = next]
                /\ Done(r)
                /\ UNCHANGED bans
             \/ /\ next.violations >= Threshold
                /\ row' = [row EXCEPT ![k] = [next EXCEPT !.until = until]]
                /\ bans' = [bans EXCEPT ![k] = @ \cup {<<now, level>>}]
                /\ IF k \in Accounts
                   THEN req' = [req EXCEPT ![r].pc = "block", ![r].level = level, ![r].until = until]
                   ELSE Done(r)
    /\ UNCHANGED <<now, accounts, block, strikes>>

-----------------------------------------------------------------------------
(* Enforcer: what a new ban of an account leads to.                        *)

\* Upsert: the last writer wins.  Rows refer to users, so a deleted account
\* makes this and RecordAccountBan fail.
SetAccountBlockFromNow(r) ==                                          \* mutant
    /\ req[r].pc = "block"
    /\ req[r].key \in accounts
    /\ block' = [block EXCEPT ![req[r].key] = now + Steps[req[r].level]]
    /\ Goto(r, "cleanup")
    /\ UNCHANGED <<now, accounts, noted, row, strikes, bans>>
SetAccountBlock(r) ==
    /\ req[r].pc = "block"
    /\ req[r].key \in accounts
    /\ block' = [block EXCEPT ![req[r].key] = req[r].until]
    /\ Goto(r, "cleanup")
    /\ UNCHANGED <<now, accounts, noted, row, strikes, bans>>

\* CleanupBannedUser removes memberships and messages (not modelled here) and
\* the participant from LiveKit; below the top level that is all.
CleanupBannedUserStrikesAll(r) ==                                     \* mutant
    /\ req[r].pc = "cleanup"
    /\ Goto(r, "strike")
    /\ UNCHANGED <<now, accounts, noted, row, block, strikes, bans>>
CleanupBannedUser(r) ==
    /\ req[r].pc = "cleanup"
    /\ IF req[r].level < Levels THEN Done(r) ELSE Goto(r, "strike")
    /\ UNCHANGED <<now, accounts, noted, row, block, strikes, bans>>

\* Enough strikes within the window to delete the account.
StrikesReachedEarly(n) == n + 1 >= DeletionCount                      \* mutant
StrikesReached(n) == n >= DeletionCount

\* RecordAccountBan: forget what is older than the window, add, count.
RecordAccountBan(r) ==
    LET u    == req[r].key
        kept == [a \in Accounts |-> [t \in Times |-> IF t < now - BanWindow THEN 0 ELSE strikes[a][t]]]
        next == [kept EXCEPT ![u][now] = @ + 1] IN
    /\ req[r].pc = "strike"
    /\ u \in accounts
    /\ strikes' = next
    /\ IF StrikesReached(MapThenSumSet(LAMBDA t : next[u][t], Times))
       THEN Goto(r, "delete") ELSE Done(r)
    /\ UNCHANGED <<now, accounts, noted, row, block, bans>>

\* DeleteUser; account_blocks and account_bans cascade, ip_bans does not.
DeleteUser(r) ==
    LET u == req[r].key IN
    /\ req[r].pc = "delete"
    /\ accounts' = accounts \ {u}
    /\ block' = [block EXCEPT ![u] = 0]
    /\ strikes' = [strikes EXCEPT ![u] = NoStrikes]
    /\ Done(r)
    /\ UNCHANGED <<now, noted, row, bans>>

\* An error ends the chain of calls where it stands; abuseGuard logs it.  A
\* violated foreign key is one, whatever else works.
Fail(r) ==
    /\ req[r].pc # "idle"
    /\ Faults \/ (req[r].pc \in {"block", "strike"} /\ req[r].key \notin accounts)
    /\ Done(r)
    /\ UNCHANGED <<now, accounts, noted, row, block, strikes, bans>>

Tick ==
    /\ now < MaxTime
    /\ \A r \in Reqs : req[r].pc \notin {"idle", "handle"} => now < req[r].at + Lag
    /\ now' = now + 1
    /\ UNCHANGED <<accounts, noted, row, block, strikes, req, bans>>

RequestStep(r) ==
    \/ \E k \in Keys : Guard(r, k)
    \/ Handle(r) \/ NoteViolation(r)
    \/ SetAccountBlock(r) \/ CleanupBannedUser(r) \/ RecordAccountBan(r) \/ DeleteUser(r)
    \/ Fail(r)

Next ==
    \/ \E r \in Reqs : RequestStep(r)
    \/ \E k \in Keys : Refuse(k)
    \/ Tick

Spec == Init /\ [][Next]_vars

-----------------------------------------------------------------------------
(* Properties.                                                             *)

\* What one step may do to the ban of a key.
BanStep == \A k \in Keys : Banned(k) /\ row[k].until > now' =>
                             k \in noted' /\ row'[k].until = row[k].until

\* A ban in force is neither lifted, shortened nor prolonged before its time:
\* not by violations that come in meanwhile, and not by the transaction of
\* another key, which deletes every row it finds forgotten.
BanStands == [][BanStep]_vars

\* The ladder is climbed one step at a time: a ban of level l > 1 follows an
\* earlier ban of the same key at level l - 1 or more.
LadderClimbed ==
    \A k \in Keys : \A b \in bans[k] :
        b[2] > 1 => \E c \in bans[k] : c[1] < b[1] /\ c[2] >= b[2] - 1

TopBans(u) == {b \in bans[u] : b[2] = Levels}

\* An account is deleted only after DeletionCount bans of the highest level,
\* each of them counted once although several requests saw the account at its
\* limit.
DeletedAfterTopBans ==
    \A u \in Accounts \ accounts : Cardinality(TopBans(u)) >= DeletionCount

\* An account is refused only for a ban, and for no longer than that ban: the
\* block is stored later than the ban, by a request that may be slow, and the
\* last writer wins.
BlockComesFromBan ==
    \A u \in Accounts : block[u] > now =>
        \E b \in bans[u] : b[1] <= now /\ block[u] = b[1] + Steps[b[2]]

=============================================================================
