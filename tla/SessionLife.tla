----------------------------- MODULE SessionLife -----------------------------
(***************************************************************************)
(* What sessions promise, without tables, clocks or requests in steps: a   *)
(* token is handed out once, to one account, works until it is closed, and *)
(* never again.  Every request that is served with it is let in at a       *)
(* moment when it works, and acts for its account.                         *)
(***************************************************************************)
EXTENDS Integers

CONSTANTS Users, Tokens, Reqs, None

VARIABLES
    phase,      \* of a token: "new", "open" or "closed"
    account,    \* whom an open token stands for, else None
    serving     \* the account a request is served for, else None

life == <<phase, account, serving>>

Init ==
    /\ phase = [t \in Tokens |-> "new"]
    /\ account = [t \in Tokens |-> None]
    /\ serving = [r \in Reqs |-> None]

\* Register and login hand out a new token.
Open(t, u) ==
    /\ phase[t] = "new"
    /\ phase' = [phase EXCEPT ![t] = "open"]
    /\ account' = [account EXCEPT ![t] = u]
    /\ UNCHANGED serving

\* Logout, revocation, expiry, or the end of an account; a request that was
\* let in before is served to its end, or ends with this step.
Close(T) ==
    /\ \A t \in T : phase[t] = "open"
    /\ phase' = [t \in Tokens |-> IF t \in T THEN "closed" ELSE phase[t]]
    /\ account' = [t \in Tokens |-> IF t \in T THEN None ELSE account[t]]
    /\ \/ UNCHANGED serving
       \/ \E r \in Reqs : serving' = [serving EXCEPT ![r] = None]

LetIn(r, t) ==
    /\ phase[t] = "open" /\ serving[r] = None
    /\ serving' = [serving EXCEPT ![r] = account[t]]
    /\ UNCHANGED <<phase, account>>

Finish(r) ==
    /\ serving' = [serving EXCEPT ![r] = None]
    /\ UNCHANGED <<phase, account>>

Next ==
    \/ \E t \in Tokens, u \in Users : Open(t, u)
    \/ \E T \in SUBSET Tokens : Close(T)
    \/ \E r \in Reqs : (\E t \in Tokens : LetIn(r, t)) \/ Finish(r)

Spec == Init /\ [][Next]_life
=============================================================================
