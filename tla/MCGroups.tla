------------------------------ MODULE MCGroups ------------------------------
(* Values for the model checker: the isolation ladder, and the workloads   *)
(* that keep the product of unrelated operations apart.                    *)
EXTENDS Groups

CONSTANTS owner, ann, ben

MCDurations == <<1, 2>>

Load(ops, accounts, maxTime) ==
    [ops |-> ops, users |-> accounts, protected |-> {}, maxTime |-> maxTime]

MCWorkloads == {
    \* two newcomers attack a group
    Load({"create", "join"}, {owner, ann, ben}, 1),
    \* the ladder of isolations
    Load({"create", "join", "attack"}, {owner, ann}, 2),
    \* accounts that grow old and a group that is deleted during an attack
    Load({"create", "join", "attack", "age", "delete"}, {owner, ann}, 1),
    \* late messages, scheduled deletion and the emergency
    Load({"create", "send", "emergency"}, {owner}, 5),
    \* the same group protected
    [Load({"create", "send", "emergency"}, {owner}, 4) EXCEPT !.protected = Groups],
    \* passes that fail between their two transactions
    Load({"create", "send", "fault"}, {owner}, 4),
    \* a join revives a group that is scheduled for deletion
    Load({"create", "join"}, {owner, ann}, 4),
    \* voice rooms while members come and go
    Load({"create", "join", "leave", "remove", "voice"}, {owner, ann}, 1),
    \* an attacker in a voice room is taken out, as far as the database lets it
    Load({"create", "join", "attack", "voice"}, {owner, ann}, 0),
    Load({"create", "join", "attack", "voice", "fault"}, {owner, ann}, 0),
    \* everything the group refers to disappears
    Load({"create", "join", "voice", "delete", "account"}, {owner, ann}, 1)}
=============================================================================
