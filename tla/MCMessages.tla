----------------------------- MODULE MCMessages -----------------------------
(* Messages for the model checker: every workload is about one hazard.     *)
EXTENDS Messages, TLC

CONSTANTS owner, ann, ben, k, x, y, m1, m2, m3

\* No definition tells one identifier of a message from another.
MessageSymmetry == Permutations(Msgs)

MCCooldowns == <<1, 2>>
MCLike      == {x, y} \X {x, y}

Load(ops, accounts, ks, texts, ids, interval, lag, maxTime) ==
    [ops |-> ops, users |-> accounts, keys |-> ks, bodies |-> texts, msgs |-> ids,
     interval |-> interval, lag |-> lag, maxTime |-> maxTime]

MCWorkloads == {
    \* the same request again and again, with a restart in between
    Load({"send", "restart"}, {ann, ben}, {k}, {NoText}, 3, 0, 1, 2),
    \* repeated and limited texts, warnings and cooldowns, and retries of them
    Load({"send", "spam"}, {ann}, {NoKey}, {x}, 2, 0, 1, 2),
    Load({"send", "spam"}, {ann}, {k}, {x}, 2, 0, 1, 3),
    \* the interval between messages: 900 ms, and 1500 ms with calls that are late
    Load({"send"}, {ann}, {NoKey}, {x, y}, 2, 9, 0, 4),
    Load({"send"}, {ann}, {NoKey}, {x}, 2, 15, 1, 4),
    \* three accounts flood the group with one text
    Load({"send"}, {owner, ann, ben}, {NoKey}, {x}, 2, 0, 0, 1),
    \* messages, receipts, cleanup and a ban
    Load({"send", "read", "expire", "ban"}, {owner, ann}, {NoKey}, {NoText}, 2, 0, 1, 2),
    \* event streams while members come and go
    Load({"send", "delete", "members", "stream"}, {owner, ann}, {NoKey}, {NoText}, 2, 0, 0, 0)}
=============================================================================
