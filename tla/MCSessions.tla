----------------------------- MODULE MCSessions -----------------------------
(* Sessions for the model checker: the workloads keep operations that have *)
(* nothing to do with each other apart.                                    *)
EXTENDS Sessions

MCWorkloads == {
    {"login", "logout", "revoke"},
    {"login", "password", "review"},
    {"account", "login", "cleanup"}}
=============================================================================
