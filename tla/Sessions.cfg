CONSTANTS
    Users = {"ann"}
    Tokens = {"t1", "t2"}
    Reqs = {1, 2}
    SessionTTL = 3
    IdleTTL = 2
    ManageAge = 1
    InactiveTTL = 1
    MaxPasswords = 2
    Workloads <- MCWorkloads
    Lag = 1
    MaxTime = 3
    None = None
SPECIFICATION FairSpec
INVARIANTS TypeOK
PROPERTIES LifeSpec TTLsHold OnlyOldSessionsManage UsedAccountsStay ExpiredSessionsGo
