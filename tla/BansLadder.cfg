CONSTANTS
    alice = alice
    ip = ip
    Accounts = {alice}
    IPs = {ip}
    Reqs = {1, 2}
    Threshold = 2
    Window = 2
    Levels = 2
    Steps <- TwoSteps
    Forget = 3
    BanWindow = 5
    DeletionCount = 2
    Faults = TRUE
    Lag = 1
    MaxTime = 4
SPECIFICATION Spec
INVARIANTS TypeOK LadderClimbed DeletedAfterTopBans BlockComesFromBan
PROPERTIES BanStands
