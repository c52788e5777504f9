CONSTANTS
    alice = alice
    bob = bob
    f1 = f1
    f2 = f2
    f3 = f3
    p1 = p1
    p2 = p2
    Users = {alice}
    Files = {f1}
    Uploads = {p1}
    Kinds = {"image"}
    Schedulers = {alice}
    MaxArchive = 1
    MaxOutputMedia = 1
    MaxInputMedia = 4
    MaxFiles = 2
    UserQuota = 4
    NewQuota = 2
    TotalQuota = 5
    NewGrace = 0
    Retention = 2
    DeleteGrace = 1
    MaxTime = 1
    MaxRestarts = 0
SPECIFICATION FairSpec
PROPERTIES DeleteAllCompletes
