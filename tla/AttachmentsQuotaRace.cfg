CONSTANTS
    alice = alice
    bob = bob
    f1 = f1
    f2 = f2
    f3 = f3
    p1 = p1
    p2 = p2
    Users = {alice}
    Files = {f1, f2, f3}
    Uploads = {p1, p2}
    Kinds = {"archive"}
    Schedulers = {}
    MaxArchive = 2
    MaxOutputMedia = 1
    MaxInputMedia = 4
    MaxFiles = 1
    UserQuota = 4
    NewQuota = 2
    TotalQuota = 5
    NewGrace = 0
    Retention = 2
    DeleteGrace = 1
    MaxTime = 0
    MaxRestarts = 0
SPECIFICATION Spec
INVARIANTS QuotaRespected
SYMMETRY FileSymmetry
