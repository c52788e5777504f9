CONSTANTS
    alice = alice
    bob = bob
    f1 = f1
    f2 = f2
    f3 = f3
    p1 = p1
    p2 = p2
    Users = {alice, bob}
    Files = {f1, f2, f3}
    Uploads = {p1, p2}
    Kinds = {"archive", "image", "video", "audio", "file"}
    Schedulers = {}
    MaxArchive = 1
    MaxOutputMedia = 1
    MaxInputMedia = 2
    MaxFiles = 1
    UserQuota = 2
    NewQuota = 1
    TotalQuota = 2
    NewGrace = 1
    Retention = 1
    DeleteGrace = 1
    MaxTime = 1
    MaxRestarts = 0
SPECIFICATION Spec
INVARIANTS TypeOK QuotaOverrunBounded ReservationsAddUp
SYMMETRY Symmetry
