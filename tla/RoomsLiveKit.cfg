CONSTANTS
    alice = alice
    bob = bob
    Users = {alice}
    Codes = {"room"}
    Reqs = {1}
    Ops = {"create", "join", "leave", "delete"}
    Clients = {alice}
    Cleaners = {"regular"}
    MaxMembers = 1
    RoomTTL = 2
    TokenTTL = 2
    EmptyGrace = 1
    InactiveTTL = 2
    Lag = 1
    MaxTime = 3
    MaxRestarts = 1
SPECIFICATION FairSpec
INVARIANTS TypeOK TokenWithinRoom
PROPERTIES NoGhostAfterExpiry ExpiredRoomsGo
