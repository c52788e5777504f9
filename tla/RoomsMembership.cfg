CONSTANTS
    alice = alice
    bob = bob
    Users = {alice, bob}
    Codes = {"room"}
    Reqs = {1, 2}
    Ops = {"create", "join", "leave", "ban", "account"}
    Clients = {}
    Cleaners = {"emergency"}
    MaxMembers = 1
    RoomTTL = 1
    TokenTTL = 0
    EmptyGrace = 1
    InactiveTTL = 1
    Lag = 1
    MaxTime = 2
    MaxRestarts = 0
SPECIFICATION Spec
INVARIANTS EmptyMarkerSound CapacityRespected NoDanglingAccount
PROPERTIES OccupiedRoomSurvives
