CONSTANTS
    owner = owner
    ann = ann
    ben = ben
    Users = {owner, ann, ben}
    Owners = {owner}
    Groups = {"g"}
    Public = {"g"}
    VoiceRooms = {"v"}
    IPs = {"ip"}
    Reqs = {1, 2}
    Workloads <- MCWorkloads
    MaxUserGroups = 1
    MaxVoiceRooms = 1
    MinAttackers = 2
    JoinWindow = 1
    Levels = 2
    Durations <- MCDurations
    InactiveAfter = 1
    DeleteGrace = 1
    BatchSize = 1
    Interval = 1
    DryRun = FALSE
    Lag = 1
    None = None
SPECIFICATION FairSpec
INVARIANTS TypeOK OwnerStays
PROPERTIES IsolationHolds ForcedOutOfVoice OnlyQuietGroupsGo QuietGroupsDeleted
