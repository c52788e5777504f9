CONSTANTS
    owner = owner
    ann = ann
    ben = ben
    k = k
    x = x
    y = y
    m1 = m1
    m2 = m2
    m3 = m3
    Users = {owner, ann, ben}
    Owner = owner
    Msgs = {m1, m2, m3}
    Bodies = {x, y}
    Like <- MCLike
    NoText = NoText
    Keys = {k}
    NoKey = NoKey
    Streams = {"s1"}
    Reqs = {1, 2}
    KeyTTL = 2
    Refill = 1
    Cooldowns <- MCCooldowns
    CooldownForget = 1
    Flood = 3
    FloodUsers = 2
    WarningLimit = 2
    WarningWindow = 2
    BucketTTL = 3
    Second = 10
    BanLimit = 1
    Retention = 1
    MinAge = 1
    ChannelSize = 1
    Workloads <- MCWorkloads
    None = None
SPECIFICATION Spec
INVARIANTS TypeOK PostedOnce ReadMeansSeen OnlyMembersHear
PROPERTIES CooldownHolds IsolationEarned OnlyOwnLosses IntervalKept
SYMMETRY MessageSymmetry
