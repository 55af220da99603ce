\* Each service in a small instance of its own (MCPlatform).
CONSTANTS
    None = None
    w1 = w1
    w2 = w2
    w3 = w3
    a1 = a1
    a2 = a2
    s1 = s1
    i1 = i1
    i2 = i2
    i3 = i3
    i4 = i4
    r1 = r1
    r2 = r2
    n1 = n1
    n2 = n2
    Worker = {w1, w2}
    Workspace = {k1, k2}
    App = {a1}
    Owner = {u1, u2}
    Crowding = {u1}
    Name <- Names
    Slug <- Slugs
    SlugOf <- Slugify
    StoreApp = {a1, a2}
    StoreName = {x1}
    Default = Default
    Scoop = {s1}
    AppOf <- ScoopApps
    Cronjobs = {}
    StoreRequests = {"name", "refs", "readsFail"}
    Key = {"env", "kubeconfig"}
    Mounted = {"env", "kubeconfig"}
    MaxPatches = 2
    TTL = 2
    Timeout = 1
    MaxTime = 4
    MaxPats = 2
    Booting <- BootingThree
    Columned <- ColumnedTwo
    Recorded <- RecordedTwo
    Valued <- ValuedOne
    ColName = {"Key", "Value"}
    Type = {"string", "json"}
    Letter = {la, lb}
    Star = Star
    Absent = Absent
    MaxValue = 3
    MaxPattern = 4
    MaxItems = 9
    MaxListed = 3
    MaxLimit = 5
SPECIFICATION Spec
INVARIANTS TypesOK OneLivePerName SlugFollowsName Backed EnvResolves EnvWhole
    PodIsCurrent KeptIsAlive RotationReaches RowsRefer MatchesIsGlob PagesPartition
PROPERTIES NoKeyGoesBack FitsWhenStored PromiseKept ComesUp
CHECK_DEADLOCK FALSE
