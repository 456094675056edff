SPECIFICATION Spec
CONSTANTS
    MaxFaults = 3
    MaxGenerations = 3
    Builders = {builder1, builder2}
    OperationIds = {1, 2}
    PollLimit = 2
    MaxGeneration = 2
    MaxRequests = 5
    Callers = {caller1, caller2}
    MaxCalls = 2
    MaxFailures = 1
    StartRetries = 2
    Profiles = {"p", "q"}
    Existing = {"p"}
    Kinds = {1}
    ProfileTasks = {task1, task2}
    MaxCrashes = 1
    MaxSwitches = 1
    NodeGroups = {"g"}
    Nodes = {node1, node2}
    MaxActivations = 2
    MaxNodeEvents = 1
    UserKeys = {key1, key2}
    Functions = {"f", "g"}
    MaxEvents = 3
    Savers = {saver1, saver2}
    Quitters = {"q1"}
    Ports = {1, 2}
    MaxEdits = 2
    AppUpdatesEnabled = TRUE
    Releases <- RunReleases
    First <- RunFirst
    MaxKills = 2
    MinInterval = 2
    ArchivesKept = 1
    MaxTime = 3
    MaxSaves = 2
    builder1 = builder1
    builder2 = builder2
    caller1 = caller1
    caller2 = caller2
    task1 = task1
    task2 = task2
    node1 = node1
    node2 = node2
    key1 = key1
    key2 = key2
    saver1 = saver1
    saver2 = saver2
SYMMETRY RunSymmetry
INVARIANTS
    LeasesAreNeverLost
    RepliesAreTrue
    LaunchIsProven
    LabsAreTrue
    CoresAreAccountedFor
    ListedIsStored
    ConfigIsSound
    
PROPERTIES
    ChoicesAreKept
    InstallsWhatWasOffered
    BackupsAreSound
CHECK_DEADLOCK FALSE
