SPECIFICATION WebSpec
CHECK_DEADLOCK FALSE
CONSTANTS
    None = None
    Pages = {"list", "log", "upstream", "tables", "switches", "system", "appearance", "overview", "shell"}
    MaxTasks = 3
    MaxCalls = 3
    MaxFaults = 1
    FixedLists = {"l1"}
    GroupLists = {"g1"}
    FirstList = "l1"
    Slots = {1}
    UpstreamGroups = {"nocnfake"}
    FakeIPGroup = "nocnfake"
    MaxUpstreams = 2
    Ports = {0, 53, 65535, 65536}
    Clients = {"c1"}
    Aliases = {"a1"}
    Traces = {"t1"}
    Searches = {"a1"}
    MaxPages = 2
    CacheTags = {"k1"}
    ModeCaches = {"k2"}
    GroupCaches = {"k3"}
    LearnedLists = {"m1"}
    Queries = {"q1"}
    ViewPages = 2
    RuleFiles = {"r1"}
    Minutes = {0}
    BuiltInTypes = {"b1"}
    GroupTypes = {"s1"}
    RuleNames = {"n1", "n2"}
    ReadyAttempts = 1
    OtherSwitches = {}
    GenerationKeys = {"no_v4"}
    Replacements = {"o1"}
    Capacities = {0, 400000, 400001}
    Colors = {"red"}
    Default = "plain"
    Urls = {"u1"}
    RankKeys = {"d1", "d2"}
    RealIPHides = "nocnfake"
    LogSample = 2
    MaxQueries = 3
    Intervals = {0, 30}
    BuiltInGroups <- MCBuiltInGroups
    SlotGroups <- MCSlotGroups
INVARIANTS IdleMeansReady OneAtATime ListsKeepApart SelectionExists DetailShowsItsRows RefreshAsSet
PROPERTIES NoMeansNo
