CONSTANTS
    None = None
    UnsafeDirectories = {".git"}
    UnsafeFilenames = {".env"}
    MaxDepth = 3
    CredentialShaped = {"sk-live"}
    HostShaped = {"home"}
    CredentialStems = {"sk"}
    SemVer = {"1.0.0", "2.0.0", "3.0.0"}
    LongNames = {}
    Sources <- MCSources
    HardeningPolicies <- MCHardeningPolicies
    Requests <- MCRequests
    Targets = {"user", "project"}
    Archives <- MCArchives
    ArchivePolicies <- MCArchivePolicies
    MaxEntries = 2
    PluginNames = {"plugin", "other"}
    SkillNames = {"one", "two"}
    MaxSkills = 2
    MaxInstalls = 2
    Releases <- MCReleases
    HostTargets = {"user"}
    Callers = {1, 2}
    Slots = 1
    MaxRewrites = 1
    Trees <- MCTrees
    PluginCalls <- MCPluginCalls
    Formats <- MCFormats
    MaxScreenshots = 1
    MaxImageBytes = 1
    MinIcon = 2
    MaxRaster = 3
    Skills <- MCSkills
    Strangers <- MCStrangers
    Orders <- MCOrders
    SkillName = "one"
    Junk <- MCJunk
    CaptureFiles = 4
    CaptureResources = 7
    CaptureDepth = 4
    MaxEdits = 2
    Indicators <- MCIndicators
    MaxAge = 1
    LongestAge = 2
    MaxTime = 3
    Plugins <- MCPlugins
    Assurances <- MCAssurances
    Policies <- MCPolicies
    MaxChanges = 2
SPECIFICATION MCSpec
INVARIANTS LockEarned ArchiveFaithful EvidenceTraced SlotsKept ClearedAsCaptured PreparedFaithful ContractsHold
PROPERTIES AdoptionSettles
