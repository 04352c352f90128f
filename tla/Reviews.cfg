CONSTANTS
    None = None
    Cancelled = Cancelled
    Raised = Raised
    Unreadable = Unreadable
    ReferencePaths = {"references/a.md", "references/b.md"}
    Content <- MCContent
    Packages <- MCPackages
    Assessments <- MCAssessments
    Reviewers = {"reviewer", "other"}
    MaxEdits = 2
    MaxCancels = 1
    Scale = 3
    Samples = 1
    Calls <- MCCalls
    Baselines <- MCBaselines
    Subjects <- MCSubjects
    Root = "root"
    Directories <- MCDirectories
    Files <- MCFiles
    Specials = {"socket"}
    Names = {"a", "b"}
    UnsafeNames = {}
    Bytes = {1, 2}
    Missing = Missing
    MaxFiles = 3
    MaxResources = 4
    MaxDepth = 1
    MaxChanges = 2
SPECIFICATION MCSpec
INVARIANTS ChecksEarned CaptureIsSnapshot 
PROPERTIES QualityEnds
