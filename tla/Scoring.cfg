CONSTANTS
    None = None
    Absent = Absent
    MaxCancels = 2
    Nothing = Nothing
    Pairs = 2
    Budgets <- MCBudgets
    MaxTime = 3
    MaxEdits = 2
    MaxTicks = 3
    MaxReplacements = 2
    MaxAge = 1
    LongestAge = 2
    Cases = {"greet", "rules", "absent"}
    Modes = {"smoke", "release"}
    Private <- PrivateTexts
    Unusable <- UnusableTexts
    Texts <- Outputs
    Contents <- PackageContents
    Handed <- HostHands
    Submissions <- MCSubmissions
SPECIFICATION MCSpec
INVARIANTS ScoreEarned JudgeHandled CancellationFaithful ReceiptValid SuppliedEarned
PROPERTIES NothingAfterExpiry EditsNoticed RunsEnd
