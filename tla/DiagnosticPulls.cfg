CONSTANTS
    f1 = f1
    f2 = f2
    broken = broken
    moved = moved
    fixed = fixed
    gone = gone
    none = none
    Files <- TwoFiles
    Texts <- ThreeTexts
    Absent = gone
    NoId = none
    Report <- ReportOf
    Clean = "clean"
    LinesOf <- Lines
    MaxEdits = 2
    MaxPulls = 3
SPECIFICATION Spec
CHECK_DEADLOCK FALSE
INVARIANTS
    DocumentPullShows
    WorkspaceSeesReports
