CONSTANTS
    src = src
    gen = gen
    out = out
    view = view
    t1 = t1
    t2 = t2
    none = none
    Sources <- SomeSources
    Views <- OneView
    Texts <- TwoTexts
    ServerText = t1
    Absent = none
    Layouts <- GrowingLayouts
    FirstDisks <- AllOnDisk
    MaxActs = 3
SPECIFICATION FairSpec
CHECK_DEADLOCK FALSE
INVARIANTS
    TextIsOwners
    RootsMatchLayout
    ClosedFollowsDisk
PROPERTIES
    EventuallyCurrent
    ImplementsAnalysedText
