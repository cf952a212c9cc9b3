CONSTANTS
    maven = maven
    eclipse = eclipse
    Folders <- TwoFolders
    Systems <- TwoSystems
    Known <- OneKnown
    FirstBuildFiles <- SomeBuildFiles
    MaxEdits <- AppEdits
SPECIFICATION FairSpec
CHECK_DEADLOCK FALSE
INVARIANTS
    LatestUnlessOvertaken
PROPERTIES
    EditsReachBuildTool
