SPECIFICATION FairSpec
CONSTANTS
    Runs = 2
    MaxCrashes = 0
    ForkMayFail = TRUE
PROPERTIES
    CreatorUnlinks
