SPECIFICATION Spec
CONSTANTS
    Cases <- MCSpeltTwice
    Documents <- MCDocuments
    Contents <- MCContents
    Picks <- MCPicks
    Branches <- MCBranches
    Owner = "me"
    MaxExtends = 2
    Semver <- MCSemver
    Spelling <- MCSpelling
    RenovateSpelling <- MCRenovateSpelling
    MaxDuration = 153722867
    Now = 1000
    Lower <- MCLower
    Letters <- MCLetters
    ActionRef <- MCActionRef
    Expression <- MCExpression
PROPERTIES
    SameReport
CHECK_DEADLOCK FALSE
