SPECIFICATION Spec
CONSTANTS
    Line <- MCLine
    Author <- MCAuthor
    Tree <- MCTree
    Truncated = {6}
    Markdown <- MCMarkdown
    Yaml = {"ci.yml"}
    NixNames = {"flake.nix", "x.nix"}
    Marks <- MCMarks
    Manifests <- MCManifests
    Merged <- MCMerged
    Newer <- MCNewer
    Starts <- MCStarts
    StartClock = 10
    StartLists <- MCStartLists
    Recent = 2
    HistoryPage = 1
    RunsPage = 3
    JobsPage = 2
    ListPage = 2
    MaxPages = 2
    BlobsPerQuery = 2
    FilesMax = 6
    MaxJobs = 2
    MaxEvents = 2
INVARIANTS
    ListsWhole
    NothingPassedOver
    CompleteWait
PROPERTIES
    ReadEnds
CHECK_DEADLOCK FALSE
