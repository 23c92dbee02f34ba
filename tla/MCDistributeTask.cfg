SPECIFICATION MCSpec
CONSTANTS
    h1 = h1
    h2 = h2
    Host <- TwoHosts
    Scenarios <- MCScenarios
    MaxPid = 5
INVARIANTS
    FilesHonest
    ProcessesTracked
PROPERTIES
    NoWorkLost
    Finishes
