SPECIFICATION FirstSpec
CONSTANTS
    Tasks <- TaskNames
    Dep <- DepTable
    Req <- ReqTable
    Param <- ParamTable
    Resume <- ResumeTable
    Dist <- DistTable
    MarkLast <- DataFirst
    Root = "init"
    Target = "sqrt"
    Numbers <- TwoNumbers
    Settings <- MCSettings
    Answers = {"y", "N"}
    Windows = {"files"}
    MaxKill = 1
    MaxChange = 2

    
PROPERTIES
    NothingThrownAway
    
