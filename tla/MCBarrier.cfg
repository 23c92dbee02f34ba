CONSTANTS
    t0 = t0
    t1 = t1
    t2 = t2
    Thread <- MCThread
    MaxRounds = 3
    Root <- MCRoot
    EventMod = 2
SPECIFICATION FairSpec
INVARIANTS
    Rendezvous
    BroadcastDelivers
    NoLostWakeup
    SerialAndTeardown
PROPERTIES
    AllRoundsComplete
    RefinesAbs
