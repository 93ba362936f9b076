CONSTANTS
    t1 = t1
    t2 = t2
    t3 = t3
    NoTask = NoTask
    Tasks <- MCTasks
    Priorities <- MCPriorities
    MaxSeq = 3
SPECIFICATION FairSpec
INVARIANTS
    MutualExclusion
    NeverLost
    NoIdleWaiter
    IInv
PROPERTIES
    InOrder
    UrgentServed
    ImplementsAbstract
