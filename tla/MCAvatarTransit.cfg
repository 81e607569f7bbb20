CONSTANTS
    Region = {r1, r2}
    Agent = {s1}
    Session = {s1}
    Transit = {t1, t2}
    AgentOf <- MCAgentOf
    Fresh = Fresh
    Ended = Ended
    ClocksAgree = TRUE
    NoPlan = NoPlan
    None = None
    MaxFaults = 1
SPECIFICATION Spec
SYMMETRY Symmetry
INVARIANTS
    TypeOK
    StagedIsAccepted
PROPERTIES
    ActivatedWithCircuit
    
    ImplementsStore
CHECK_DEADLOCK FALSE
