CONSTANTS
    Region = {r1, r2}
    Agent = {s1}
    Session = {s1}
    Transit = {t1}
    AgentOf <- MCAgentOf
    Fresh = Fresh
    Ended = Ended
    ClocksAgree = TRUE
    NoPlan = NoPlan
    None = None
    MaxFaults = 0
SPECIFICATION Spec
SYMMETRY Symmetry
PROPERTY EmbodiedWithAuthority
CHECK_DEADLOCK FALSE
