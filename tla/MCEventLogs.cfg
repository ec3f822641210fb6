CONSTANTS
    Programs = {agentbond, other}
    AgentBond = agentbond
    Label = Label
    MaxCalls = 3
    MaxStackDepth = 4
    LogLimit = 24
    FrameLens = {2, 3}
    EventLen = 4
    TextLens = {1, 5}
    MaxEvents = 3
SPECIFICATION Spec
INVARIANTS Attributed NothingMissed
CHECK_DEADLOCK FALSE
