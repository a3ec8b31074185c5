\* Serialised edits of agent.yml, everything else that can go wrong allowed.
CONSTANTS
    T1 = T1  T2 = T2  T3 = T3  T4 = T4  T5 = T5
    Tokens = {T1, T2, T3, T4, T5}
    None = None
    JoinKey = JoinKey
    Env = {"persistError", "reloadCommand", "rejectUpgrade"}
    Telemetry = TRUE
    StartConfigs <- AnyStart
    MaxMoves = 4
SPECIFICATION Spec
INVARIANTS TypeOK ContinuityProof EnrollmentInv
PROPERTIES NeverStranded
CHECK_DEADLOCK FALSE
