\* A re-enroll is asked for while the daemon is receiving its enrollment.
CONSTANTS
    T1 = T1  T2 = T2  T3 = T3  T4 = T4  T5 = T5
    Tokens = {T1, T2, T3, T4}
    None = None
    JoinKey = JoinKey
    Env = {"overlap"}
    Telemetry = TRUE
    StartConfigs <- WithCredential
    MaxMoves = 3
SPECIFICATION Spec
PROPERTIES NeverStranded
CHECK_DEADLOCK FALSE
