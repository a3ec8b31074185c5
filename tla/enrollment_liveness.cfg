\* Loads of agent.yml race the commands that rewrite it, operators edit it, writes
\* fail, as a whole or half-way, and the upgrade may be refused.
CONSTANTS
    T1 = T1  T2 = T2  T3 = T3  T4 = T4  T5 = T5
    Tokens = {T1, T2, T3, T4}
    None = None
    JoinKey = JoinKey
    Env = {"overlap", "operatorToken", "halfPersist", "persistError", "rejectUpgrade"}
    Telemetry = TRUE
    StartConfigs <- WithCredential
    MaxMoves = 3
SPECIFICATION FairSpec
PROPERTIES CredentialPickedUp ConfigConverges
CHECK_DEADLOCK FALSE
