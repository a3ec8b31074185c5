\* Two local connections over two sessions, with fairness.
CONSTANTS
    c1 = c1  c2 = c2
    Clients = {c1, c2}
    UnixNano <- FineClock
    MaxSessions = 2
    MaxUp <- One
    MaxDown <- SecondTwice
    SocketBuffer = 1
SPECIFICATION FairSpec
INVARIANTS TypeOK NoStaleEntry
PROPERTIES PureBytePump NothingOwed
CHECK_DEADLOCK FALSE
