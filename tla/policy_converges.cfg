\* Overlapping handlers, roaming, disconnects and failing writes and wg-quick.
CONSTANTS
    own = own
    other = other
    Exits <- Sites
    HomeSite = own
    None = None
    Local = Local
    Empty = Empty
    Torn = Torn
    Starts <- TwoStarts
    Env = {"overlap", "disconnect", "wgFail", "roam", "remove"}
    MaxMoves = 1
    MaxCommands = 1
SPECIFICATION FairSpec
INVARIANTS TypeOK
PROPERTIES TunnelConverges StatusConverges
