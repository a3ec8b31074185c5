\* Two addresses, one of which normal resolution yields as well.
CONSTANTS
    Addrs = {"lan1", "lan2"}
    None = None
    Dns = "lan2"
    UsesTLS = TRUE
    Env = {"link", "cert", "lookup", "write", "route", "crash", "configure"}
    MaxMoves = 5
SPECIFICATION FairSpec
INVARIANTS TypeOK BlockTracked DiscoveryInv
PROPERTIES NoHalfTeardown PathConverges SiteSensed
