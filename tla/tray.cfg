\* One tray, one site, a click, a change of the exits and two faults.
CONSTANTS
    t1 = t1  s1 = s1
    Trays = {t1}
    Sites = {s1}
    None = None
    SocketBuffer = 1
    MaxClicks = 1
    MaxOffers = 1
    MaxFaults = 2
SPECIFICATION FairSpec
INVARIANTS IntentKept
PROPERTIES TrayConverges
CHECK_DEADLOCK FALSE
