\* One command line, the directory and the tray edit agent.yml, and one fault.
CONSTANTS
    nginx = nginx
    Names = {nginx}
    Existing = {nginx}
    c1 = c1
    CLIs = {c1}
    readLoop = readLoop  trayConn = trayConn
    None = None
    StartDocs <- Installed
    Faults = {"drop", "stop", "die"}
    MaxEdits = 2
    MaxFaults = 1
    MaxQueue = 2
SPECIFICATION FairSpec
INVARIANTS EditsKept ConfigHeld
PROPERTIES ChildrenConverge
CHECK_DEADLOCK FALSE
