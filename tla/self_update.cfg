\* Two updates from either side, on either platform, and one fault.
CONSTANTS
    v1 = v1  v2 = v2
    Releases = {v1, v2}
    First = v1
    Junk = Junk
    Partial = Partial
    NoFile = NoFile
    MaxUpdates = 2
    MaxFaults = 1
SPECIFICATION FairUpdateSpec
INVARIANTS VerifiedOnly
PROPERTIES UpdateTakesEffect
CHECK_DEADLOCK FALSE
