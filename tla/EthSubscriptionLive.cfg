CONSTANTS
    Addresses = {p}
    Updates = {}
    MaxCalls = 2
    MaxDrops = 2
SPECIFICATION FairSpec
PROPERTIES EverySettles KeepsWatching
CHECK_DEADLOCK FALSE
