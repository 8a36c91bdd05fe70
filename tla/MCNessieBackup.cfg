CONSTANTS
    Scripts = {timer, hand}
    Keep = 2
    MaxIds = 4
    MaxFaults = 2
SPECIFICATION FairSpec
CHECK_DEADLOCK FALSE
PROPERTIES
    NewestStands
    NessieReturns
