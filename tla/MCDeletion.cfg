CONSTANTS
    Tenants = {alice, bob}
    Leavers = {alice}
    MaxParts = 1
    MaxFaults = 2
SPECIFICATION FairSpec
CHECK_DEADLOCK FALSE
INVARIANTS
    WhatIsTakenStaysGone
    CleanMeansRead
PROPERTIES
    DeletionFinishes
