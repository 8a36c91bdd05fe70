CONSTANTS
    alice = alice
    bob = bob
    Tenants = {alice, bob}
    Dates = {today}
    Runs = {timer}
    MaxCommits = 3
    MaxSeq = 1
    MaxFaults = 1
SPECIFICATION ValuationSpec
SYMMETRY TenantSymmetry
INVARIANTS
    RefExplainsRows
    StatusTells
