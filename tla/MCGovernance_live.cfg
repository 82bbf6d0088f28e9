\* One proposal among three domains, one of which runs epochs ahead.
SPECIFICATION LiveSpec
CONSTANTS
    earth = earth
    moon = moon
    mars = mars
    v1 = v1
    v2 = v2
    Domain = {earth, moon, mars}
    Voter = {v1}
    Snapshots <- EqualPowers
    Version = {2}
    GenesisVersion = 1
    MaxProposal <- OneProposal
    MaxEpoch = 9
    IdleEpoch <- MarsAhead
INVARIANT ImportedWasApproved
INVARIANT ScheduledByEveryTarget
INVARIANT ActivatedOnTime
PROPERTY EveryApprovedActivates
CHECK_DEADLOCK FALSE
