\* Two domains propose to each other, with two voters each.
SPECIFICATION Spec
CONSTANTS
    earth = earth
    moon = moon
    mars = mars
    v1 = v1
    v2 = v2
    Domain = {earth, moon}
    Voter = {v1, v2}
    Snapshots <- EqualPowers
    Version = {2, 3}
    GenesisVersion = 1
    MaxProposal <- OneEach
    MaxEpoch = 5
    IdleEpoch <- NoneAhead
INVARIANT ApprovedByMajority
INVARIANT ScheduledIsQueued
PROPERTY ActivatedOnce
CHECK_DEADLOCK FALSE
