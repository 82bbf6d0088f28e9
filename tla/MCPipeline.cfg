\* One epoch on either of two forks, whose header and bundle may be mixed.
SPECIFICATION LiveSpec
CONSTANTS
    Target = "moon"
    Version = {"a", "b"}
    MaxEpoch = 0
    Leaves <- OneExport
    MaxForks = 0
    LinkProfile <- OpenLink
    AckPoll = 1
    Horizon = 1
    MaxCount = 3
    MaxRestarts = 1
    MaxGarbled = 0
    MaxPool = 2
    MaxCopies = 1
INVARIANT AckMeansApplied
PROPERTY ImplementsRelay
 
