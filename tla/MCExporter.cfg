\* Two versions of each epoch, one change of fork, one stop, lost requests and
\* lost answers.
SPECIFICATION LiveSpec
CONSTANTS
    Domain = {"moon", "mars"}
    Version = {"a", "b"}
    MaxEpoch = 1
    Leaves <- TwoForks
    MaxReorgs = 1
    MaxStops = 1
    Local = "earth"
INVARIANT IndexIsTrue
INVARIANT EpochsWhole
PROPERTY HandoverSpec
 
PROPERTY SubmittedStays
 
