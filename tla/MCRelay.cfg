\* Two packages on links with and without blackouts; the importer refuses a
\* and may lose b, one receipt cannot be read, and the relay restarts once.
SPECIFICATION LiveSpec
CONSTANTS
    a = a
    b = b
    Package = {a, b}
    Link <- TwoLinks
    Horizon = 4
    AckPoll = 1
    Refused = {a}
    MaxCount = 5
    MaxCrashes = 1
    MaxGarbled = 1
    Forgettable = {b}
INVARIANT PostRespectsLink
PROPERTY AcceptedSettles
INVARIANT RecordIsTrue
PROPERTY SettledIsFinal
