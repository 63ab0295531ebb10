SPECIFICATION PurgeSpec
CONSTANTS
    Requests = {r1, r2}
    Emails = {"root", "bea", "leo", "kim"}
    Root = "root"
    Appointed = "bea"
    Keys = {k1}
    Tokens = {1, 2, 3}
    MaxAttempts = 2
    Replicas = {j1}
    BatchSize = 2
    BatchAttempts = 2
    ForeignRecords = 1
    MaxFailures = 2
INVARIANTS OneAppointmentPerKey ActivationIsWhole
PROPERTIES ActivationTokensAreOneTime KeptForRetention OldRecordsGo RunEnds
CHECK_DEADLOCK FALSE
