SPECIFICATION Spec
CONSTANTS
    Schedule <- MCSchedule
    MaxAttempts = 0
    MaxDelay = 5
    Message = {m1}
    NoMessage = NoMessage
    Content = {c1}
    NoContent = NoContent
    Session = {s1, s2}
    HandlerErrors = {"decode", "internal"}
    Lease = 1
    ReceiptRetention = 1
    BatchSize = 1
    MaxTime = 3
    MaxClaims = 2
    MaxGen = 2
PROPERTY OnlyLatestClaimWrites
