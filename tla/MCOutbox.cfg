SPECIFICATION FairSpec
CONSTANTS
    Schedule <- MCSchedule
    MaxAttempts = 2
    MaxDelay = 5
    Statuses = {200, 404, 410, 503}
    RetryAfters <- MCRetryAfters
    SendErrors = {"invalid_url", "internal"}
    MaxRetryAfter = 2
    Delivery = {d1}
    NoDelivery = NoDelivery
    Session = {s1, s2}
    ClockSkew = 1
    Lease = 2
    DeliveredRetention = 1
    FailedRetention = 0
    BatchSize = 1
    MaxTime = 3
    MaxClaims = 3
INVARIANTS
    TypeOK
    AttemptLedger
    OutcomeAgreement
    CompletionNeverHalf
    RetryBounded
PROPERTIES
    HistoryImmutable
    StaleClaimIsRefused
    ImplementsQueue
    TransactionsEnd
