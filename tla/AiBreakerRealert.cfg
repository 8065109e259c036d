\* One goroutine: an outage after a recovery.
SPECIFICATION Spec
CONSTANTS
    Callers = {c1}
    FailureLimit = 5
    CooldownMax = 12
    MaxStreak = 5
    MaxRetries = 1
    Replies = {"answer", "soft"}
INVARIANT AlertsAgainAfterRecovery
