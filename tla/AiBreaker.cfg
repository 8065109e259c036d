\* Two goroutines, one of which may succeed or fail while the other is being
\* told that the client is disabled; those behaviours in which they do not
\* meet are what the breaker is meant to do.
SPECIFICATION FairSpec
CONSTANTS
    Callers = {c1, c2}
    FailureLimit = 2
    CooldownMax = 2
    MaxStreak = 2
    MaxRetries = 1
    Replies = {"answer", "soft", "quota", "refused"}
INVARIANT TypeOK
INVARIANT HardMeansOff
INVARIANT DisabledMeansAlerted
INVARIANT OneAlertUntilRecovery
PROPERTY QuietWhileCooling
PROPERTY OutageEnds
