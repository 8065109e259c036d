\* Liveness under the fairness of the scheduler, Go's mutex and the restart
\* policy, with two transient faults or restarts.
SPECIFICATION FairSpec
CONSTANTS
    Chats = {c1}
    Events = {steam}
    WithImage = {}
    Announcing = {}
    NumMonitors = 1
    MonitorOf <- MCMonitorOf
    Poll = poll
    Checkers = {check}
    Free = free
    NoEvent = none
    MaxAttempts = 2
    MaxFaults = 2
PROPERTY PollerGetsItsTurn
PROPERTY PublishedIsNotified
