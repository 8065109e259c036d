\* One event sent as a photo, two chats, a second monitor that finds nothing: all
\* that can go wrong while one broadcast goes through its attempts, twice in a
\* behaviour.
SPECIFICATION Spec
CONSTANTS
    Chats = {c1, c2}
    Events = {steam}
    WithImage = {steam}
    Announcing = {steam}
    NumMonitors = 2
    MonitorOf <- MCMonitorOf
    Poll = poll
    Checkers = {check}
    Free = free
    NoEvent = none
    MaxAttempts = 2
    MaxFaults = 2
SYMMETRY ChatSymmetry
INVARIANT OneRunAtATime
INVARIANT NotifiedMeansReceived
INVARIANT RepeatedOnlyIfExcused
PROPERTY SilentOnceNotified
INVARIANT Inv
PROPERTY Implements
