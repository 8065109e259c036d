\* One chat that has blocked the bot, no other fault: the other chat gets copies.
SPECIFICATION Spec
CONSTANTS
    Chats = {c1, c2}
    Events = {steam}
    WithImage = {}
    Announcing = {steam}
    NumMonitors = 1
    MonitorOf <- MCMonitorOf
    Poll = poll
    Checkers = {check}
    Free = free
    NoEvent = none
    MaxAttempts = 2
    MaxFaults = 0
INVARIANT OnlyOneTime
