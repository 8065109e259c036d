\* One failed broadcast, or one restart, after the answer of the model.
SPECIFICATION Spec
CONSTANTS
    Keyword = {vetoed}
    Mention = {hint}
    Chinese = {global}
    Signals = {hint, global}
    AdminOnly = {}
    MaxFaults = 1
INVARIANT NoSignalForgotten
