\* One monitor, that of AXS or the Chinese one, two error texts,
\* adminRenotifyEvery as in the code; two restarts or lost messages.
SPECIFICATION FairSpec
CONSTANTS
    Monitors = {monitor}
    Texts = {challenge, unreachable}
    NoError = NoError
    RenotifyEvery = 10
    MaxFaults = 2
INVARIANT TypeOK
INVARIANT KnowsUnlessMissed
INVARIANT NeverSilentForLong
PROPERTY OutageIsReported
PROPERTY OneWayIsEnough
