\* Two pages, either of which may hang; the intervals of the default
\* configuration; one crash.
SPECIFICATION FairSpec
CONSTANTS
    Monitors <- TwoPages
    Pages = {"AXS", "CN"}
    BaseInterval = 5
    MaxFaults = 1
INVARIANT TypeOK
PROPERTY KilledOnlyIfTwiceSlow
PROPERTY RunsComplete
