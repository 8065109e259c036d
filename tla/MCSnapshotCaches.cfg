\* Each of the three caches, with two readers and two origins.
SPECIFICATION FairSpec
CONSTANTS
    Kinds = {"yuan", "weather", "flights"}
    Origins <- TwoOrigins
    Ticker = ticker
    Readers = {r1, r2}
    NoSnapshot = none
INVARIANT TypeOK
INVARIANT NilOnlyIfMissed
INVARIANT OlderOnlyAtStart
PROPERTY WholeInTheEnd
