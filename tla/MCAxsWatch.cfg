\* Seven pages, one failure, unreadable answer or restart.
SPECIFICATION FairSpec
CONSTANTS
    listed = listed
    linked = linked
    Ids <- MCIds
    Queue = queue
    Pages <- MCPages
    NoSnapshot = none
    MaxFaults = 1
INVARIANT TypeOK
INVARIANT JudgedUnlessLost
PROPERTY LostOnlyForCause
PROPERTY ShownReaches
