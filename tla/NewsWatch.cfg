\* A keyword post the model does not confirm, a mention that is no signal, a
\* Chinese headline of either kind; two failures or restarts.
SPECIFICATION FairSpec
CONSTANTS
    Keyword = {vetoed}
    Mention = {hint}
    Chinese = {global, local}
    Signals = {global}
    AdminOnly = {local}
    MaxFaults = 2
INVARIANT TypeOK
INVARIANT RejudgedOnlyIfUnwritten
INVARIANT ChineseOnlyOnWord
INVARIANT ForgottenOnlyIfDropped
PROPERTY KeywordAlwaysReaches
PROPERTY OutageLosesNothing
