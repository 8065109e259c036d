\* A private chat and the admin's, two messages at a time, three prompts and a
\* limit of two searches.
SPECIFICATION Spec
CONSTANTS
    own = own
    admins = admins
    user = user
    admin = admin
    Chats <- MCChats
    Users <- MCUsers
    Members <- MCMembers
    AdminChat = admins
    Handlers = {h1, h2}
    RateMax = 2
    MaxPrompts = 3
SYMMETRY HandlerSymmetry
INVARIANT TypeOK
INVARIANT OneSearchPerPrompt
INVARIANT LimitHolds
PROPERTY PromptStays
