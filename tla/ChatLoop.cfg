SPECIFICATION FairSpec
CONSTANTS
    c1 = c1
    c2 = c2
    Chats = {c1, c2}
    Filers = {c1, c2}
    MaxHops = 2
    Menu <- GrantsAndDenies
    MaxCalls <- OneAndTwo
    MaxRestarts = 1
    MaxRequests = 1
    Names = {github_token}
    NoName = "no capability"
CHECK_DEADLOCK FALSE
INVARIANTS
    PromptWellFormed
    EffectsReported
    ToldDecisionStands
PROPERTIES
    EndsWithinBudget
