SPECIFICATION FairSpec

CONSTANTS
    Roles <- MCRoles
    Replies <- MCReplies
    Unreadable <- MCUnreadable
    Budgets <- MCBudgets

PROPERTIES
    WireSpec
    GetsThrough

CHECK_DEADLOCK FALSE
