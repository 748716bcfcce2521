SPECIFICATION Spec
CONSTANTS
    None = None
    Users <- MCUsers
    PersonalOf <- MCPersonalOf
    Mixes <- MCMixes
    HomeOf <- MCHomeOf
    MaxSlots = 2
    Conversations = {"c1", "c2"}
    Runs = {"r1"}
    LoginLimit = 2
    WindowMs = 2
    DayLength = 1
    SessionMaxAge = 2
    ApprovalTimeout = 2
    MaxNotes = 1
    MaxWorkspaces = 3
INVARIANTS LimitsHold EffectsAuthorized RunsOnlyApproved BudgetWaitersAgree
CHECK_DEADLOCK FALSE
