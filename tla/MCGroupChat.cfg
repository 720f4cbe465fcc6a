SPECIFICATION FairSpec
CONSTANTS
    Agents = {a1, a2}
    Person = Person
    Slots = {s1, s2}
    MaxPrompts = 1
    Window = 2
    GracePeriod = 2
    ReplyCooldown = 1
INVARIANTS
    BudgetKept
    HeardAfterMention
    RepliesThrottled
PROPERTIES
    PromptChatEnds
CHECK_DEADLOCK FALSE
