SPECIFICATION MCSpec
CONSTANTS
    Content = {"a", "b"}
    Texts = {"", "x"}
    Matches <- MCMatches
    Subscribers = {"watch"}
    PAGE_LIMIT = 1
    MaxRevision = 3
    MaxActs = 2
    MaxFaults = 1
    Flow = {1, 2}
    Setups <- MCSetups
    SERVICE_POLLS = 1
    MAX_ATTEMPTS = 2
INVARIANTS OnlyMatches AnswersMatch ClosedCancelsAll NotStale
PROPERTIES ComesUpToDate SubscriberHears RequestsEnd PageSettles SettingsApply SyncFlagStands
CHECK_DEADLOCK FALSE
