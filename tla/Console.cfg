CONSTANTS
    Areas <- Everything
    Sections <- AllSections
    Hosts = {1, 2}
    MaxActs = 4
    MaxCalls = 2
    MaxEvents = 1
    MaxRuns = 2
    MaxMoves = 1
    MaxPresses = 1
    MaxTroubles = 1
    Tabs = {t1, t2}
    Accounts = {ann, bob}
    MaxTokens = 3
    MaxDoings = 4
    LabelValue = {blue}
SPECIFICATION Spec
INVARIANTS TypeOK OwnChangesShown UserIsTokens TargetsAgree
PROPERTIES OwnChangeSurvives SavedMeansAssigned RunningPageSettles
CHECK_DEADLOCK FALSE
