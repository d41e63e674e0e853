CONSTANTS
    Fps = {"n1", "n2", "n3"}
    Sources = {1, 2}
    Countries = {"de"}
    NoCountry = "none"
    Feed <- TwoFeeds
    FeedCountry <- TwoCountries
    Target = 1
    Limit = 2
    ProbeLimit = 1
    Weights = {1, 2}
    RefreshSoon = 1
    RefreshLate = 2
    BaseCool = 1
    MaxCool = 1
    HealthTTL = 1
    Threshold = 2
    FailCap = 2
    Groups = {"all", "auto"}
    Exit <- ExitGroup
    MaxCycles = 3
    MaxFaults = 1
    GroupCap = 2
    Floor = 2
    RepeatTicks = 2
    MaxSince = 2
SPECIFICATION CollectorSpec
INVARIANTS CollectorTypeOK ServedIsProven EvidenceAgrees StarvedIsAlerted SelectionIsFair
CHECK_DEADLOCK FALSE
