SPECIFICATION Spec
CONSTANTS
    Requests = {r1}
    NoRequest = NoRequest
    Handles = {h1}
    NoHandle = NoHandle
    Locations = {"off", "guarded", "report"}
    Conf <- MCConf
    Results <- MCResults
    Rounds = 1
    BatchMax = 1
    DeadlineAnswers = {TRUE, FALSE}
    MaxRedirects = 3
    MaxRebinds = 2
INVARIANTS
    SingleCheck
    RefusalIsFinal
    UnservedNotSampled
PROPERTIES
    DecisionIsFinal
    ImplementsAdmission
