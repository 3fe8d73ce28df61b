SPECIFICATION FairSpec
CONSTANTS
    Requests = {r1, r2}
    NoRequest = NoRequest
    Handles = {h1, h2}
    NoHandle = NoHandle
    Locations = {"limited"}
    Conf <- MCConf
    Results <- MCResults
    Rounds = 1
    BatchMax = 1
    DeadlineAnswers = {TRUE}
    MaxRedirects = 0
    MaxRebinds = 2
PROPERTIES
    WaitingEnds
    RebindHappens
