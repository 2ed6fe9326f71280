\* A decision through the API lands after the pipeline has ended.
CONSTANTS
    h1 = h1
    h2 = h2
    Handlers = {h1}
    SlackHandlers = {}
    Replies = {"ok", "error", "raise"}
    RecursionLimit = 12
    DbCanFail = FALSE
    LateEntry = FALSE
    MaxRestarts = 0
SPECIFICATION FairSpec
PROPERTY
    StatusSettles
