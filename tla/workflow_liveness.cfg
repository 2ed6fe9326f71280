\* No call raises; decisions through the API, MODIFY included; the review may
\* be entered late.
CONSTANTS
    h1 = h1
    h2 = h2
    Handlers = {h1, h2}
    SlackHandlers = {h2}
    Replies = {"ok", "error"}
    RecursionLimit = 12
    DbCanFail = FALSE
    LateEntry = TRUE
    MaxRestarts = 0
SPECIFICATION FairSpec
INVARIANTS
    SettledAtRest
PROPERTIES
    PipelineEnds
    ApprovalHonoured
