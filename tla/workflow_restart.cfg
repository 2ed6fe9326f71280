\* Upserts fail, the process restarts once, and a MODIFY runs into the
\* recursion limit.
CONSTANTS
    h1 = h1
    h2 = h2
    Handlers = {h1, h2}
    SlackHandlers = {h2}
    Replies = {"ok", "error", "raise"}
    RecursionLimit = 9
    DbCanFail = TRUE
    LateEntry = FALSE
    MaxRestarts = 1
SPECIFICATION Spec
INVARIANTS
    AtMostOnce
    StatusAgrees
    QueueIsReviewable
