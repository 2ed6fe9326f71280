\* One decision through the API, one through Slack; no restart.
CONSTANTS
    h1 = h1
    h2 = h2
    Handlers = {h1, h2}
    SlackHandlers = {h2}
    Replies = {"ok", "error", "raise"}
    RecursionLimit = 12
    DbCanFail = FALSE
    LateEntry = FALSE
    MaxRestarts = 0
SPECIFICATION Spec
INVARIANTS
    TypeOK
    AtMostOnce
    DecidedOnce
    StatusAgrees
    QueueIsReviewable
    AuditTruthful
PROPERTIES
    OnlyApprovedDispatched
    ReanalysedBeforeApproval
    ImplementsToken
