\* A rule table with a hard PII rule; every call may go unanswered.
CONSTANTS
    Keywords = {"SELECT", "SELECT*", "DELETE", "DROP", "WITH"}
    Sources = {"internal_system", "external_user_input", "partner"}
    Tables = {"users", "logs"}
    PiiTables = {"users"}
    RowCounts = {10, 100001, 1000001}
    Cascades = {0, 50001}
    TriggerCounts = {0, 1, 5}
    Rejections = {0, 1}
    Confidences = {24, 90}
    Costs = {0, 60000}
    Hours = {12, 22}
    ActiveRules = {"DDL_NO_BACKUP", "PII_STANDARD_REVIEW", "EXTERNAL_INPUT", "BULK_DELETE_SENSITIVE", "PAYMENT_WEBHOOK", "AFTER_HOURS", "AUTO_REJECT_PATTERN", "PII_EXPENSIVE_READ"}
    HardRules = {"DDL_NO_BACKUP", "AUTO_REJECT_PATTERN", "PII_STANDARD_REVIEW"}
    FullContractRules = {"EXTERNAL_INPUT", "BULK_DELETE_SENSITIVE", "PAYMENT_WEBHOOK"}
    StandardRules = {"PII_EXPENSIVE_READ"}
    ExplainServed = TRUE
SPECIFICATION Spec
INVARIANTS
    TypeOK
    FastPathIsOnePricedRead
    TierMonotone
    UnsizedIsFull
    IrrecoverableIsFull
