\* A reviewer at the notifier, whose posts may be lost or late, and one in
\* Slack; one event stream.
CONSTANTS
    c1 = c1
    c2 = c2
    s1 = s1
    s2 = s2
    Clicks = {c1, c2}
    ModalClicks = {c2}
    Decisions = {"APPROVE", "MODIFY"}
    Streams = {s1}
    PostCanFail = TRUE
SPECIFICATION FairSpec
INVARIANTS
    TypeOK
    NoUpdateMissed
    OnlyReadersFed
    RefusedOnlyIfBeaten
PROPERTIES
    StreamsEnd
