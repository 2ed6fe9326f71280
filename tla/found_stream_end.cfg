\* A stream that ends by itself has sent a terminal status.
CONSTANTS
    c1 = c1
    c2 = c2
    s1 = s1
    s2 = s2
    Clicks = {c1, c2}
    ModalClicks = {c2}
    Decisions = {"APPROVE", "MODIFY"}
    Streams = {s1}
    PostCanFail = TRUE
SPECIFICATION Spec
INVARIANT EndIsShown
