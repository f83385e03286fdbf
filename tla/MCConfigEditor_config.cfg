CONSTANTS
    p1 = p1
    p2 = p2
    here = here
    there = there
    Page <- Pages
    Author <- Authors
    Body <- Bodies
    Socket <- Sockets
    Initial <- FirstOne
    Typed <- SomeTexts
    MaxClicks = 2
    MaxActs = 3
    Env <- Everything
SPECIFICATION FairSpec
INVARIANTS
    TypeOK
    Agree
    EditsKept
PROPERTY
    PageSettles
CHECK_DEADLOCK FALSE
