\* Two elements, two concurrent callers, two requests in all: an answer
\* can be late, crossed, or given by the wrong element.
SPECIFICATION Spec
CONSTANTS
    NE = {n1, n2}
    Stranger = stranger
    Caller = {c1, c2}
    XID = {x1}
    NoXID = noxid
    authenticated = TRUE
    MaxCalls = 2
CHECK_DEADLOCK FALSE
INVARIANTS RequesterInv AnswersAreTheElements InventoryIsCurrent
