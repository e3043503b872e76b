SPECIFICATION Spec
CONSTANTS
    Jobs = {j1}
    Greenlets = {g1, g2}
    Sandboxes = {s1, s2}
    MaxMessages = 2
    Free = Free
    Elsewhere = Elsewhere
    Former = Former
    NoJob = NoJob
    NoGreenlet = NoGreenlet
    NoSandbox = NoSandbox
INVARIANTS
    HandlersAreMapped
CHECK_DEADLOCK FALSE
