SPECIFICATION Spec
CONSTANTS
    Request = {1, 2}
    None = None
    Closed = Closed
    Cap = 1
    Events = 2
    Page = 1
    MaxExtras = 1
INVARIANTS DoneIsLast WholeTurns WatchersAreCounted

CHECK_DEADLOCK FALSE
