CONSTANTS
    Conn = {c1, c2}
    Listener = Listener
    Backlog = 2
SPECIFICATION Spec
PROPERTY WaitersAccepted
CHECK_DEADLOCK FALSE
