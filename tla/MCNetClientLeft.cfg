CONSTANTS
    Conn = {c1, c2}
    Listener = Listener
    Backlog = 2
SPECIFICATION Spec
SYMMETRY Symmetry
INVARIANT AllClosed
CHECK_DEADLOCK FALSE
