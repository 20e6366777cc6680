CONSTANTS
    Conn = {c1, c2, c3}
    Listener = Listener
    Backlog = 2
SPECIFICATION Spec
INVARIANTS TypeOK VectorExact EventsFresh CloseNeverCalled
PROPERTIES LifeSpec NodeSpec EveryoneCalled ActivitySeen FirstWaiterAccepted DestructorReturns
CHECK_DEADLOCK FALSE
