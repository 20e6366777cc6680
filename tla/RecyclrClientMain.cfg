CONSTANT MaxCore = 3
SPECIFICATION Spec
INVARIANT MainPinned
CHECK_DEADLOCK FALSE
