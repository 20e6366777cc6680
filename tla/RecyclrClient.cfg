CONSTANT MaxCore = 3
SPECIFICATION Spec
INVARIANTS TypeOK NoneOutlives NodesPinned
PROPERTIES NodeSpec WorkersEnd DestructorReturns
CHECK_DEADLOCK FALSE
