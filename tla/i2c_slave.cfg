SPECIFICATION Spec
CONSTANT RxDepth = 2
PROPERTY RequestsAreAnswered
CHECK_DEADLOCK FALSE
