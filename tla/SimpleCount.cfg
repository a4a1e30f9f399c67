CONSTANT MaxCount = 8
SPECIFICATION Spec
INVARIANT InStep
CHECK_DEADLOCK FALSE
