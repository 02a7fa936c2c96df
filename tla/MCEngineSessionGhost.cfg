CONSTANT MaxCand = 1
SPECIFICATION Spec
INVARIANT LiveRetired
CHECK_DEADLOCK FALSE
