SPECIFICATION Spec
CONSTANT MaxInterruptions = 3
INVARIANT StartsBringUpToDate
