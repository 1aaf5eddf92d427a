CONSTANT MaxStarts <- MCMaxStarts
SPECIFICATION Spec
INVARIANT ReadyImpliesTableLoaded
CHECK_DEADLOCK FALSE
