CONSTANT MaxStarts <- MCMaxStarts
SPECIFICATION Spec
INVARIANTS
  PublishedImpliesInitialised
  ReadyImpliesWired
\* Once MaxStarts OnStart calls are spent the service may stay stopped.
CHECK_DEADLOCK FALSE
