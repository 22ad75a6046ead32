CONSTANTS
  Calls = {c1, c2}
  Callbacks = {c2}
  Timed = {c1, c2}
  MayStop = {"disconnect", "destroy"}
  NoOutcome = NoOutcome
SPECIFICATION FairSpec
INVARIANT NobodyIsForgotten
PROPERTIES ImplementsRpcCalls EveryCallCompletes
CHECK_DEADLOCK FALSE
