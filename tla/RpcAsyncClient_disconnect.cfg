CONSTANTS
  Calls = {c1}
  Callbacks = {}
  Timed = {c1}
  MayStop = {"disconnect"}
  NoOutcome = NoOutcome
SPECIFICATION FairSpec
PROPERTY NoCallerLeftBehind
CHECK_DEADLOCK FALSE
