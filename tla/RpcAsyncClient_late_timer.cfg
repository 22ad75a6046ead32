CONSTANTS
  Calls = {c1}
  Callbacks = {}
  Timed = {c1}
  MayStop = {}
  NoOutcome = NoOutcome
SPECIFICATION Spec
PROPERTY AnsweredCallsDoNotFail
