CONSTANTS
  MaxCalls = 3
  Timeout = 1
  MaxTime = 4
  MaxLosses = 1
  Timeouts = {0, 1}
  DefaultTimeout = 2
  IdleWait = 2
SPECIFICATION MCSpec
PROPERTIES InlineClientsKeepPromise InlineCallsComplete
CHECK_DEADLOCK FALSE
