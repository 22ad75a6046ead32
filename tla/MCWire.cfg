CONSTANTS
  kCheapPrepend = 2
  kInitialSize = 3
  ExtraSize = 2
  MaxBytes = 9
  NotUtf8 = {"bad", "xx", "?xx"}
  MaxCalls = 4
  MaxPackets = 2
  MaxStream = 3
  Kinds = {"request", "heartbeat", "response", "badCrc", "badBody", "badVersion", "huge", "noise"}
  Lens = {0, 2}
  MaxBodyLen = 2
  MaxBuffer = 12
  MaxScan = 4
SPECIFICATION MCSpec
INVARIANTS BufferIsQueue MessagesCarried PacketsRoundTrip RequestsAnswered StreamAnswered
CHECK_DEADLOCK FALSE
