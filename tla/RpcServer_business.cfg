SPECIFICATION Spec
CONSTANTS
  Texts = {"", "a", "xx", "long"}
  NotUtf8 = {"xx", "?xx"}
  Keys = {"k", "l", "m"}
  Ints = {0, 1}
  Int32Half = 8
  U16 = 3
  U64 = 16
  kMaxBodyLen = 64
  kMaxBufferSize = 64
  Names = {"m", "xx", "long"}
  Services = {"m"}
  Methods = {"", "m"}
  MaxPackets = 2
INVARIANT BusinessErrorsDoNotTrip
CHECK_DEADLOCK FALSE
