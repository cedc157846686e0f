CONSTANTS
  BaseClock = 24000000
  Baudrate = 115200
  FifoDepth = 2
  Leftovers <- MCLeftovers
  Messages <- MCMessages
  MaxLogs = 2
SPECIFICATION Spec
INVARIANTS
  ReadyToSend
  WireIsText
PROPERTIES
  ConfiguredAtRest
  CallsReturn
