SPECIFICATION Spec
CONSTANTS
  SequenceNumbers = 2
  LineLength = 2
  BufSize = 4
  MaxCommands = 3
  MaxUplink = 6
  MaxDownlink = 2
  MaxLosses = 2
  MaxShutdowns = 1
PROPERTIES ExactlyOnce UartAcknowledges
CHECK_DEADLOCK FALSE
