CONSTANTS
  BUF_SIZE = 2
  Total = 5
  Values = {0, 1, 2, 3, 4}
  NoValue = NoValue
SPECIFICATION WaitSpec
PROPERTY AllReceived
CHECK_DEADLOCK FALSE
