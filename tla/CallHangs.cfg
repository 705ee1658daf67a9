CONSTANTS
  Window = 2
  LastSecond = 4
  PerSecond = 2
SPECIFICATION CounterSpec
PROPERTY CallsReturn
CHECK_DEADLOCK FALSE
