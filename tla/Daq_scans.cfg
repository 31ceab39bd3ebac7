CONSTANTS
  NBoards = 2
  AiChan <- MCAiChan
  PointCounts = {5}
  Ring = 8
  Loops = {1, 2}
  DummyInterval = 2
  ProgInterval = 2
  Outputs = {0, 1}
  Volts = {0, 1}
  Links <- MCLinks
  Uses <- MCUses
  Hardware <- MCHardware
SPECIFICATION Spec
INVARIANTS NoOverrun SamplesInPlace RowsAreSamples NoStaleReading PulseUndone
CHECK_DEADLOCK FALSE
