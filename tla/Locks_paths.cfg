SPECIFICATION LocksSpec
INVARIANTS DeadlocksAreKnown RacesAreKnown
CHECK_DEADLOCK FALSE
