CONSTANT Idle = 2
SPECIFICATION FairSpec
INVARIANTS TypeOK AgreesAtRest
PROPERTY BurstEnds
CHECK_DEADLOCK FALSE
