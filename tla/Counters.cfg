SPECIFICATION CountersSpec
CONSTANT niters = 3
INVARIANTS NeverBoom RaceIsBounded
PROPERTIES NoLostUpdate Terminates
CHECK_DEADLOCK FALSE
