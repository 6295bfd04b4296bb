SPECIFICATION FairSpec
CONSTANT MaxFaults = 2
INVARIANT CleanupInOrder
PROPERTIES QuarantineIsFinal CleanupEnds
CHECK_DEADLOCK FALSE
