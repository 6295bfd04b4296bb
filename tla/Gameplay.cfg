SPECIFICATION Spec
INVARIANTS FreshTickSucceeds CheckpointsRestore ScoresAddUp KernelsAgree
PROPERTIES ShotsAreEarned HorsesComeBackInTime DivesAreTrue
CHECK_DEADLOCK FALSE
