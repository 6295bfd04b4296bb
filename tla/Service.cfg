SPECIFICATION Spec
CONSTANTS
    Components = {"match", "admission", "rejoin", "store", "inspection", "budget", "client", "peers", "custody", "broker", "replication", "binding", "horse"}
INVARIANTS MatchFollowsElection OneKeyPerGeneration KeysAreAccountedFor StoreKeepsAdmission
  InspectionIsTrue BudgetHolds SessionsDoNotMix CustodyIsKept
PROPERTIES AuthorityMovesOn EffectsAreFenced RidersAreShownAsPublished SessionsAreBound
  MotionIsEarned
CHECK_DEADLOCK FALSE
