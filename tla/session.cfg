SPECIFICATION Spec
CONSTANTS
  MaxSignals = 3
  MaxRequests = 3
  Requests <- AllRequests
  RestEnabled = TRUE
  UseGUI = TRUE
INVARIANTS TypeOK OutcomeReported FinalStateReachesWaiter OkMeansStopped
PROPERTIES SessionSteps StopEndsProcessUnlessTaken SignalStopsRunningVM 
CHECK_DEADLOCK FALSE
