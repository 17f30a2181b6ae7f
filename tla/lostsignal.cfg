SPECIFICATION Spec
CONSTANTS
  MaxSignals = 1
  MaxRequests = 0
  Requests <- StopRequests
  RestEnabled = FALSE
  UseGUI = FALSE
PROPERTIES SignalEndsMachine
CHECK_DEADLOCK FALSE
