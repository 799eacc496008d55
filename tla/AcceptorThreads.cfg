CONSTANTS
  Nothing = Nothing
  Keys = {k1}
  Endpoints = {e1}
  Accepts = {a1}
  MaximumPendingSessions = 1
  MaxSessions = 1
  SingleThread = FALSE
SPECIFICATION Spec
INVARIANT WaitingAcceptorsNotified
CHECK_DEADLOCK FALSE
