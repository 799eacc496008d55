CONSTANTS
  Nothing = Nothing
  Keys = {k1, k2, k3}
  Endpoints = {e1, e2}
  Accepts = {a1, a2}
  MaximumPendingSessions = 2
  MaxSessions = 3
  SingleThread = TRUE
SPECIFICATION FairSpec
INVARIANTS
  TypeOK AcceptedInOrder StoredUntilFinished PacketsFollowClient WaitingAcceptorsNotified
PROPERTY SessionsTaken
CHECK_DEADLOCK FALSE
