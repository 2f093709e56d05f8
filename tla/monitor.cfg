SPECIFICATION BusySpec
CONSTANTS
  s1 = s1
  s2 = s2
  Stream = {s1, s2}
  Capacity = 4
  NoForwarder = NoForwarder
INVARIANTS
  TypeOK
  GuardMatchesTask
  CleanEndMeansNothingMonitored
  ListenersAreNotAbandoned
PROPERTIES
  LeaversAreForgotten
  EveryoneGetsTheSocket
  LossOfSocketEndsAll
