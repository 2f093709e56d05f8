SPECIFICATION Spec
CONSTANTS
  s1 = s1
  Stream = {s1}
  Capacity = 4
  NoForwarder = NoForwarder
PROPERTIES
  BothSidesMonitored
