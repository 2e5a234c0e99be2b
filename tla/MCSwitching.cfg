CONSTANTS
  s1 = s1
  o1 = o1
  o2 = o2
  k1 = k1
  a = a
  w = w
  Sensors = {s1}
  Outputs = {o1, o2}
  Keys = {k1}
  Radio = {a}
  Wired = {w}
  NodeSize = 2
  RegSize = 3
  SensorSize = 1
  TriggerSize = 1
  Hour = 1
  Readings = {0, 1, 3}
  Day = 2
  SubValues = {0, 1}
  Confs <- MCConfs
SPECIFICATION Spec
INVARIANTS OneSlotPerNode  OnIsArmed
PROPERTIES NextStartIsSet
CHECK_DEADLOCK FALSE
