CONSTANTS
  Groups = {g1}
  Zones = {z1}
  HadGroups = {g1}
  HadZones = {}
  PoolSize = 2
  SubPoolSize = 1
  RetryEvery = 2
  FirstCount = 1
  MaxEvents = 2
SPECIFICATION RunningSpec
INVARIANTS Conserved SemComesBack BrokerIsTold
PROPERTIES Reconnects
CHECK_DEADLOCK FALSE
