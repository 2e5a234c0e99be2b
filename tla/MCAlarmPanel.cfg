CONSTANTS
  NGroups = 1
  NZones = 2
  Events = {e1, e2}
  NoObject = none
  MailboxSize = 2
  AEThreads = {a1, a2}
  KeyReaders = {radio, rs485}
  AutoArmers = {}
  MqttSubs = {}
  Webs = {}
  Prio <- MCPrio
  NORMALPRIO = 128
  ZoneGroup <- MCZoneGroup
  AuthTime <- MCAuthTime
  Readings <- MCReadings
  NeededZones = {}
  HomeZones = {0}
  PirAsTamper = {}
  RemoteZones = {}
  BalancedZones = {}
  GroupsOn = {0}
  AutoArmGroups = {}
  ArmChain <- MCChain
  DisarmChain <- MCChain
  Relays = {"relay1", "relay2"}
  PirRelays <- MCPir
  TamperRelays <- MCTamper
  ArmDelay = 1
  TicksPerUnit = 1
  HomeTicks = 1
  TickLimit = 8
SPECIFICATION RunningSpec
SYMMETRY MCSymmetry
INVARIANTS
  EventsConserved
  ZoneNotDeaf
  AlarmSounds
PROPERTIES
  ImplementsPanel
