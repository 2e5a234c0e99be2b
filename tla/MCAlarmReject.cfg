CONSTANTS
  NGroups = 1
  NZones = 1
  Events = {e1, e2}
  NoObject = none
  MailboxSize = 2
  AEThreads = {a1}
  KeyReaders = {radio}
  AutoArmers = {}
  MqttSubs = {}
  Webs = {}
  Prio <- MCPrio
  NORMALPRIO = 128
  ZoneGroup <- MCZoneGroup
  AuthTime <- MCAuthTime
  Readings <- MCReadings
  NeededZones = {0}
  HomeZones = {0}
  PirAsTamper = {}
  RemoteZones = {}
  BalancedZones = {}
  GroupsOn = {0}
  AutoArmGroups = {}
  ArmChain <- MCChain
  DisarmChain <- MCChain
  Relays = {"relay1", "relay2"}
  PirRelays <- MCPir
  TamperRelays <- MCTamper
  ArmDelay = 1
  TicksPerUnit = 2
  HomeTicks = 1
  TickLimit = 8
SPECIFICATION RunningSpec
INVARIANTS
  CannotArm
