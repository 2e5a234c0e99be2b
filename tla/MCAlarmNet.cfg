CONSTANTS
  NGroups = 1
  NZones = 1
  Events = {e1}
  NoObject = none
  MailboxSize = 1
  AEThreads = {a1}
  KeyReaders = {}
  AutoArmers = {}
  MqttSubs = {mqttSub}
  Webs = {http}
  Prio <- MCPrio
  NORMALPRIO = 128
  ZoneGroup <- MCZoneGroup
  AuthTime <- MCAuthTime
  Readings <- MCReadings
  NeededZones = {}
  HomeZones = {0}
  PirAsTamper = {}
  RemoteZones = {}
  BalancedZones = {}
  GroupsOn = {0}
  AutoArmGroups = {}
  ArmChain <- MCChain
  DisarmChain <- MCChain
  Relays = {"relay1", "relay2"}
  PirRelays <- MCPir
  TamperRelays <- MCTamper
  ArmDelay = 1
  TicksPerUnit = 1
  HomeTicks = 1
  TickLimit = 8
SPECIFICATION Spec
INVARIANTS
  TypeOK
