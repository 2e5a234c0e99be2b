CONSTANTS
  GroupNumbers = {"1"}
  ZoneNumbers = {"1"}
  MaxTokens = 5
  Slots = {1}
  CommandIn <- MCCommandIn
  Period = 3
  StartAt = 0
  DummyAt = 1
  CheckAt = 2
  LogSize = 2
  AlertSize = 1
  ContactOf <- MCContacts
  Entries <- MCEntries
  FirstHw = {"off"}
  Scenarios <- MCScenarios
SPECIFICATION RunningSpec
  
PROPERTIES Recovers BatteryWaitEnds
