SPECIFICATION PartSpec
CONSTANTS
  f1 = f1  f2 = f2  declared = declared
  daily = daily  hourly = hourly
  channel = channel  topic = topic
  FileDefinition = {f1, f2}
  DeclaredDefinition = {declared}
  ScheduleId = {daily, hourly}
  Target = {channel, topic}
  IdOf <- MCIdOf
  TargetOf <- MCTargetOf
  MaxTables = 2
  MaxAccepted = 2
  Action = {"a1", "a2"}
  Request = {"s1"}
  MaxCatalog = 2
  MaxSubmits = 2
  MaxReloads = 1
  MaxFaults = 1
  i1 = i1  i2 = i2  i3 = i3
  Instance = {i1, i2, i3}
  View = {"one", "each"}
  HowMany <- HowManyOf
  ClosesBy <- ClosesByOf
  Openings <- OpeningsOf
  Catalog <- CatalogOf
  FloatId = {"f", "g"}
  GivenStack <- StackGiven
  GivenNames <- NamesGiven
CHECK_DEADLOCK FALSE
INVARIANTS
  TypesOK
  DeclaredStayAccepted
  ReconciledTogether
  ToldTheTruth
PROPERTIES
  AcceptedSpec
  LayoutsStayWhole
  AcceptancesSettle
