SPECIFICATION PartSpec
CONSTANTS
  Terminal = {t1}
  Caller = {webview, cli}
  Host = host
  MaxUpdates = 2
  None = None
  MaxRevision = 1
  MaxLists = 2
  MaxAttach = 2
  MaxOutput = 2
  Connection = {c1, c2}
  Rude = {c2}
  MaxEvents = 2
  Process = {p1, p2}
  Name = {shipctl}
  Root = {p1, p2}
  NameOf <- NameShared
  RootOf <- RootOwn
  Client = {k1, k2}
INVARIANTS TypesOK RemovalsAreFinal ProtocolHolds NothingLeft StreamsEnd DirectoryIsTrue
PROPERTIES HostKeepsPromise ListsAreTrue TerminalsSettle
CHECK_DEADLOCK FALSE
