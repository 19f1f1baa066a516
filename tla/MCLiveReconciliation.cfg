SPECIFICATION MCSpec
CONSTANTS
  Graph = {"first", "old", "unrouted"}
  InitialGraph = "first"
  MaxRevision = 3
  MaxTroubles = 1
  Loadable <- LoadableFirst
  Routable = {"first", "old", "broken"}
INVARIANTS TypeOK ServedAndNothingElse ShownAndReported
PROPERTIES RevisionsMeet
CHECK_DEADLOCK FALSE
