\* the loop may have returned, and every client may have sent all it sends
CHECK_DEADLOCK FALSE
SPECIFICATION Spec
CONSTANTS
  Sessions = {c1, c2}
  Requests <- MCRequests
  Buckets <- MCBuckets
  Origin <- MCOrigin
  Files <- MCFiles
  ArchiveNames = {"one.zip", "two.tgz", "in.zip"}
  DottedNames = {"..", "x.."}
  HomeNames = {"~"}
  MaxUnzip = 7
  MaxRatio = 3
  AllowUnzip = TRUE
  MaxRedirects = 2
  MaxRequests = 3
INVARIANTS TypeOK SignedOnFirstHop AnsweredAsHeld DropsOnlyBadQueries RefusedCostsNothing
PROPERTIES FetchesEnd
