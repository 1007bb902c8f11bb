CONSTANTS
  c1 = c1  c2 = c2  c3 = c3  c4 = c4  p1 = p1  p2 = p2  p3 = p3
  Processes = {p1, p2}
  Calls = {c1, c2, c3, c4}
  ProcessOf <- TwoProcesses
  ScopesOf <- MCScopes
  Crashing = {p1, p2}
  Stalls = FALSE
  Refreshers = {"old", "new"}
  ParserOf <- MCParserOf
  Paths <- MCPaths
  GraphPlans <- MCGraphPlans
  Nodes = {1, 2, 3, 4}
SPECIFICATION FilesSpec
 
PROPERTIES
  LocksComeBack
  IndexTrue
CHECK_DEADLOCK FALSE
