SPECIFICATION InvocationSpec
CONSTANTS
  Pid <- MCPid
  Shape <- MCShape
  MaxBorn = 3
INVARIANTS
  TypeOK
  OneProcess
  RestartNoticed
  OutputMatchesExit
CHECK_DEADLOCK FALSE
