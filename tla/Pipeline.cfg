SPECIFICATION Spec
CONSTANTS
  Address <- MCAddress
  Codes <- MCCodes
  Answers <- MCAnswers
  ProxyAnswers <- MCProxyAnswers
  Family <- MCFamily
  TcpErrors <- MCTcpErrors
INVARIANTS
  TypeOK
  ReachabilityVerdict
  ClassMatchesProgress
  OrderIndependent
  TriesUntilReachable
PROPERTIES
  Ends
CHECK_DEADLOCK FALSE
