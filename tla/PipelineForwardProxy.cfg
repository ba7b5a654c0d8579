SPECIFICATION Spec
CONSTANTS
  Address <- MCAddress
  Codes <- MCCodes
  Answers <- MCAnswers
  ProxyAnswers <- MCProxyAnswers
  Family <- MCFamily
  TcpErrors <- MCTcpErrors
INVARIANTS
  SuccessMeansServed
CHECK_DEADLOCK FALSE
