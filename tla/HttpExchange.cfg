SPECIFICATION MCSpec
CONSTANTS
  Codes <- MCCodes
  MaxLine = 3
  MaxHeaders = 7
  MaxInformational = 1
  Window = 4
  MaxSent = 16
  Octet <- MCOctet
  AddressBytes <- MCAddressBytes
  MaxReplies = 11
INVARIANTS
  MCTypeOK
  ExchangeAgrees
  TunnelAgrees
  BoundedReading
  Socks5Agrees
CHECK_DEADLOCK FALSE
