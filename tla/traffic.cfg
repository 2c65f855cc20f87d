SPECIFICATION TrafficSpec
CONSTANTS
  b1 = b1
  b2 = b2
  private = private
  ip1 = ip1
  ip2 = ip2
  gb = gb
  Requests = {r1, r2, r3}
  IPs = {ip1, ip2}
  NoIP = NoIP
  Addresses = {b1, b2, private}
  Canon <- MCCanon
  PrivateIPs = {private}
  Origins <- MCOrigins
  TrustedProxy = TRUE
  Countries = {gb, XX}
  UnknownCountry = XX
  NoCountry = NoCountry
  Burst = 1
  Cost = 3
  InactiveLimit = 4
  MaxLag = 1
  Validity = 2
  MaxTime = 5
SYMMETRY Symmetry
INVARIANTS
  TypeOK
  HoldersKeepBucket
  CountsAreAdmitted
PROPERTIES
  CancelsWithinCredit
  ImplementsBuckets
  ImplementsVisits
CHECK_DEADLOCK FALSE
