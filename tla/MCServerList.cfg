CONSTANTS
  a1 = a1
  a2 = a2
  b1 = b1
  hostA = hostA
  hostB = hostB
  Address <- ThreeServers
  HostOf <- Hosts
  FilterLists <- FilterNoneOrA
  MaxServers = 2
  MinPing = 1
  DeadTime = 1
  MaxReported = 2
SPECIFICATION FairSpec
INVARIANT TypeOK
PROPERTY GivenUpAfterSilence
PROPERTY PingedAgain
PROPERTY SilentServerGoes
