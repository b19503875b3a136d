CONSTANTS
  n1 = n1
  n2 = n2
  n3 = n3
  a1 = a1
  a2 = a2
  a3 = a3
  Name = {n1, n2, n3}
  Addr = {a1, a2, a3}
  NoAddr = NoAddr
  Lists <- TwoLists
  Resolutions <- SomeResolutions
  MaxMasters = 2
  QueryTime = 3
  QueryTimeShort = 1
  ForceReInit = 3
  HeartbeatSeconds = 2
SPECIFICATION FairSpec
INVARIANT TypeOK
INVARIANT OneSlotPerMaster
INVARIANT PacketsFollowTheList
PROPERTY QueriesSpaced
PROPERTY MastersFollowDns
PROPERTY HeartbeatsGoOn
