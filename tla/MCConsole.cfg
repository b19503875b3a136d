CONSTANTS
  k1 = k1
  k2 = k2
  h1 = h1
  h2 = h2
  h3 = h3
  Key = {k1, k2}
  FreeSpot = FreeSpot
  Host = {h1, h2, h3}
  MaxFilters = 2
  MaxWhitelist = 2
  MaxBuf = 24
  Configs <- TwoConfigs
  Lines <- SomeLines
  Command <- SomeCommands
  MaxTime = 3
  MaxTyped = 3
SPECIFICATION FairSpec
INVARIANT TypeOK
INVARIANT WhitelistIsTheFiles
INVARIANT BansBackBeforeService
INVARIANT BansOnFile
PROPERTY ImplementsBanList
PROPERTY KeepsServing
