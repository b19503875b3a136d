CONSTANTS
  k1 = k1
  k2 = k2
  h1 = h1
  h2 = h2
  h3 = h3
  Key = {k1, k2, h1, h2}
  FreeSpot = FreeSpot
  Host = {h1}
  MaxFilters = 4
  MaxWhitelist = 1
  MaxBuf = 3
  Configs <- OneConfig
  Lines <- BanLines
  Command <- BanCommandsOnly
  MaxTime = 1
  MaxTyped = 4
SPECIFICATION Spec
INVARIANT BansBackBeforeService
