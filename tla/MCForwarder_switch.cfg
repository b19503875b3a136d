CONSTANTS
  c1 = c1
  c2 = c2
  s1 = s1
  s2 = s2
  k1 = k1
  k2 = k2
  c3 = c3
  k3 = k3
  Client = {c1}
  Server = {s1, s2}
  Sock = {k1}
  Main = Main
  NoPrx = NoPrx
  NoHost = NoHost
  NoServer = NoServer
  Challenge = {1, 2}
  Protos = {"qw", "q3"}
  MaxChallenges = 1
  Timeout = 2
  ResendAfter = 1
  QuietAfter = 1
  BanLists <- OneClientBanned
  Whitelists <- TwoWhitelists
  Limits = {2}
  MaxUserid = 2
SPECIFICATION FairSpec
INVARIANT ConnectedToAccepter
PROPERTY DropIsFinal
PROPERTY ChallengeFixedOnceConnected
PROPERTY BannedClientLeaves
PROPERTY ChallengeRepeated
