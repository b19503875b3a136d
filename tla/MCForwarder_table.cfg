CONSTANTS
  c1 = c1
  c2 = c2
  s1 = s1
  s2 = s2
  k1 = k1
  k2 = k2
  c3 = c3
  k3 = k3
  Client = {c1, c2, c3}
  Server = {s1, s2}
  Sock = {k1, k2, k3}
  Main = Main
  NoPrx = NoPrx
  NoHost = NoHost
  NoServer = NoServer
  Challenge = {1}
  Protos = {"qw"}
  MaxChallenges = 1
  Timeout = 1
  ResendAfter = 0
  QuietAfter = 1
  BanLists <- NobodyBanned
  Whitelists <- Unrestricted
  Limits = {1, 2}
  MaxUserid = 3
SPECIFICATION Spec
SYMMETRY Symmetry
INVARIANT TypeOK
INVARIANT OnePeerPerClient
INVARIANT NoSocketLeft
INVARIANT PeerLimit
INVARIANT RelayIsolation
