CONSTANTS
  Client = {c1, c2, c3, c4}
  NoAddr = NoAddr
  Challenge = {1, 2}
  Protos = {"qw", "q3"}
  MaxChallenges = 3
  Start = 1
  OldestTime = 100
  MaxTime = 3
SPECIFICATION HistorySpec
SYMMETRY Symmetry
INVARIANT TypeOK
INVARIANT OneSlotPerAddress
INVARIANT KeptForATableful
PROPERTY ImplementsStore
CHECK_DEADLOCK FALSE
