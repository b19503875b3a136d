CONSTANTS
  Str <- Strings
  Empty = ""
  Zero = "0"
  One = "1"
  Number = {"1"}
  Star <- SomeStar
  Unquotable <- SomeUnquotable
  Length <- Lengths
  Stripped <- Printed
  Folded <- LowerCase
  MaxKey = 6
  MaxInfo = 21
  Names <- SomeNames
  Values <- SomeValues
  Registered <- Variables
  NumBasic = 2
  Params = {"", "1"}
SPECIFICATION Spec
INVARIANT TypeOK
INVARIANT KeysUnique
INVARIANT InfoFits
PROPERTY ChangesMirrored
PROPERTY Protected
