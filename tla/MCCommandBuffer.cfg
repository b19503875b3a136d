CONSTANTS
  a = a
  b = b
  NL = NL
  Semi = Semi
  Quote = Quote
  Zero = Zero
  Char = {a, b, NL, Semi, Quote, Zero}
  MaxBuf = 8
  MaxLine = 4
  Inserted <- SomeInserted
  Added <- SomeAdded
  CopyOrders = {"up"}
SPECIFICATION Spec
INVARIANT TypeOK
INVARIANT EndsInNewline
PROPERTY ImplementsText
