CONSTANTS
  Width = 3
  Alphabet = {1, 2, 3, 7}
  MaxText = 7
SPECIFICATION Spec
INVARIANT StringArrives
INVARIANT HuffmanTree
