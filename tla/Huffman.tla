------------------------------- MODULE Huffman -------------------------------
(***************************************************************************)
(* The connect packet of q3: the proxy prints it in a message (clc.c),     *)
(* compresses it with an adaptive Huffman code (huff.c), and the other     *)
(* side, which is the proxy itself for the packets of clients (svc.c),     *)
(* expands it and reads the string.  Each side builds a tree of its own    *)
(* from the bytes it has seen; nothing but the bits and the length is      *)
(* sent.                                                                   *)
(*                                                                         *)
(* The tree lives in memory as nodes that point to each other: left,       *)
(* right and parent make the tree; next and prev a list of all nodes by    *)
(* frequency, lowest first; head points to a cell, shared by all nodes of  *)
(* one frequency, which holds the last of them in the list.                *)
(***************************************************************************)
EXTENDS Integers, FiniteSets, SequencesExt

CONSTANTS
  Width,    \* bits of a byte: 8
  Alphabet, \* bound of the model: the bytes that are printed
  MaxText   \* bound of the model: length of the string with its end

(* How many values k bits have.                                            *)
Power[k \in 0..Width] == IF k = 0 THEN 1 ELSE 2 * Power[k - 1]

NUL     == 0                    \* ends a string
Skipped == Power[Width] - 1     \* byte 255, which readers of strings skip
Byte    == 0..(Power[Width] - 1)

ASSUME HuffmanAssumption ==
  /\ Width \in Nat \ {0}
  /\ Alphabet \subseteq Byte \ {NUL}
  /\ MaxText \in Nat \ {0}

NotReferenced == Power[Width]      \* symbol of the node for all new bytes
NodeNext      == Power[Width] + 1  \* symbol of an inner node
Nil           == 0

VARIABLES
  stage,  \* "encrypt", "decrypt" or "read"
  text,   \* the bytes printed so far; in the end the message
  etree,  \* the tree of Huff_EncryptPacket
  wire,   \* the bits behind the length
  dtree,  \* the tree of Huff_DecryptPacket
  bitpos, \* huffBitPos of Huff_DecryptPacket, from the first bit behind the length
  plain   \* the bytes it has written

vars == <<stage, text, etree, wire, dtree, bitpos, plain>>

-----------------------------------------------------------------------------
(* The tree: the fields of its nodes, each a sequence of the nodes' values; *)
(* the cells and the first that is free; the root; the leaf of each byte.   *)
First == 1    \* tree[3]: the node for new bytes, which stays first in the list

Huff_PrepareTree ==
  [left |-> <<Nil>>, right |-> <<Nil>>, parent |-> <<Nil>>, next |-> <<Nil>>,
   prev |-> <<Nil>>, head |-> <<Nil>>, freq |-> <<0>>, symbol |-> <<NotReferenced>>,
   cells |-> <<>>, free |-> Nil, root |-> First,
   loc |-> [s \in Byte \cup {NotReferenced} |->
              IF s = NotReferenced THEN First ELSE Nil]]

(* Give node n a cell of its own: a freed one if there is one.             *)
Huff_GetNode(t, n) ==
  IF t.free = Nil
  THEN [t EXCEPT !.cells = Append(@, n), !.head[n] = Len(t.cells) + 1]
  ELSE [t EXCEPT !.free = t.cells[t.free], !.cells[t.free] = n, !.head[n] = t.free]

(* A free cell holds the next free one.                                    *)
Huff_DeleteNode(t, cell) == [t EXCEPT !.cells[cell] = t.free, !.free = cell]

(* Below parent p, `new' takes the place of `old'.                         *)
Child(t, p, old, new) ==
  IF p = Nil THEN [t EXCEPT !.root = new]
  ELSE IF t.left[p] = old THEN [t EXCEPT !.left[p] = new]
  ELSE [t EXCEPT !.right[p] = new]

(* Two nodes change places in the tree ...                                 *)
Huff_Swap(t, x, y) ==
  [Child(Child(t, t.parent[x], x, y), t.parent[y], y, x)
     EXCEPT !.parent[x] = t.parent[y], !.parent[y] = t.parent[x]]

(* ... and in the list.                                                    *)
LinkNext(t, n) == IF t.next[n] = Nil THEN t ELSE [t EXCEPT !.prev[t.next[n]] = n]

LinkPrev(t, n) == IF t.prev[n] = Nil THEN t ELSE [t EXCEPT !.next[t.prev[n]] = n]

Huff_SwapTrees(t, x, y) ==
  LET u == [t EXCEPT !.next[x] = IF t.next[y] = x THEN y ELSE t.next[y],
                     !.next[y] = IF t.next[x] = y THEN x ELSE t.next[x],
                     !.prev[x] = t.prev[y],
                     !.prev[y] = t.prev[x]]
  IN  LinkPrev(LinkPrev(LinkNext(LinkNext(u, x), y), x), y)

(* The neighbour m, if there is one, has the frequency of n.               *)
Alike(t, n, m) == m # Nil /\ t.freq[m] = t.freq[n]

Cell(t, n) == t.cells[t.head[n]]

(* n changes places with the last node of its frequency, but in the tree   *)
(* never with its own parent.                                              *)
ToTheFront(t, n) ==
  IF Alike(t, n, t.next[n])
  THEN LET last == Cell(t, n)
           u    == IF last = t.parent[n] THEN t ELSE Huff_Swap(t, last, n)
       IN  Huff_SwapTrees(u, last, n)
  ELSE t

(* n leaves its frequency to the node before it ...                        *)
MutLeaveCell(t, n) ==    \* mutant: the cell goes on holding n
  IF Alike(t, n, t.prev[n]) THEN t ELSE Huff_DeleteNode(t, t.head[n])

LeaveCell(t, n) ==
  IF Alike(t, n, t.prev[n])
  THEN [t EXCEPT !.cells[t.head[n]] = t.prev[n]]
  ELSE Huff_DeleteNode(t, t.head[n])

(* ... and takes part in the next one, or opens it.                        *)
EnterCell(t, n) ==
  IF Alike(t, n, t.next[n])
  THEN [t EXCEPT !.head[n] = t.head[t.next[n]]]
  ELSE Huff_GetNode(t, n)

Raise(t, n) == EnterCell([LeaveCell(ToTheFront(t, n), n) EXCEPT !.freq[n] = @ + 1], n)

(* A parent that its child n has caught up with comes behind it again.     *)
AfterParent(t, n) ==
  IF t.parent[n] = Nil \/ t.prev[n] # t.parent[n] THEN t
  ELSE LET p == t.parent[n]
           u == Huff_SwapTrees(t, n, p)
       IN  IF Cell(u, n) = n THEN [u EXCEPT !.cells[u.head[n]] = p] ELSE u

(* The recursion raises n, its parent and so on up to the root; on its way *)
(* back it puts each of them, last first, before its parent.               *)
Climb(c) ==
  IF c.node = Nil THEN c
  ELSE LET u == Raise(c.tree, c.node)
       IN  [tree |-> u, node |-> u.parent[c.node], stack |-> <<c.node>> \o c.stack]

ClimbUp(t, n) ==
  LET up[k \in 0..Len(t.symbol)] ==
        IF k = 0 THEN [tree |-> t, node |-> n, stack |-> <<>>] ELSE Climb(up[k - 1])
  IN  up[Len(t.symbol)]

ComeBack(c) ==
  LET down[k \in 0..Len(c.stack)] ==
        IF k = 0 THEN c.tree ELSE AfterParent(down[k - 1], c.stack[k])
  IN  down[Len(c.stack)]

Huff_IncrementFreq_r(t, n) == ComeBack(ClimbUp(t, n))

(* Put node n into the list, next to the first.  The code does this twice, *)
(* in the second place with a wrong cell where n opens a frequency; but    *)
(* there the next node is the one just put in, of the same frequency.      *)
AfterFirst(t, n) ==
  LET u == LinkNext([t EXCEPT !.next[n] = t.next[First], !.prev[n] = First], n)
  IN  [EnterCell(u, n) EXCEPT !.next[First] = n]

(* A new byte makes two nodes: a leaf, and an inner node that takes the    *)
(* place of the node for new bytes and has both below it.                  *)
NewByte(t, ch) ==
  LET b    == Len(t.symbol) + 1
      a    == b + 1
      top  == t.parent[First]
      made == [t EXCEPT !.left   = @ \o <<Nil, First>>,
                        !.right  = @ \o <<Nil, b>>,
                        !.parent = @ \o <<a, top>>,
                        !.next   = @ \o <<Nil, Nil>>,
                        !.prev   = @ \o <<Nil, Nil>>,
                        !.head   = @ \o <<Nil, Nil>>,
                        !.freq   = @ \o <<1, 1>>,
                        !.symbol = @ \o <<ch, NodeNext>>]
      u    == Child(AfterFirst(AfterFirst(made, a), b), top, First, a)
  IN  Huff_IncrementFreq_r([u EXCEPT !.parent[First] = a, !.loc[ch] = b], top)

Huff_AddReference(t, ch) ==
  IF t.loc[ch] # Nil THEN Huff_IncrementFreq_r(t, t.loc[ch]) ELSE NewByte(t, ch)

-----------------------------------------------------------------------------
(* Bits.                                                                   *)

(* The nodes from n on along the pointers f, for `size' steps.              *)
Along(f, n, size) ==
  LET walk[k \in 0..size] ==
        IF k = 0 THEN n ELSE LET m == walk[k - 1] IN IF m = Nil THEN Nil ELSE f[m]
  IN  [i \in 1..(size + 1) |-> walk[i - 1]]

(* The way from the root down to n, found on the way up.                   *)
Huff_EmitPathToByte(t, n) ==
  LET up    == Along(t.parent, n, Len(t.symbol))
      depth == CHOOSE k \in 0..Len(t.symbol) : up[k + 1] = t.root
  IN  [i \in 1..depth |-> IF t.right[up[depth - i + 2]] = up[depth - i + 1] THEN 1 ELSE 0]

(* Most significant bit first.                                             *)
Bits(value) ==
  LET shifted[k \in 0..Width] == IF k = 0 THEN value ELSE shifted[k - 1] \div 2
  IN  [i \in 1..Width |-> shifted[Width - i] % 2]

Huff_EmitByteDynamic(t, value) ==
  IF t.loc[value] # Nil THEN Huff_EmitPathToByte(t, t.loc[value])
  ELSE Huff_EmitPathToByte(t, t.loc[NotReferenced]) \o Bits(value)

(* Walk down from the root along the bits behind pos: the symbol of the    *)
(* leaf, and how far it took.                                              *)
Below(t, n, bit) ==
  IF t.symbol[n] # NodeNext THEN n ELSE IF bit = 0 THEN t.left[n] ELSE t.right[n]

Huff_GetByteFromTree(t, bits, pos) ==
  LET size == Len(t.symbol)
      node[k \in 0..size] == IF k = 0 THEN t.root ELSE Below(t, node[k - 1], bits[pos + k])
      steps == CHOOSE k \in 0..size : /\ t.symbol[node[k]] # NodeNext
                                      /\ \A j \in 0..(k - 1) : t.symbol[node[j]] = NodeNext
  IN  [symbol |-> t.symbol[node[steps]], pos |-> pos + steps]

Value(bits) ==
  LET value[k \in 0..Width] == IF k = 0 THEN 0 ELSE 2 * value[k - 1] + bits[k]
  IN  value[Width]

-----------------------------------------------------------------------------
(* The proxy prints a string without NUL and its end, and compresses it,   *)
(* byte by byte.                                                           *)
Printable(c) == c \in {NUL} \cup (IF Len(text) < MaxText - 1 THEN Alphabet ELSE {})

EncryptByte(c) ==
  /\ stage = "encrypt"
  /\ Printable(c)
  /\ text' = Append(text, c)
  /\ wire' = wire \o Huff_EmitByteDynamic(etree, c)
  /\ etree' = Huff_AddReference(etree, c)
  /\ stage' = IF c = NUL THEN "decrypt" ELSE stage
  /\ UNCHANGED <<dtree, bitpos, plain>>

(* Bytes behind the offset that Huff_EncryptPacket sends: two of length    *)
(* and those of the bits, with one more when the last one is full.         *)
InLen == 2 + Len(wire) \div Width + 1

(* One turn of the loop of Huff_DecryptPacket.  Where the test of the end  *)
(* of the packet fails the code gives up; here it would be stuck.          *)
MutDecryptByte ==    \* mutant: the tree only learns the bytes that came raw
  /\ stage = "decrypt"
  /\ Len(plain) < Len(text)
  /\ 2 + bitpos \div Width <= InLen
  /\ LET leaf == Huff_GetByteFromTree(dtree, wire, bitpos)
         raw  == leaf.symbol = NotReferenced
         ch   == IF raw THEN Value(SubSeq(wire, leaf.pos + 1, leaf.pos + Width))
                        ELSE leaf.symbol
     IN  /\ plain' = Append(plain, ch)
         /\ bitpos' = IF raw THEN leaf.pos + Width ELSE leaf.pos
         /\ dtree' = IF raw THEN Huff_AddReference(dtree, ch) ELSE dtree
  /\ UNCHANGED <<stage, text, etree, wire>>

DecryptByte ==
  /\ stage = "decrypt"
  /\ Len(plain) < Len(text)
  /\ 2 + bitpos \div Width <= InLen
  /\ LET leaf == Huff_GetByteFromTree(dtree, wire, bitpos)
         raw  == leaf.symbol = NotReferenced
         ch   == IF raw THEN Value(SubSeq(wire, leaf.pos + 1, leaf.pos + Width))
                        ELSE leaf.symbol
     IN  /\ plain' = Append(plain, ch)
         /\ bitpos' = IF raw THEN leaf.pos + Width ELSE leaf.pos
         /\ dtree' = Huff_AddReference(dtree, ch)
  /\ UNCHANGED <<stage, text, etree, wire>>

(* As many bytes as the length says.                                       *)
DecryptDone ==
  /\ stage = "decrypt"
  /\ Len(plain) = Len(text)
  /\ stage' = "read"
  /\ UNCHANGED <<text, etree, wire, dtree, bitpos, plain>>

(* What is read of the message m: up to its first NUL.                     *)
MSG_ReadString(m) ==
  LET end == SelectInSeq(m, LAMBDA c : c = NUL)
      str == IF end = 0 THEN m ELSE SubSeq(m, 1, end - 1)
  IN  SelectSeq(str, LAMBDA c : c # Skipped)

Init ==
  /\ stage = "encrypt"
  /\ text = <<>> /\ wire = <<>> /\ plain = <<>>
  /\ bitpos = 0
  /\ etree = Huff_PrepareTree
  /\ dtree = Huff_PrepareTree

(* Every packet begins with new trees.                                     *)
NextPacket ==
  /\ stage = "read"
  /\ stage' = "encrypt"
  /\ text' = <<>> /\ wire' = <<>> /\ plain' = <<>>
  /\ bitpos' = 0
  /\ etree' = Huff_PrepareTree
  /\ dtree' = Huff_PrepareTree

Next ==
  \/ \E c \in Byte : EncryptByte(c)
  \/ DecryptByte
  \/ DecryptDone
  \/ NextPacket

Spec == Init /\ [][Next]_vars

-----------------------------------------------------------------------------
(* The bytes expanded so far are the first of those compressed, and in the *)
(* end the reader has the string that was printed, but for bytes 255,      *)
(* although the two trees were built apart (Huff_EncryptPacket,            *)
(* Huff_DecryptPacket, MSG_ReadString).                                    *)
StringArrives ==
  /\ IsPrefix(plain, text)
  /\ stage = "read" =>
       MSG_ReadString(plain) = SelectSeq(Front(text), LAMBDA c : c # Skipped)

(* What Huff_IncrementFreq_r relies on: the list has all nodes, from the   *)
(* lowest frequency to the highest; nodes share a cell when their          *)
(* frequencies are equal, and it holds the last of them; no cell is both   *)
(* used and free, or neither.                                              *)
InOrder(t) ==
  LET size == Len(t.symbol)
      list == Along(t.next, First, size - 1)
      free == ToSet(Along(t.cells, t.free, Len(t.cells))) \ {Nil}
      used == {t.head[n] : n \in 2..size}
  IN  /\ ToSet(list) = 1..size
      /\ \A i \in 2..size :
           /\ t.prev[list[i]] = list[i - 1]
           /\ t.freq[list[i - 1]] <= t.freq[list[i]]
           /\ \E j \in i..size :
                /\ list[j] = Cell(t, list[i])
                /\ t.freq[list[j]] = t.freq[list[i]]
                /\ j < size => t.freq[list[j + 1]] # t.freq[list[j]]
      /\ \A m, n \in 2..size : t.freq[m] = t.freq[n] <=> t.head[m] = t.head[n]
      /\ used \cap free = {} /\ used \cup free = DOMAIN t.cells

(* The trees are in order after each byte, whatever the bytes              *)
(* (Huff_AddReference, Huff_IncrementFreq_r).                              *)
TreesInOrder == InOrder(etree) /\ InOrder(dtree)

(* The code is as short as any for the bytes seen: the length of all of    *)
(* them, coded with the tree as it is, is that of a tree built by merging  *)
(* the two rarest over and over, which is the definition of a Huffman code.*)
MergeTwo(m) ==
  LET w    == m.weights[1] + m.weights[2]
      rest == SubSeq(m.weights, 3, Len(m.weights))
      k    == Len(SelectSeq(rest, LAMBDA v : v < w))
  IN  [weights |-> InsertAt(rest, k + 1, w), cost |-> m.cost + w]

Merged(weights) ==    \* the cost of a Huffman code for a sorted sequence
  LET merge[k \in 0..(Len(weights) - 1)] ==
        IF k = 0 THEN [weights |-> weights, cost |-> 0] ELSE MergeTwo(merge[k - 1])
  IN  merge[Len(weights) - 1].cost

Leaves(t) == {n \in DOMAIN t.symbol : t.symbol[n] # NodeNext}

Cost(t) ==
  FoldLeft(LAMBDA sum, n : sum + t.freq[n] * Len(Huff_EmitPathToByte(t, n)),
           0, SetToSeq(Leaves(t)))

Count(c) == Len(SelectSeq(text, LAMBDA d : d = c))

Optimal(t) ==
  LET seen   == SetToSeq(ToSet(text))
      counts == [i \in DOMAIN seen |-> Count(seen[i])]
  IN  Cost(t) = Merged(<<0>> \o SortSeq(counts, <))

(* The trees are Huffman trees after each byte: their lists are in order   *)
(* and the code as short as any (Huff_AddReference, Huff_IncrementFreq_r). *)
HuffmanTree == TreesInOrder /\ Optimal(etree)
=============================================================================
