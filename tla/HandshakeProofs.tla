---------------------------- MODULE HandshakeProofs ----------------------------
(***************************************************************************)
(* The two parts of the handshake of a q3 client that svc.c has memory     *)
(* for: the code of its connect packet, and the table of challenges.       *)
(*                                                                         *)
(* The string of a connect packet arrives whatever it is (Huffman).  Both  *)
(* sides go through the same trees, so that the reader undoes what the     *)
(* writer did, byte by byte: Alternation.  That a byte is read from its    *)
(* own bits needs the form of the tree: Stable, between two bytes; and     *)
(* Growing, Climbing, Descending, while Huff_IncrementFreq_r repairs it    *)
(* node by node.                                                           *)
(*                                                                         *)
(* The array of challenges implements ChallengeStore, for any number of    *)
(* slots and addresses (ChallengeTable).  The inductive invariant is what  *)
(* makes the scan from the front mean something: an address has one slot,  *)
(* and unused slots are the oldest.  How many others came since an address *)
(* was new (ChallengeHistory) bounds how many slots are no older than its. *)
(***************************************************************************)
EXTENDS ChallengeHistory, Huffman, ListProofs, FunctionTheorems

(* What Power computes.                                                    *)
LEMMA PowerSteps ==
  ASSUME HuffmanAssumption
  PROVE  /\ \A k \in 0..Width : Power[k] \in Nat \ {0}
         /\ Power[0] = 1
         /\ \A k \in 1..Width : Power[k] = 2 * Power[k - 1]
<1> DEFINE first == 1
           S == Nat \ {0}
           Step == [p \in S \X (1..Width) |-> 2 * p[1]]
           IsPower(g) == g = [k \in 0..Width |-> IF k = 0 THEN 1 ELSE 2 * g[k - 1]]
<1>1. Width \in Nat /\ first \in S
  BY HuffmanAssumption DEF HuffmanAssumption
<1>2. Step \in [S \X (1..Width) -> S]
  OBVIOUS
<1> HIDE DEF Step, first, S
<1>3. PICK f : Iterates(f, S, first, Width, Step)
  BY <1>1, <1>2, RecursionTo
<1> USE DEF Step, first, S, Iterates
<1>4. ASSUME NEW k \in 1..Width
      PROVE  f[k] = 2 * f[k - 1]
  <2>1. f[k - 1] \in S
    BY <1>1, <1>3
  <2> QED BY <2>1, <1>3
<1>5. IsPower(f)
  <2>1. ASSUME NEW k \in 0..Width
        PROVE  f[k] = IF k = 0 THEN 1 ELSE 2 * f[k - 1]
    <3>1. k # 0 => k \in 1..Width
      BY <1>1
    <3> QED BY <1>3, <1>4, <3>1
  <2>2. f = [k \in 0..Width |-> f[k]]
    BY <1>3
  <2> QED BY <2>1, <2>2
<1>6. Power = CHOOSE g : IsPower(g)
  BY DEF Power
<1>7. IsPower(Power)
  <2> HIDE DEF IsPower
  <2> QED BY <1>5, <1>6
<1>8. Power = [k \in 0..Width |-> IF k = 0 THEN 1 ELSE 2 * Power[k - 1]]
  BY <1>7
<1>9. Power[0] = 1
  BY <1>1, <1>8
<1>10. \A k \in 1..Width : Power[k] = 2 * Power[k - 1]
  BY <1>1, <1>8
<1> DEFINE T == {k \in 0..Width : Power[k] \in Nat \ {0}}
<1>11. 0 \in T
  BY <1>1, <1>9
<1>12. \A k \in 1..Width : k - 1 \in T => k \in T
  BY <1>1, <1>10
<1>13. \A k \in 0..Width : k \in T
  <2> HIDE DEF T
  <2> QED BY <1>1, <1>11, <1>12, InductionTo
<1> QED BY <1>9, <1>10, <1>13

(* The symbols of the two special nodes are no bytes, and differ.          *)
LEMMA SymbolsDiffer ==
  ASSUME HuffmanAssumption
  PROVE  /\ Power[Width] \in Nat \ {0} /\ Byte = 0..(Power[Width] - 1)
         /\ NotReferenced # NodeNext /\ NotReferenced \notin Byte /\ NodeNext \notin Byte
         /\ NotReferenced \in Nat /\ NodeNext \in Nat
<1>1. Power[Width] \in Nat \ {0}
  BY PowerSteps DEF HuffmanAssumption
<1> QED BY <1>1 DEF Byte, NotReferenced, NodeNext

-----------------------------------------------------------------------------
(* The types of a tree of N nodes.                                         *)
Pointers(N) == [1..N -> 0..N]

TreeOf(N) ==
  [left : Pointers(N), right : Pointers(N), parent : Pointers(N),
   next : Pointers(N), prev : Pointers(N), head : [1..N -> Nat],
   freq : [1..N -> Nat], symbol : [1..N -> Nat], cells : Seq(Nat), free : Nat,
   root : 0..N, loc : [Byte \cup {NotReferenced} -> 0..N]]

(* Two trees of nodes that agree in some of the fields.                    *)
SameTree(t, u) ==
  t.left = u.left /\ t.right = u.right /\ t.parent = u.parent /\ t.root = u.root

SameList(t, u) == t.next = u.next /\ t.prev = u.prev

SameCells(t, u) == t.head = u.head /\ t.cells = u.cells /\ t.free = u.free

SameBytes(t, u) == t.symbol = u.symbol /\ t.loc = u.loc

(* pos[n] is the place of node n in the list.                              *)
Order(next, prev, N, pos) ==
  \A n \in 1..N :
    /\ pos[n] \in 1..N
    /\ \A m \in 1..N : pos[m] = pos[n] => m = n
    /\ next[n] \in 0..N /\ prev[n] \in 0..N
    /\ next[n] = Nil <=> pos[n] = N
    /\ next[n] # Nil => pos[next[n]] = pos[n] + 1
    /\ prev[n] = Nil <=> pos[n] = 1
    /\ prev[n] # Nil => pos[prev[n]] = pos[n] - 1

(* The list of a tree has the nodes at these places.                       *)
InList(t, N, pos) == Order(t.next, t.prev, N, pos)

(* A tree with other pointers in its list.                                 *)
OnlyListed(t, u) ==
  SameTree(t, u) /\ SameCells(t, u) /\ SameBytes(t, u) /\ t.freq = u.freq

(* The same tree with the pointers f and g in its list.                    *)
Relink(t, f, g) == [t EXCEPT !.next = f, !.prev = g]

(* Only the list is another.                                               *)
LEMMA Relinked ==
  ASSUME NEW N \in Nat, NEW t \in TreeOf(N),
         NEW f \in Pointers(N), NEW g \in Pointers(N)
  PROVE  /\ Relink(t, f, g) \in TreeOf(N) /\ OnlyListed(Relink(t, f, g), t)
         /\ Relink(t, f, g).next = f /\ Relink(t, f, g).prev = g
BY DEF Relink, TreeOf, OnlyListed, SameTree, SameCells, SameBytes

(* Changes of the list add up to changes of the list.                      *)
LEMMA ListedAgain ==
  ASSUME NEW t, NEW u, NEW v, OnlyListed(t, u), OnlyListed(u, v)
  PROVE  OnlyListed(t, v)
BY DEF OnlyListed, SameTree, SameCells, SameBytes

(* The node after n points back to n ...                                   *)
LEMMA LinkNextIs ==
  ASSUME NEW N \in Nat, NEW t \in TreeOf(N), NEW n \in 1..N
  PROVE  /\ LinkNext(t, n) \in TreeOf(N) /\ OnlyListed(LinkNext(t, n), t)
         /\ LinkNext(t, n).next = t.next
         /\ \A m \in 1..N : LinkNext(t, n).prev[m] =
              IF t.next[n] # Nil /\ m = t.next[n] THEN n ELSE t.prev[m]
<1>1. CASE t.next[n] = Nil
  BY <1>1 DEF LinkNext, OnlyListed, SameTree, SameCells, SameBytes
<1>2. CASE t.next[n] # Nil
  <2> DEFINE g == [t.prev EXCEPT ![t.next[n]] = n]
  <2>1. t.next \in Pointers(N) /\ t.prev \in Pointers(N)
    BY DEF TreeOf
  <2>2. t.next[n] \in 1..N
    BY <1>2, <2>1 DEF Nil, Pointers
  <2>3. g \in Pointers(N) /\ \A m \in 1..N : g[m] = IF m = t.next[n] THEN n ELSE t.prev[m]
    BY <2>1, <2>2 DEF Pointers
  <2>4. LinkNext(t, n) = Relink(t, t.next, g)
    BY <1>2 DEF LinkNext, Relink, TreeOf
  <2> HIDE DEF g
  <2>5. g \in Pointers(N)
    BY <2>3
  <2>6. /\ Relink(t, t.next, g) \in TreeOf(N) /\ OnlyListed(Relink(t, t.next, g), t)
        /\ Relink(t, t.next, g).next = t.next /\ Relink(t, t.next, g).prev = g
    BY <2>1, <2>5, Relinked
  <2>7. /\ LinkNext(t, n) \in TreeOf(N) /\ OnlyListed(LinkNext(t, n), t)
        /\ LinkNext(t, n).next = t.next /\ LinkNext(t, n).prev = g
    BY <2>4, <2>6
  <2> QED
    BY <1>2, <2>3, <2>7
<1> QED BY <1>1, <1>2

(* ... and the node before n on to n.                                      *)
LEMMA LinkPrevIs ==
  ASSUME NEW N \in Nat, NEW t \in TreeOf(N), NEW n \in 1..N
  PROVE  /\ LinkPrev(t, n) \in TreeOf(N) /\ OnlyListed(LinkPrev(t, n), t)
         /\ LinkPrev(t, n).prev = t.prev
         /\ \A m \in 1..N : LinkPrev(t, n).next[m] =
              IF t.prev[n] # Nil /\ m = t.prev[n] THEN n ELSE t.next[m]
<1>1. CASE t.prev[n] = Nil
  BY <1>1 DEF LinkPrev, OnlyListed, SameTree, SameCells, SameBytes
<1>2. CASE t.prev[n] # Nil
  <2> DEFINE f == [t.next EXCEPT ![t.prev[n]] = n]
  <2>1. t.next \in Pointers(N) /\ t.prev \in Pointers(N)
    BY DEF TreeOf
  <2>2. t.prev[n] \in 1..N
    BY <1>2, <2>1 DEF Nil, Pointers
  <2>3. f \in Pointers(N) /\ \A m \in 1..N : f[m] = IF m = t.prev[n] THEN n ELSE t.next[m]
    BY <2>1, <2>2 DEF Pointers
  <2>4. LinkPrev(t, n) = Relink(t, f, t.prev)
    BY <1>2 DEF LinkPrev, Relink, TreeOf
  <2> HIDE DEF f
  <2>5. f \in Pointers(N)
    BY <2>3
  <2>6. /\ Relink(t, f, t.prev) \in TreeOf(N) /\ OnlyListed(Relink(t, f, t.prev), t)
        /\ Relink(t, f, t.prev).next = f /\ Relink(t, f, t.prev).prev = t.prev
    BY <2>1, <2>5, Relinked
  <2>7. /\ LinkPrev(t, n) \in TreeOf(N) /\ OnlyListed(LinkPrev(t, n), t)
        /\ LinkPrev(t, n).next = f /\ LinkPrev(t, n).prev = t.prev
    BY <2>4, <2>6
  <2> QED
    BY <1>2, <2>3, <2>7
<1> QED BY <1>1, <1>2

(* Huff_SwapTrees begins with x and y taking each other's neighbours.      *)
Crossed(t, x, y) ==
  [t EXCEPT !.next[x] = IF t.next[y] = x THEN y ELSE t.next[y],
            !.next[y] = IF t.next[x] = y THEN x ELSE t.next[x],
            !.prev[x] = t.prev[y],
            !.prev[y] = t.prev[x]]

(* What that does to next and prev.                                        *)
LEMMA CrossedIs ==
  ASSUME NEW N \in Nat, NEW t \in TreeOf(N), NEW x \in 1..N, NEW y \in 1..N, x # y
  PROVE  LET u == Crossed(t, x, y)
         IN  /\ u \in TreeOf(N) /\ OnlyListed(u, t)
             /\ \A n \in 1..N :
                  /\ u.next[n] = IF n = x THEN IF t.next[y] = x THEN y ELSE t.next[y]
                                 ELSE IF n = y THEN IF t.next[x] = y THEN x ELSE t.next[x]
                                 ELSE t.next[n]
                  /\ u.prev[n] = IF n = x THEN t.prev[y]
                                 ELSE IF n = y THEN t.prev[x] ELSE t.prev[n]
<1> DEFINE vx == IF t.next[y] = x THEN y ELSE t.next[y]
           vy == IF t.next[x] = y THEN x ELSE t.next[x]
           f == [t.next EXCEPT ![x] = vx, ![y] = vy]
           g == [t.prev EXCEPT ![x] = t.prev[y], ![y] = t.prev[x]]
<1>1. t.next \in Pointers(N) /\ t.prev \in Pointers(N)
  BY DEF TreeOf
<1>2. vx \in 0..N /\ vy \in 0..N
  BY <1>1 DEF Pointers
<1>3. Crossed(t, x, y) = Relink(t, f, g)
  BY DEF Crossed, Relink, TreeOf
<1>4. SUFFICES LET u == Relink(t, f, g)
               IN /\ u \in TreeOf(N) /\ OnlyListed(u, t)
                  /\ \A n \in 1..N :
                       /\ u.next[n] = IF n = x THEN vx ELSE IF n = y THEN vy ELSE t.next[n]
                       /\ u.prev[n] = IF n = x THEN t.prev[y]
                                      ELSE IF n = y THEN t.prev[x] ELSE t.prev[n]
  BY <1>3
<1> HIDE DEF vx, vy
<1>5. /\ f \in Pointers(N)
      /\ \A n \in 1..N : f[n] = IF n = x THEN vx ELSE IF n = y THEN vy ELSE t.next[n]
  BY <1>1, <1>2 DEF Pointers
<1>6. /\ g \in Pointers(N)
      /\ \A n \in 1..N : g[n] = IF n = x THEN t.prev[y]
                                ELSE IF n = y THEN t.prev[x] ELSE t.prev[n]
  BY <1>1 DEF Pointers
<1> HIDE DEF f, g
<1>7. LET u == Relink(t, f, g)
      IN u \in TreeOf(N) /\ OnlyListed(u, t) /\ u.next = f /\ u.prev = g
  BY <1>5, <1>6, Relinked
<1> QED
  BY <1>5, <1>6, <1>7

(* The places after x and y have changed theirs.                           *)
Exchanged(pos, N, x, y) ==
  [n \in 1..N |-> IF n = x THEN pos[y] ELSE IF n = y THEN pos[x] ELSE pos[n]]

(* A list in which x and y stand for each other is a list again, with      *)
(* their places exchanged.  It takes care when they are neighbours, whose  *)
(* pointers would else point to themselves.                                *)
LEMMA OrderExchanged ==
  ASSUME NEW N \in Nat, NEW next, NEW prev, NEW pos, Order(next, prev, N, pos),
         NEW x \in 1..N, NEW y \in 1..N, pos[y] < pos[x], NEW next2, NEW prev2, NEW pos2,
         \A n \in 1..N : next2[n] = IF n = x THEN IF next[y] = x THEN y ELSE next[y]
                                    ELSE IF n = y THEN next[x]
                                    ELSE IF n = prev[y] THEN x
                                    ELSE IF n = prev[x] THEN y ELSE next[n],
         \A n \in 1..N : prev2[n] = IF n = y THEN IF prev[x] = y THEN x ELSE prev[x]
                                    ELSE IF n = x THEN prev[y]
                                    ELSE IF n = next[x] THEN y
                                    ELSE IF n = next[y] THEN x ELSE prev[n],
         \A n \in 1..N : pos2[n] = IF n = x THEN pos[y] ELSE IF n = y THEN pos[x] ELSE pos[n]
  PROVE  Order(next2, prev2, N, pos2)
<1>2. \A n \in 1..N : pos[n] \in 1..N
  BY DEF Order
<1>1. x # y
  BY <1>2
<1>3. \A m \in 1..N, n \in 1..N : pos[m] = pos[n] => m = n
  BY DEF Order
<1>4. \A n \in 1..N : next[n] \in 0..N /\ prev[n] \in 0..N
  BY DEF Order
<1>5. \A n \in 1..N : next[n] = 0 <=> pos[n] = N
  BY DEF Order, Nil
<1>6. \A n \in 1..N : next[n] # 0 => pos[next[n]] = pos[n] + 1
  BY DEF Order, Nil
<1>7. \A n \in 1..N : prev[n] = 0 <=> pos[n] = 1
  BY DEF Order, Nil
<1>8. \A n \in 1..N : prev[n] # 0 => pos[prev[n]] = pos[n] - 1
  BY DEF Order, Nil
<1>10. SUFFICES ASSUME NEW n \in 1..N
       PROVE  /\ pos2[n] \in 1..N
              /\ \A m \in 1..N : pos2[m] = pos2[n] => m = n
              /\ next2[n] \in 0..N /\ prev2[n] \in 0..N
              /\ next2[n] = 0 <=> pos2[n] = N
              /\ next2[n] # 0 => pos2[next2[n]] = pos2[n] + 1
              /\ prev2[n] = 0 <=> pos2[n] = 1
              /\ prev2[n] # 0 => pos2[prev2[n]] = pos2[n] - 1
  BY DEF Order, Nil
<1>11. pos2[n] \in 1..N
  BY <1>2
<1>12. \A m \in 1..N : pos2[m] = pos2[n] => m = n
  BY <1>3
<1>13. next2[n] \in 0..N /\ prev2[n] \in 0..N
  BY <1>4
<1>14. /\ next2[n] = 0 <=> pos2[n] = N
       /\ next2[n] # 0 => pos2[next2[n]] = pos2[n] + 1
  <2>1. CASE n = x
    BY <2>1, <1>1, <1>2, <1>3, <1>4, <1>5, <1>6
  <2>2. CASE n = y
    BY <2>2, <1>1, <1>2, <1>3, <1>4, <1>5, <1>6
  <2>3. CASE n # x /\ n # y /\ n = prev[y]
    BY <2>3, <1>1, <1>2, <1>3, <1>4, <1>5, <1>6, <1>7, <1>8
  <2>4. CASE n # x /\ n # y /\ n # prev[y] /\ n = prev[x]
    BY <2>4, <1>1, <1>2, <1>3, <1>4, <1>5, <1>6, <1>7, <1>8
  <2>5. CASE n # x /\ n # y /\ n # prev[y] /\ n # prev[x]
    <3>1. next2[n] = next[n] /\ pos2[n] = pos[n]
      BY <2>5, <1>2
    <3>2. next[n] # 0 => next[n] # x /\ next[n] # y
      BY <2>5, <1>2, <1>3, <1>4, <1>6, <1>7, <1>8
    <3> QED BY <3>1, <3>2, <1>2, <1>4, <1>5, <1>6
  <2> QED BY <2>1, <2>2, <2>3, <2>4, <2>5
<1>15. /\ prev2[n] = 0 <=> pos2[n] = 1
       /\ prev2[n] # 0 => pos2[prev2[n]] = pos2[n] - 1
  <2>1. CASE n = x
    BY <2>1, <1>1, <1>2, <1>3, <1>4, <1>7, <1>8
  <2>2. CASE n = y
    BY <2>2, <1>1, <1>2, <1>3, <1>4, <1>7, <1>8
  <2>3. CASE n # x /\ n # y /\ n = next[x]
    BY <2>3, <1>1, <1>2, <1>3, <1>4, <1>5, <1>6, <1>7, <1>8
  <2>4. CASE n # x /\ n # y /\ n # next[x] /\ n = next[y]
    BY <2>4, <1>1, <1>2, <1>3, <1>4, <1>5, <1>6, <1>7, <1>8
  <2>5. CASE n # x /\ n # y /\ n # next[x] /\ n # next[y]
    <3>1. prev2[n] = prev[n] /\ pos2[n] = pos[n]
      BY <2>5, <1>2
    <3>2. prev[n] # 0 => prev[n] # x /\ prev[n] # y
      BY <2>5, <1>2, <1>3, <1>4, <1>5, <1>6, <1>8
    <3> QED BY <3>1, <3>2, <1>2, <1>4, <1>7, <1>8
  <2> QED BY <2>1, <2>2, <2>3, <2>4, <2>5
<1> QED BY <1>11, <1>12, <1>13, <1>14, <1>15

(* Huff_SwapTrees exchanges the places of x and y and changes nothing but  *)
(* the list.                                                               *)
LEMMA SwapTreesIs ==
  ASSUME NEW N \in Nat, NEW t \in TreeOf(N), NEW pos, InList(t, N, pos),
         NEW x \in 1..N, NEW y \in 1..N, pos[y] < pos[x]
  PROVE  /\ Huff_SwapTrees(t, x, y) \in TreeOf(N)
         /\ OnlyListed(Huff_SwapTrees(t, x, y), t)
         /\ InList(Huff_SwapTrees(t, x, y), N, Exchanged(pos, N, x, y))
<1> DEFINE u1 == Crossed(t, x, y)
           u2 == LinkNext(u1, x)
           u3 == LinkNext(u2, y)
           u4 == LinkPrev(u3, x)
           u5 == LinkPrev(u4, y)
           next == t.next
           prev == t.prev
<1>1. Huff_SwapTrees(t, x, y) = u5
  BY DEF Huff_SwapTrees, Crossed
<1>2. /\ \A n \in 1..N : pos[n] \in 1..N
      /\ \A m \in 1..N, n \in 1..N : pos[m] = pos[n] => m = n
  BY DEF InList, Order
<1>3. /\ \A n \in 1..N : next[n] \in 0..N /\ prev[n] \in 0..N
      /\ \A n \in 1..N : next[n] # 0 => pos[next[n]] = pos[n] + 1
      /\ \A n \in 1..N : prev[n] # 0 => pos[prev[n]] = pos[n] - 1
      /\ \A n \in 1..N : next[n] = 0 <=> pos[n] = N
      /\ \A n \in 1..N : prev[n] = 0 <=> pos[n] = 1
  BY DEF InList, Order, Nil
<1>4. x # y
  BY <1>2
<1>5. /\ next[x] # y /\ prev[y] # x
      /\ next[y] \in 1..N /\ prev[x] \in 1..N
      /\ next[y] = x <=> prev[x] = y
      /\ next[x] # x /\ next[y] # y /\ prev[x] # x /\ prev[y] # y
      /\ next[x] # 0 => next[x] # next[y]
      /\ prev[y] # 0 => prev[y] # prev[x]
  <2>1. pos[x] \in 1..N /\ pos[y] \in 1..N /\ pos[y] < pos[x]
    BY <1>2
  <2>2. next[y] \in 1..N /\ prev[x] \in 1..N
    BY <1>3, <2>1
  <2>3. pos[next[y]] = pos[y] + 1 /\ pos[prev[x]] = pos[x] - 1
    BY <1>3, <2>1, <2>2
  <2>4. next[x] # 0 => next[x] \in 1..N /\ pos[next[x]] = pos[x] + 1
    BY <1>3
  <2>5. prev[y] # 0 => prev[y] \in 1..N /\ pos[prev[y]] = pos[y] - 1
    BY <1>3
  <2>6. next[y] = x <=> prev[x] = y
    BY <1>2, <2>1, <2>2, <2>3
  <2>7. next[x] # y /\ next[x] # x /\ (next[x] # 0 => next[x] # next[y])
    BY <2>1, <2>3, <2>4
  <2>8. prev[y] # x /\ prev[y] # y /\ (prev[y] # 0 => prev[y] # prev[x])
    BY <2>1, <2>3, <2>5
  <2>9. next[y] # y /\ prev[x] # x
    BY <2>1, <2>3
  <2> QED BY <2>2, <2>6, <2>7, <2>8, <2>9
<1> HIDE DEF u1
<1>11. /\ u1 \in TreeOf(N) /\ OnlyListed(u1, t)
       /\ \A n \in 1..N :
            /\ u1.next[n] = IF n = x THEN IF next[y] = x THEN y ELSE next[y]
                            ELSE IF n = y THEN IF next[x] = y THEN x ELSE next[x]
                            ELSE next[n]
            /\ u1.prev[n] = IF n = x THEN prev[y]
                            ELSE IF n = y THEN prev[x] ELSE prev[n]
  BY <1>4, CrossedIs DEF u1
<1> HIDE DEF u2
<1>12. /\ u2 \in TreeOf(N) /\ OnlyListed(u2, u1)
       /\ u2.next = u1.next
       /\ \A m \in 1..N : u2.prev[m] =
            IF u1.next[x] # Nil /\ m = u1.next[x] THEN x ELSE u1.prev[m]
  BY <1>11, LinkNextIs DEF u2
<1> HIDE DEF u3
<1>13. /\ u3 \in TreeOf(N) /\ OnlyListed(u3, u2)
       /\ u3.next = u2.next
       /\ \A m \in 1..N : u3.prev[m] =
            IF u2.next[y] # Nil /\ m = u2.next[y] THEN y ELSE u2.prev[m]
  BY <1>12, LinkNextIs DEF u3
<1> HIDE DEF u4
<1>14. /\ u4 \in TreeOf(N) /\ OnlyListed(u4, u3)
       /\ u4.prev = u3.prev
       /\ \A m \in 1..N : u4.next[m] =
            IF u3.prev[x] # Nil /\ m = u3.prev[x] THEN x ELSE u3.next[m]
  BY <1>13, LinkPrevIs DEF u4
<1> HIDE DEF u5
<1>15. /\ u5 \in TreeOf(N) /\ OnlyListed(u5, u4)
       /\ u5.prev = u4.prev
       /\ \A m \in 1..N : u5.next[m] =
            IF u4.prev[y] # Nil /\ m = u4.prev[y] THEN y ELSE u4.next[m]
  BY <1>14, LinkPrevIs DEF u5
<1>16. OnlyListed(u5, t)
  BY <1>11, <1>12, <1>13, <1>14, <1>15, ListedAgain
<1> HIDE DEF next, prev
<1>17. /\ u1.next[x] = IF next[y] = x THEN y ELSE next[y]
       /\ u1.next[y] = next[x]
       /\ u1.prev[x] = prev[y] /\ u1.prev[y] = prev[x]
  BY <1>4, <1>5, <1>11
<1>18. \A n \in 1..N : u3.prev[n] = IF n = y THEN IF prev[x] = y THEN x ELSE prev[x]
                                    ELSE IF n = x THEN prev[y]
                                    ELSE IF n = next[x] THEN y
                                    ELSE IF n = next[y] THEN x ELSE prev[n]
  <2>1. \A n \in 1..N : u2.prev[n] = IF n = u1.next[x] THEN x ELSE u1.prev[n]
    BY <1>12 DEF Nil
  <2>2. \A n \in 1..N : u3.prev[n] = IF n = next[x] THEN y ELSE u2.prev[n]
    BY <1>12, <1>13, <1>17 DEF Nil
  <2> QED BY <1>4, <1>5, <1>11, <1>17, <2>1, <2>2
<1>19. u3.prev[x] = prev[y] /\ u3.prev[y] = IF prev[x] = y THEN x ELSE prev[x]
  BY <1>4, <1>18
<1>20. \A n \in 1..N : u5.next[n] = IF n = x THEN IF next[y] = x THEN y ELSE next[y]
                                    ELSE IF n = y THEN next[x]
                                    ELSE IF n = prev[y] THEN x
                                    ELSE IF n = prev[x] THEN y ELSE next[n]
  <2>1. \A n \in 1..N : u4.next[n] = IF n = prev[y] THEN x ELSE u1.next[n]
    BY <1>12, <1>13, <1>14, <1>19 DEF Nil
  <2>2. \A n \in 1..N : u5.next[n] = IF n = u3.prev[y] THEN y ELSE u4.next[n]
    BY <1>14, <1>15, <1>19 DEF Nil
  <2> QED BY <1>4, <1>5, <1>11, <1>17, <1>19, <2>1, <2>2
<1>21. Order(next, prev, N, pos)
  BY DEF InList, next, prev
<1>22. \A n \in 1..N : Exchanged(pos, N, x, y)[n] =
         IF n = x THEN pos[y] ELSE IF n = y THEN pos[x] ELSE pos[n]
  BY DEF Exchanged
<1>23. Order(u5.next, u5.prev, N, Exchanged(pos, N, x, y))
  <2>1. \A n \in 1..N : u5.prev[n] = u3.prev[n]
    BY <1>14, <1>15
  <2> HIDE DEF Exchanged
  <2>2. \A n \in 1..N : u5.prev[n] = IF n = y THEN IF prev[x] = y THEN x ELSE prev[x]
                                    ELSE IF n = x THEN prev[y]
                                    ELSE IF n = next[x] THEN y
                                    ELSE IF n = next[y] THEN x ELSE prev[n]
    BY <1>18, <2>1
  <2> QED BY <1>20, <1>21, <1>22, <2>2, OrderExchanged
<1> QED BY <1>1, <1>15, <1>16, <1>23 DEF InList

-----------------------------------------------------------------------------
(* A tree of another form, of the same nodes.                              *)
OnlyShaped(t, u) ==
  SameList(t, u) /\ SameCells(t, u) /\ SameBytes(t, u) /\ t.freq = u.freq

(* The same nodes with the tree l, r, p below the root top.                *)
Reshape(t, l, r, p, top) ==
  [t EXCEPT !.left = l, !.right = r, !.parent = p, !.root = top]

(* A tree with this form.                                                  *)
HasShape(u, N, t, l, r, p, top) ==
  /\ u \in TreeOf(N) /\ OnlyShaped(u, t)
  /\ u.left = l /\ u.right = r /\ u.parent = p /\ u.root = top

(* Only the form is another.                                               *)
LEMMA Reshaped ==
  ASSUME NEW N \in Nat, NEW t \in TreeOf(N), NEW l \in Pointers(N), NEW r \in Pointers(N),
         NEW p \in Pointers(N), NEW top \in 0..N
  PROVE  HasShape(Reshape(t, l, r, p, top), N, t, l, r, p, top)
BY DEF HasShape, Reshape, TreeOf, OnlyShaped, SameList, SameCells, SameBytes

(* Changes of the form add up to changes of the form.                      *)
LEMMA ShapedAgain ==
  ASSUME NEW t, NEW u, NEW v, OnlyShaped(t, u), OnlyShaped(u, v)
  PROVE  OnlyShaped(t, v)
BY DEF OnlyShaped, SameList, SameCells, SameBytes

(* Below p, y stands where x stood; the parents are those of before.       *)
HasChild(u, N, t, p, x, y) ==
  /\ u \in TreeOf(N) /\ OnlyShaped(u, t) /\ u.parent = t.parent
  /\ u.root = IF p = Nil THEN y ELSE t.root
  /\ \A m \in 1..N : /\ u.left[m] = IF m = p /\ t.left[p] = x THEN y ELSE t.left[m]
                     /\ u.right[m] = IF m = p /\ t.left[p] # x THEN y ELSE t.right[m]

(* What Child does to the form.                                            *)
LEMMA ChildIs ==
  ASSUME NEW N \in Nat, NEW t \in TreeOf(N), NEW p \in 0..N, NEW x \in 1..N, NEW y \in 1..N
  PROVE  HasChild(Child(t, p, x, y), N, t, p, x, y)
<1>1. /\ t.left \in Pointers(N) /\ t.right \in Pointers(N)
      /\ t.parent \in Pointers(N) /\ t.root \in 0..N
  BY DEF TreeOf
<1>2. CASE p = Nil
  <2>1. Child(t, p, x, y) = Reshape(t, t.left, t.right, t.parent, y)
    BY <1>2 DEF Child, Reshape, TreeOf
  <2>2. y \in 0..N
    OBVIOUS
  <2>3. HasShape(Child(t, p, x, y), N, t, t.left, t.right, t.parent, y)
    BY <1>1, <2>1, <2>2, Reshaped
  <2> QED BY <1>2, <2>3 DEF Nil, HasShape, HasChild
<1>3. CASE p # Nil /\ t.left[p] = x
  <2> DEFINE l == [t.left EXCEPT ![p] = y]
  <2>1. Child(t, p, x, y) = Reshape(t, l, t.right, t.parent, t.root)
    BY <1>3 DEF Child, Reshape, TreeOf
  <2>2. l \in Pointers(N) /\ \A m \in 1..N : l[m] = IF m = p THEN y ELSE t.left[m]
    <3>1. p \in 1..N
      BY <1>3 DEF Nil
    <3> QED BY <1>1, <3>1 DEF Pointers
  <2> HIDE DEF l
  <2>3. HasShape(Child(t, p, x, y), N, t, l, t.right, t.parent, t.root)
    BY <1>1, <2>1, <2>2, Reshaped
  <2> QED BY <1>3, <2>2, <2>3 DEF HasShape, HasChild
<1>4. CASE p # Nil /\ t.left[p] # x
  <2> DEFINE r == [t.right EXCEPT ![p] = y]
  <2>1. Child(t, p, x, y) = Reshape(t, t.left, r, t.parent, t.root)
    BY <1>4 DEF Child, Reshape, TreeOf
  <2>2. r \in Pointers(N) /\ \A m \in 1..N : r[m] = IF m = p THEN y ELSE t.right[m]
    BY <1>1, <1>4, SMTT(30) DEF Pointers, Nil
  <2> HIDE DEF r
  <2>3. HasShape(Child(t, p, x, y), N, t, t.left, r, t.parent, t.root)
    BY <1>1, <2>1, <2>2, Reshaped
  <2> QED BY <1>4, <2>2, <2>3 DEF HasShape, HasChild
<1> QED BY <1>2, <1>3, <1>4

(* Inner nodes have two children, whose parent they are, leaves a byte,    *)
(* by which they are found.                                                *)
Hangs(left, right, parent, root, symbol, N) ==
  /\ root \in 1..N
  /\ \A n \in 1..N :
       /\ parent[n] \in 0..N /\ left[n] \in 0..N /\ right[n] \in 0..N
       /\ parent[n] = Nil <=> n = root
       /\ parent[n] # Nil => /\ symbol[parent[n]] = NodeNext
                             /\ left[parent[n]] = n \/ right[parent[n]] = n
       /\ symbol[n] = NodeNext =>
            /\ left[n] # Nil /\ right[n] # Nil /\ left[n] # right[n]
            /\ parent[left[n]] = n /\ parent[right[n]] = n
       /\ symbol[n] # NodeNext => left[n] = Nil /\ right[n] = Nil

(* A leaf has a byte or stands for all new ones, and loc finds it.         *)
Labelled(symbol, loc, N) ==
  /\ \A n \in 1..N : symbol[n] # NodeNext =>
       symbol[n] \in Byte \cup {NotReferenced} /\ loc[symbol[n]] = n
  /\ \A c \in Byte \cup {NotReferenced} : loc[c] # Nil => symbol[loc[c]] = c
  /\ loc[NotReferenced] = First

(* The form of a tree: its pointers and the bytes of its leaves.           *)
Shape(t, N) ==
  /\ Hangs(t.left, t.right, t.parent, t.root, t.symbol, N)
  /\ Labelled(t.symbol, t.loc, N)

(* The node that stands where n stood once x and y have changed places.    *)
Other(x, y, n) == IF n = x THEN y ELSE IF n = y THEN x ELSE n

(* Swapped nodes bring their own children.                                 *)
LEMMA SwapIs ==
  ASSUME NEW N \in Nat, NEW t \in TreeOf(N), Shape(t, N),
         NEW x \in 1..N, NEW y \in 1..N, x # y
  PROVE  LET u == Huff_Swap(t, x, y)
         IN  /\ u \in TreeOf(N) /\ OnlyShaped(u, t)
             /\ \A n \in 1..N : u.parent[n] = t.parent[Other(x, y, n)]
             /\ u.root = Other(x, y, t.root)
             /\ \/ \A n \in 1..N : /\ u.left[n] = Other(x, y, t.left[n])
                                   /\ u.right[n] = Other(x, y, t.right[n])
                \/ t.parent[x] = t.parent[y] /\ \A n \in 1..N : /\ u.left[n] = t.left[n]
                                                                /\ u.right[n] = t.right[n]
<1> DEFINE p == t.parent[x]
           q == t.parent[y]
           v == Child(t, p, x, y)
           w == Child(v, q, y, x)
           par == [w.parent EXCEPT ![x] = q, ![y] = p]
           u == Reshape(w, w.left, w.right, par, w.root)
<1>1. Hangs(t.left, t.right, t.parent, t.root, t.symbol, N)
  BY DEF Shape
<1>2. t.parent \in Pointers(N) /\ p \in 0..N /\ q \in 0..N
  BY <1>1 DEF Hangs, TreeOf
<1> HIDE DEF v, w, par, u, p, q
<1>3. /\ v \in TreeOf(N) /\ OnlyShaped(v, t) /\ v.parent = t.parent
      /\ v.root = IF p = Nil THEN y ELSE t.root
      /\ \A m \in 1..N :
           /\ v.left[m] = IF m = p /\ t.left[p] = x THEN y ELSE t.left[m]
           /\ v.right[m] = IF m = p /\ t.left[p] # x THEN y ELSE t.right[m]
  <2>1. HasChild(v, N, t, p, x, y)
    BY <1>2, ChildIs DEF v
  <2> QED BY <2>1 DEF HasChild
<1>4. /\ w \in TreeOf(N) /\ OnlyShaped(w, v) /\ w.parent = v.parent
      /\ w.root = IF q = Nil THEN x ELSE v.root
      /\ \A m \in 1..N :
           /\ w.left[m] = IF m = q /\ v.left[q] = y THEN x ELSE v.left[m]
           /\ w.right[m] = IF m = q /\ v.left[q] # y THEN x ELSE v.right[m]
  <2>1. HasChild(w, N, v, q, y, x)
    BY <1>2, <1>3, ChildIs DEF w
  <2> QED BY <2>1 DEF HasChild
<1>5. /\ par \in Pointers(N)
      /\ \A n \in 1..N : par[n] = IF n = x THEN q ELSE IF n = y THEN p ELSE t.parent[n]
  <2>1. w.parent = t.parent
    BY <1>3, <1>4
  <2> QED BY <1>2, <2>1 DEF Pointers, par
<1>6. Huff_Swap(t, x, y) = u
  BY <1>3, <1>4 DEF Huff_Swap, Reshape, TreeOf, v, w, u, par, p, q
<1>7. /\ u \in TreeOf(N) /\ OnlyShaped(u, w)
      /\ u.left = w.left /\ u.right = w.right /\ u.parent = par /\ u.root = w.root
  <2>1. w.left \in Pointers(N) /\ w.right \in Pointers(N) /\ w.root \in 0..N
    BY <1>4 DEF TreeOf
  <2>2. par \in Pointers(N) /\ w \in TreeOf(N)
    BY <1>4, <1>5
  <2>3. HasShape(u, N, w, w.left, w.right, par, w.root)
    BY <2>1, <2>2, Reshaped DEF u
  <2> QED BY <2>3 DEF HasShape
<1>8. OnlyShaped(u, t)
  BY <1>3, <1>4, <1>7, ShapedAgain
<1>9. \A n \in 1..N : u.parent[n] = t.parent[Other(x, y, n)]
  BY <1>5, <1>7 DEF Other, p, q
<1> DEFINE left == t.left
           right == t.right
           parent == t.parent
           root == t.root
<1> HIDE DEF left, right, parent, root
<1>10. /\ root \in 1..N
       /\ \A n \in 1..N : parent[n] = 0 <=> n = root
       /\ \A n \in 1..N : parent[n] # 0 => left[parent[n]] = n \/ right[parent[n]] = n
       /\ \A n \in 1..N : /\ left[n] # 0 => (parent[n] \in 0..N) 
                          /\ parent[n] # 0 => /\ left[parent[n]] # right[parent[n]]
                                              /\ left[parent[n]] \in 1..N /\ right[parent[n]] \in 1..N
                                              /\ parent[left[parent[n]]] = parent[n]
                                              /\ parent[right[parent[n]]] = parent[n]
                                              /\ parent[n] \in 1..N
  BY <1>1 DEF Hangs, Nil, left, right, parent, root
<1>11. p = parent[x] /\ q = parent[y]
  BY DEF parent, p, q
<1>12. u.root = Other(x, y, root)
  BY <1>3, <1>4, <1>7, <1>10, <1>11 DEF Nil, Other, root
<1>12a. \A m \in 1..N : /\ u.left[m] = IF m = q /\ v.left[q] = y THEN x ELSE v.left[m]
                        /\ u.right[m] = IF m = q /\ v.left[q] # y THEN x ELSE v.right[m]
  BY <1>4, <1>7
<1>12b. \A m \in 1..N : /\ v.left[m] = IF m = p /\ left[p] = x THEN y ELSE left[m]
                        /\ v.right[m] = IF m = p /\ left[p] # x THEN y ELSE right[m]
  BY <1>3 DEF left, right
<1>12c. \A m \in 1..N : left[m] \in 0..N /\ right[m] \in 0..N
  BY <1>1 DEF Hangs, left, right
<1>12d. \A m \in 1..N, n \in 1..N : left[m] = n \/ right[m] = n => parent[n] = m
  BY <1>1 DEF Hangs, left, right, parent, Nil
<1>12e. \A n \in 1..N : parent[n] \in 1..N => (left[parent[n]] = n \/ right[parent[n]] = n)
                                             /\ left[parent[n]] # right[parent[n]]
  BY <1>10
<1>12f. \A n \in 1..N : parent[n] = 0 <=> n = root
  BY <1>10
<1> DEFINE Either == \/ \A n \in 1..N : /\ u.left[n] = Other(x, y, left[n])
                                        /\ u.right[n] = Other(x, y, right[n])
                     \/ p = q /\ \A n \in 1..N : u.left[n] = left[n] /\ u.right[n] = right[n]
<1>13. ASSUME p # q PROVE Either
  <2>1. SUFFICES ASSUME NEW m \in 1..N
                 PROVE  u.left[m] = Other(x, y, left[m]) /\ u.right[m] = Other(x, y, right[m])
    OBVIOUS
  <2>2. q \in 1..N => v.left[q] = left[q]
    BY <1>12b, <1>13
  <2>3. CASE m = p
    <3>1. u.left[m] = v.left[m] /\ u.right[m] = v.right[m]
      BY <1>12a, <1>13, <2>3
    <3>2. left[m] # y /\ right[m] # y
      BY <1>11, <1>12d, <1>13, <2>3
    <3>3. (left[m] = x \/ right[m] = x) /\ left[m] # right[m]
      BY <1>11, <1>12e, <2>3
    <3> QED BY <1>12b, <2>3, <3>1, <3>2, <3>3 DEF Other
  <2>4. CASE m = q
    <3>1. v.left[m] = left[m] /\ v.right[m] = right[m]
      BY <1>12b, <1>13, <2>4
    <3>2. left[m] # x /\ right[m] # x
      BY <1>11, <1>12d, <1>13, <2>4
    <3>3. (left[m] = y \/ right[m] = y) /\ left[m] # right[m]
      BY <1>11, <1>12e, <2>4
    <3> QED BY <1>12a, <2>4, <3>1, <3>2, <3>3 DEF Other
  <2>5. CASE m # p /\ m # q
    <3>1. u.left[m] = left[m] /\ u.right[m] = right[m]
      BY <1>12a, <1>12b, <2>5
    <3>2. left[m] # x /\ right[m] # x /\ left[m] # y /\ right[m] # y
      BY <1>11, <1>12d, <2>5
    <3> QED BY <3>1, <3>2 DEF Other
  <2> QED BY <2>3, <2>4, <2>5
<1>14. ASSUME p = q PROVE Either
  <2>1. p \in 1..N
    <3>1. ~(p = 0 /\ q = 0)
      BY <1>11, <1>12f
    <3> QED BY <1>2, <1>14, <3>1
  <2>2. /\ left[p] = x \/ right[p] = x
        /\ left[p] = y \/ right[p] = y
        /\ left[p] # right[p]
    BY <1>11, <1>12e, <1>14, <2>1
  <2>3. CASE left[p] = x
    <3>1. v.left[p] = y /\ v.right[p] = y
      BY <1>12b, <2>1, <2>2, <2>3
    <3>2. \A m \in 1..N : u.left[m] = left[m] /\ u.right[m] = right[m]
      BY <1>12a, <1>12b, <1>14, <2>1, <2>2, <2>3, <3>1
    <3> QED BY <3>2, <1>14
  <2>4. CASE right[p] = x
    <3>1. v.left[p] = y /\ v.right[p] = y
      BY <1>12b, <2>1, <2>2, <2>4
    <3>2. \A m \in 1..N : m # p => left[m] # x /\ right[m] # x /\ left[m] # y /\ right[m] # y
      BY <1>11, <1>12d, <1>14
    <3>3. \A m \in 1..N : /\ u.left[m] = Other(x, y, left[m])
                          /\ u.right[m] = Other(x, y, right[m])
      BY <1>12a, <1>12b, <1>14, <2>1, <2>2, <2>4, <3>1, <3>2 DEF Other
    <3> QED BY <3>3
  <2> QED BY <2>2, <2>3, <2>4
<1>15. Either
  BY <1>13, <1>14
<1> QED
  BY <1>6, <1>7, <1>8, <1>9, <1>12, <1>15 DEF left, right, root, p, q

(* ... so that the tree is one again.                                      *)
LEMMA SwapHangs ==
  ASSUME NEW N \in Nat, NEW t \in TreeOf(N), Shape(t, N),
         NEW x \in 1..N, NEW y \in 1..N, x # y, t.parent[x] # y, t.parent[y] # x
  PROVE  Shape(Huff_Swap(t, x, y), N)
<1> DEFINE u == Huff_Swap(t, x, y)
<1> HIDE DEF u
<1>1. /\ u \in TreeOf(N) /\ OnlyShaped(u, t)
      /\ \A n \in 1..N : u.parent[n] = t.parent[Other(x, y, n)]
      /\ u.root = Other(x, y, t.root)
      /\ \/ \A n \in 1..N : /\ u.left[n] = Other(x, y, t.left[n])
                            /\ u.right[n] = Other(x, y, t.right[n])
         \/ t.parent[x] = t.parent[y] /\ \A n \in 1..N : /\ u.left[n] = t.left[n]
                                                         /\ u.right[n] = t.right[n]
  BY SwapIs DEF u
<1> DEFINE left == t.left
           right == t.right
           parent == t.parent
           root == t.root
           symbol == t.symbol
           left2 == u.left
           right2 == u.right
           parent2 == u.parent
<1>2. Hangs(left, right, parent, root, symbol, N)
  BY DEF Shape
<1>3. /\ \A n \in 1..N : parent2[n] = parent[Other(x, y, n)]
      /\ u.root = Other(x, y, root)
      /\ \/ \A n \in 1..N : /\ left2[n] = Other(x, y, left[n])
                            /\ right2[n] = Other(x, y, right[n])
         \/ parent[x] = parent[y] /\ \A n \in 1..N : /\ left2[n] = left[n]
                                                     /\ right2[n] = right[n]
  BY <1>1
<1>4. u.symbol = symbol /\ u.loc = t.loc
  BY <1>1 DEF OnlyShaped, SameBytes
<1>5. parent[x] # y /\ parent[y] # x
  OBVIOUS
<1> HIDE DEF left, right, parent, root, symbol, left2, right2, parent2
<1>6. root \in 1..N
  BY <1>2 DEF Hangs
<1>7. \A n \in 1..N : /\ parent[n] \in 0..N /\ left[n] \in 0..N /\ right[n] \in 0..N
                      /\ parent[n] = 0 <=> n = root
                      /\ parent[n] # 0 => /\ symbol[parent[n]] = NodeNext
                                          /\ left[parent[n]] = n \/ right[parent[n]] = n
                      /\ symbol[n] = NodeNext =>
                           /\ left[n] # 0 /\ right[n] # 0 /\ left[n] # right[n]
                           /\ parent[left[n]] = n /\ parent[right[n]] = n
                      /\ symbol[n] # NodeNext => left[n] = 0 /\ right[n] = 0
  BY <1>2 DEF Hangs, Nil
<1>8. Hangs(left2, right2, parent2, u.root, symbol, N)
  <2>1. u.root \in 1..N
    BY <1>3, <1>6 DEF Other
  <2>2. SUFFICES ASSUME NEW n \in 1..N
                 PROVE  /\ parent2[n] \in 0..N /\ left2[n] \in 0..N /\ right2[n] \in 0..N
                        /\ parent2[n] = 0 <=> n = u.root
                        /\ parent2[n] # 0 => /\ symbol[parent2[n]] = NodeNext
                                             /\ left2[parent2[n]] = n \/ right2[parent2[n]] = n
                        /\ symbol[n] = NodeNext =>
                             /\ left2[n] # 0 /\ right2[n] # 0 /\ left2[n] # right2[n]
                             /\ parent2[left2[n]] = n /\ parent2[right2[n]] = n
                        /\ symbol[n] # NodeNext => left2[n] = 0 /\ right2[n] = 0
    BY <2>1 DEF Hangs, Nil
  <2> DEFINE o == Other(x, y, n)
  <2>3. o \in 1..N /\ parent2[n] = parent[o] /\ Other(x, y, o) = n
    BY <1>3 DEF Other
  <2>4. parent2[n] \in 0..N /\ left2[n] \in 0..N /\ right2[n] \in 0..N
    BY <1>3, <1>7, <2>3 DEF Other
  <2>5. parent2[n] = 0 <=> n = u.root
    BY <1>3, <1>6, <1>7, <2>3 DEF Other
  <2>6. ASSUME parent2[n] # 0
        PROVE  /\ symbol[parent2[n]] = NodeNext
               /\ left2[parent2[n]] = n \/ right2[parent2[n]] = n
    <3>1. symbol[parent[o]] = NodeNext /\ (left[parent[o]] = o \/ right[parent[o]] = o)
          /\ parent[o] \in 1..N
      BY <1>7, <2>3, <2>6
    <3>2. CASE \A m \in 1..N : /\ left2[m] = Other(x, y, left[m])
                               /\ right2[m] = Other(x, y, right[m])
      BY <2>3, <3>1, <3>2
    <3>3. CASE parent[x] = parent[y] /\ \A m \in 1..N : left2[m] = left[m] /\ right2[m] = right[m]
      <4>1. parent[o] = parent[n] /\ parent[n] # 0
        BY <2>3, <2>6, <3>3 DEF Other
      <4>2. left[parent[n]] = n \/ right[parent[n]] = n
        BY <1>7, <4>1
      <4> QED BY <2>3, <3>1, <3>3, <4>1, <4>2
    <3> QED BY <1>3, <3>2, <3>3
  <2>7. ASSUME symbol[n] = NodeNext
        PROVE  /\ left2[n] # 0 /\ right2[n] # 0 /\ left2[n] # right2[n]
               /\ parent2[left2[n]] = n /\ parent2[right2[n]] = n
    <3>1. /\ left[n] \in 1..N /\ right[n] \in 1..N /\ left[n] # right[n]
          /\ parent[left[n]] = n /\ parent[right[n]] = n
      BY <1>7, <2>7
    <3>2. CASE \A m \in 1..N : /\ left2[m] = Other(x, y, left[m])
                               /\ right2[m] = Other(x, y, right[m])
      BY <1>3, <3>1, <3>2 DEF Other
    <3>3. CASE parent[x] = parent[y] /\ \A m \in 1..N : left2[m] = left[m] /\ right2[m] = right[m]
      BY <1>3, <3>1, <3>3 DEF Other
    <3> QED BY <1>3, <3>2, <3>3
  <2>8. ASSUME symbol[n] # NodeNext PROVE left2[n] = 0 /\ right2[n] = 0
    BY <1>3, <1>7, <2>8 DEF Other
  <2> QED BY <2>4, <2>5, <2>6, <2>7, <2>8
<1> QED
  BY <1>4, <1>8 DEF Shape, left2, right2, parent2, symbol, u

-----------------------------------------------------------------------------
(* A tree with other cells.                                                *)
OnlyCelled(t, u) ==
  SameTree(t, u) /\ SameList(t, u) /\ SameBytes(t, u) /\ t.freq = u.freq

(* A number of each node.                                                  *)
Numbers(N) == [1..N -> Nat]

(* The same tree with other cells.                                         *)
Recell(t, h, c, f) == [t EXCEPT !.head = h, !.cells = c, !.free = f]

(* A tree with these cells.                                                *)
HasCells(u, N, t, h, c, f) ==
  u \in TreeOf(N) /\ OnlyCelled(u, t) /\ u.head = h /\ u.cells = c /\ u.free = f

(* Only the cells are others.                                              *)
LEMMA Recelled ==
  ASSUME NEW N \in Nat, NEW t \in TreeOf(N), NEW h \in Numbers(N), NEW c \in Seq(Nat),
         NEW f \in Nat
  PROVE  HasCells(Recell(t, h, c, f), N, t, h, c, f)
BY DEF HasCells, Recell, TreeOf, Numbers, OnlyCelled, SameTree, SameList, SameBytes

(* Nodes of one frequency, of those in S, share a cell, which holds the    *)
(* last of them.                                                           *)
Holds(head, cells, freq, S, pos) ==
  \A n \in S :
    /\ head[n] \in 1..Len(cells)
    /\ cells[head[n]] \in S
    /\ freq[cells[head[n]]] = freq[n]
    /\ \A m \in S : freq[m] = freq[n] => head[m] = head[n] /\ pos[m] <= pos[cells[head[n]]]

(* The free cells form a list, in which those at the end have the lowest   *)
(* ranks; used ones have none.                                             *)
Chain(head, cells, free, S, rank, R) ==
  /\ R \in Nat
  /\ free \in 0..Len(cells)
  /\ free = Nil <=> R = 0
  /\ free # Nil => rank[free] = R
  /\ \A c \in 1..Len(cells) :
       /\ rank[c] \in 0..R
       /\ rank[c] = 0 <=> \E n \in S : head[n] = c
       /\ \A d \in 1..Len(cells) : rank[c] = rank[d] /\ rank[c] # 0 => c = d
       /\ rank[c] = 1 => cells[c] = Nil
       /\ rank[c] > 1 => cells[c] \in 1..Len(cells) /\ rank[cells[c]] = rank[c] - 1

(* The cells of the nodes in S, and the free ones.                         *)
InCells(t, S, pos) ==
  /\ Holds(t.head, t.cells, t.freq, S, pos)
  /\ \E rank, R : Chain(t.head, t.cells, t.free, S, rank, R)

(* One value in another place.                                            *)
Put(s, i, v) == [s EXCEPT ![i] = v]

(* A cell is given back ...                                                *)
LEMMA DeleteIs ==
  ASSUME NEW N \in Nat, NEW t \in TreeOf(N), NEW c \in 1..Len(t.cells)
  PROVE  HasCells(Huff_DeleteNode(t, c), N, t, t.head, Put(t.cells, c, t.free), c)
<1> DEFINE s == Put(t.cells, c, t.free)
<1>1. t.head \in Numbers(N) /\ t.cells \in Seq(Nat) /\ t.free \in Nat /\ c \in Nat
  BY DEF TreeOf, Numbers
<1>2. s \in Seq(Nat)
  BY <1>1 DEF Put
<1>3. Huff_DeleteNode(t, c) = Recell(t, t.head, s, c)
  BY DEF Huff_DeleteNode, Recell, TreeOf, Put
<1> HIDE DEF s
<1>4. HasCells(Huff_DeleteNode(t, c), N, t, t.head, s, c)
  BY <1>1, <1>2, <1>3, Recelled
<1> QED BY <1>4 DEF s

(* ... and a node gets one: the first free one, or a new one.              *)
LEMMA GetIs ==
  ASSUME NEW N \in Nat, NEW t \in TreeOf(N), NEW n \in 1..N, t.free \in 0..Len(t.cells)
  PROVE  HasCells(Huff_GetNode(t, n), N, t,
           Put(t.head, n, IF t.free = Nil THEN Len(t.cells) + 1 ELSE t.free),
           IF t.free = Nil THEN Append(t.cells, n) ELSE Put(t.cells, t.free, n),
           IF t.free = Nil THEN Nil ELSE t.cells[t.free])
<1>1. t.head \in Numbers(N) /\ t.cells \in Seq(Nat) /\ t.free \in Nat
  BY DEF TreeOf, Numbers
<1>2. CASE t.free = Nil
  <2> DEFINE s == Append(t.cells, n)
             h == Put(t.head, n, Len(t.cells) + 1)
  <2>1. s \in Seq(Nat) /\ h \in Numbers(N)
    BY <1>1 DEF Numbers, Put
  <2>2. Huff_GetNode(t, n) = Recell(t, h, s, t.free)
    BY <1>2 DEF Huff_GetNode, Recell, TreeOf, Put
  <2> HIDE DEF s, h
  <2>3. HasCells(Huff_GetNode(t, n), N, t, h, s, t.free)
    BY <1>1, <2>1, <2>2, Recelled
  <2> QED BY <1>2, <2>3 DEF s, h
<1>3. CASE t.free # Nil
  <2> DEFINE s == Put(t.cells, t.free, n)
             h == Put(t.head, n, t.free)
             f == t.cells[t.free]
  <2>1. s \in Seq(Nat) /\ h \in Numbers(N) /\ f \in Nat
    BY <1>1, <1>3, SMTT(30) DEF Numbers, Nil, Put
  <2>2. Huff_GetNode(t, n) = Recell(t, h, s, f)
    BY <1>3 DEF Huff_GetNode, Recell, TreeOf, Put
  <2> HIDE DEF s, h, f
  <2>3. HasCells(Huff_GetNode(t, n), N, t, h, s, f)
    BY <1>1, <2>1, <2>2, Recelled
  <2> QED BY <1>3, <2>3 DEF s, h, f
<1> QED BY <1>2, <1>3

(* The free cells with one more, or one less.                              *)
Ranked(rank, cells, c, r) == [d \in 1..Len(cells) |-> IF d = c THEN r ELSE rank[d]]

(* The cell of a node that nobody shares, given back, is the first of the  *)
(* free ones.                                                              *)
LEMMA ChainLonger ==
  ASSUME NEW cells \in Seq(Nat), NEW head, NEW free, NEW S, NEW rank, NEW R,
         Chain(head, cells, free, S, rank, R), NEW c \in 1..Len(cells), NEW n \in S,
         head[n] = c, \A m \in S : head[m] = c => m = n
  PROVE  Chain(head, Put(cells, c, free), c, S \ {n}, Ranked(rank, cells, c, R + 1), R + 1)
<1> DEFINE cells2 == Put(cells, c, free)
           rank2 == Ranked(rank, cells, c, R + 1)
           D == 1..Len(cells)
<1>1. /\ Len(cells2) = Len(cells)
      /\ \A d \in D : cells2[d] = IF d = c THEN free ELSE cells[d]
  BY DEF Put
<1>2. \A d \in D : rank2[d] = IF d = c THEN R + 1 ELSE rank[d]
  BY DEF Ranked
<1> HIDE DEF rank2, cells2
<1>3. /\ R \in Nat /\ free \in 0..Len(cells)
      /\ free = 0 <=> R = 0
      /\ free # 0 => rank[free] = R
      /\ \A d \in D : /\ rank[d] \in 0..R
                      /\ rank[d] = 0 <=> \E m \in S : head[m] = d
                      /\ \A e \in D : rank[d] = rank[e] /\ rank[d] # 0 => d = e
                      /\ rank[d] = 1 => cells[d] = 0
                      /\ rank[d] > 1 => cells[d] \in D /\ rank[cells[d]] = rank[d] - 1
  BY DEF Chain, Nil
<1>4. rank[c] = 0
  BY <1>3
<1>5. ASSUME NEW d \in D
      PROVE  /\ rank2[d] \in 0..(R + 1)
             /\ rank2[d] = 0 <=> \E m \in S \ {n} : head[m] = d
             /\ \A e \in D : rank2[d] = rank2[e] /\ rank2[d] # 0 => d = e
             /\ rank2[d] = 1 => cells2[d] = 0
             /\ rank2[d] > 1 => cells2[d] \in D /\ rank2[cells2[d]] = rank2[d] - 1
  <2>1. CASE d = c
    <3>1. rank2[d] = R + 1 /\ cells2[d] = free
      BY <1>1, <1>2, <2>1
    <3>2. ~ \E m \in S \ {n} : head[m] = d
      BY <2>1
    <3>3. R > 0 => free \in D /\ free # c /\ rank2[free] = R
      BY <1>2, <1>3, <1>4
    <3>4. \A e \in D : rank2[d] = rank2[e] => d = e
      BY <1>2, <1>3, <2>1
    <3>5. R + 1 \in 0..(R + 1) /\ R + 1 # 0 /\ R \in Nat
      BY <1>3
    <3>6. R + 1 = 1 => free = 0
      BY <1>3
    <3>7. R + 1 > 1 => free \in D /\ rank2[free] = R + 1 - 1
      BY <3>3, <3>5
    <3> QED BY <3>1, <3>2, <3>4, <3>5, <3>6, <3>7
  <2>2. CASE d # c
    <3>1. rank2[d] = rank[d] /\ cells2[d] = cells[d]
      BY <1>1, <1>2, <2>2
    <3>2. (\E m \in S : head[m] = d) <=> (\E m \in S \ {n} : head[m] = d)
      BY <2>2
    <3>3. rank[d] > 1 => cells[d] # c
      BY <1>3, <1>4, SMTT(30)
    <3>4. rank2[d] = 0 <=> \E m \in S \ {n} : head[m] = d
      BY <1>3, <3>1, <3>2
    <3>5. \A e \in D : rank2[d] = rank2[e] /\ rank2[d] # 0 => d = e
      BY <1>2, <1>3, <3>1, SMTT(30)
    <3>6. ASSUME rank2[d] > 1 PROVE cells2[d] \in D /\ rank2[cells2[d]] = rank2[d] - 1
      <4>1. cells[d] \in D /\ rank[cells[d]] = rank[d] - 1
        BY <1>3, <3>1, <3>6
      <4>2. rank2[cells[d]] = rank[cells[d]]
        BY <1>2, <3>1, <3>3, <3>6, <4>1
      <4> QED BY <3>1, <4>1, <4>2
    <3> QED BY <1>3, <3>1, <3>4, <3>5, <3>6
  <2> QED BY <2>1, <2>2
<1> HIDE DEF D
<1>6. Chain(head, cells2, c, S \ {n}, rank2, R + 1)
  <2>1. c \in D /\ rank2[c] = R + 1 /\ R + 1 \in Nat /\ R + 1 # 0 /\ c \in 0..Len(cells) /\ c # 0
    BY <1>2, <1>3 DEF D
  <2> QED BY <1>1, <1>5, <2>1 DEF Chain, Nil, D
<1> QED BY <1>6 DEF cells2, rank2

(* The first free cell, taken, is free no more.                            *)
LEMMA ChainShorter ==
  ASSUME NEW cells \in Seq(Nat), NEW head, NEW free, NEW S, NEW rank, NEW R,
         Chain(head, cells, free, S, rank, R), free # Nil, NEW n, n \notin S, NEW v \in Nat,
         NEW head2, head2[n] = free, \A m \in S : head2[m] = head[m]
  PROVE  Chain(head2, Put(cells, free, v), cells[free], S \cup {n},
               Ranked(rank, cells, free, 0), R - 1)
<1> DEFINE cells2 == Put(cells, free, v)
           rank2 == Ranked(rank, cells, free, 0)
           D == 1..Len(cells)
<1>1. /\ Len(cells2) = Len(cells)
      /\ \A d \in D : d # free => cells2[d] = cells[d]
  BY DEF Put
<1>2. \A d \in D : rank2[d] = IF d = free THEN 0 ELSE rank[d]
  BY DEF Ranked
<1> HIDE DEF rank2, cells2
<1>3. /\ R \in Nat /\ R # 0 /\ free \in D
      /\ rank[free] = R
      /\ \A d \in D : /\ rank[d] \in 0..R
                      /\ rank[d] = 0 <=> \E m \in S : head[m] = d
                      /\ \A e \in D : rank[d] = rank[e] /\ rank[d] # 0 => d = e
                      /\ rank[d] = 1 => cells[d] = 0
                      /\ rank[d] > 1 => cells[d] \in D /\ rank[cells[d]] = rank[d] - 1
  BY DEF Chain, Nil
<1>4. \A d \in D : (\E m \in S \cup {n} : head2[m] = d) <=> d = free \/ \E m \in S : head[m] = d
  OBVIOUS
<1>5. \A d \in D : d # free => rank[d] # R
  BY <1>3
<1>6. ASSUME NEW d \in D
      PROVE  /\ rank2[d] \in 0..(R - 1)
             /\ rank2[d] = 0 <=> \E m \in S \cup {n} : head2[m] = d
             /\ \A e \in D : rank2[d] = rank2[e] /\ rank2[d] # 0 => d = e
             /\ rank2[d] = 1 => cells2[d] = 0
             /\ rank2[d] > 1 => cells2[d] \in D /\ rank2[cells2[d]] = rank2[d] - 1
  <2>1. CASE d = free
    BY <1>2, <1>3, <1>4, <2>1
  <2>2. CASE d # free
    <3>1. rank2[d] = rank[d] /\ cells2[d] = cells[d]
      BY <1>1, <1>2, <2>2
    <3>2. rank[d] \in 0..(R - 1)
      BY <1>3, <1>5, <2>2
    <3>3. rank[d] > 1 => cells[d] # free
      BY <1>3, <3>2
    <3>4. rank2[d] = 0 <=> \E m \in S \cup {n} : head2[m] = d
      BY <1>3, <1>4, <2>2, <3>1
    <3>5. \A e \in D : rank2[d] = rank2[e] /\ rank2[d] # 0 => d = e
      BY <1>2, <1>3, <3>1
    <3>6. ASSUME rank2[d] > 1 PROVE cells2[d] \in D /\ rank2[cells2[d]] = rank2[d] - 1
      <4>1. cells[d] \in D /\ rank[cells[d]] = rank[d] - 1
        BY <1>3, <3>1, <3>6
      <4>2. rank2[cells[d]] = rank[cells[d]]
        BY <1>2, <3>1, <3>3, <3>6, <4>1
      <4> QED BY <3>1, <4>1, <4>2
    <3> QED BY <1>3, <3>1, <3>2, <3>4, <3>5, <3>6
  <2> QED BY <2>1, <2>2
<1>7. /\ R - 1 \in Nat /\ cells[free] \in 0..Len(cells)
      /\ cells[free] = 0 <=> R - 1 = 0
      /\ cells[free] # 0 => rank2[cells[free]] = R - 1
  <2>1. R = 1 => cells[free] = 0
    BY <1>3
  <2>2. R > 1 => cells[free] \in D /\ cells[free] # free /\ rank[cells[free]] = R - 1
    BY <1>3
  <2> QED BY <1>2, <1>3, <2>1, <2>2
<1> HIDE DEF D
<1>8. Chain(head2, cells2, cells[free], S \cup {n}, rank2, R - 1)
  BY <1>1, <1>6, <1>7 DEF Chain, Nil, D
<1> QED BY <1>8 DEF cells2, rank2

(* The free cells stay what they are if they are not written to and the    *)
(* same ones are in use.                                                   *)
LEMMA ChainKept ==
  ASSUME NEW cells \in Seq(Nat), NEW cells2 \in Seq(Nat), NEW head, NEW head2, NEW free,
         NEW S, NEW S2, NEW rank, NEW R, Chain(head, cells, free, S, rank, R),
         Len(cells2) = Len(cells),
         \A d \in 1..Len(cells) : rank[d] # 0 => cells2[d] = cells[d],
         \A d \in 1..Len(cells) : (\E m \in S : head[m] = d) <=> (\E m \in S2 : head2[m] = d)
  PROVE  Chain(head2, cells2, free, S2, rank, R)
<1>1. /\ R \in Nat /\ free \in 0..Len(cells2)
      /\ free = Nil <=> R = 0
      /\ free # Nil => rank[free] = R
  BY DEF Chain
<1>2. ASSUME NEW c \in 1..Len(cells)
      PROVE  /\ rank[c] \in 0..R
             /\ rank[c] = 0 <=> \E n \in S2 : head2[n] = c
             /\ \A d \in 1..Len(cells) : rank[c] = rank[d] /\ rank[c] # 0 => c = d
             /\ rank[c] = 1 => cells2[c] = Nil
             /\ rank[c] > 1 => cells2[c] \in 1..Len(cells) /\ rank[cells2[c]] = rank[c] - 1
  <2>1. /\ rank[c] \in 0..R
        /\ rank[c] = 0 <=> \E n \in S : head[n] = c
        /\ \A d \in 1..Len(cells) : rank[c] = rank[d] /\ rank[c] # 0 => c = d
        /\ rank[c] = 1 => cells[c] = Nil
        /\ rank[c] > 1 => cells[c] \in 1..Len(cells) /\ rank[cells[c]] = rank[c] - 1
    BY DEF Chain
  <2>2. rank[c] # 0 => cells2[c] = cells[c]
    OBVIOUS
  <2>3. rank[c] = 1 => cells2[c] = Nil
    BY <2>1, <2>2
  <2>4. rank[c] > 1 => cells2[c] \in 1..Len(cells) /\ rank[cells2[c]] = rank[c] - 1
    BY <1>1, <2>1, <2>2
  <2> QED BY <2>1, <2>3, <2>4
<1> QED BY <1>1, <1>2 DEF Chain

(* When none is free a new cell is used at once.                           *)
LEMMA ChainAppended ==
  ASSUME NEW cells \in Seq(Nat), NEW head, NEW S, NEW rank, NEW R,
         Chain(head, cells, Nil, S, rank, R), NEW n \in Nat, n \notin S,
         NEW head2, head2[n] = Len(cells) + 1,
         \A m \in S : head2[m] = head[m] /\ head[m] \in 1..Len(cells)
  PROVE  Chain(head2, Append(cells, n), Nil, S \cup {n},
               [d \in 1..(Len(cells) + 1) |-> 0], 0)
<1> DEFINE cells2 == Append(cells, n)
           rank2 == [d \in 1..(Len(cells) + 1) |-> 0]
           L == Len(cells)
<1>1. L \in Nat /\ Len(cells2) = L + 1
  OBVIOUS
<1>2. \A d \in 1..(L + 1) : rank2[d] = 0
  OBVIOUS
<1> HIDE DEF rank2, cells2
<1>3. R = 0 /\ \A d \in 1..L : /\ rank[d] \in 0..R
                               /\ rank[d] = 0 <=> \E m \in S : head[m] = d
  BY DEF Chain, Nil
<1>4. \A d \in 1..(L + 1) : \E m \in S \cup {n} : head2[m] = d
  <2>1. ASSUME NEW d \in 1..(L + 1), d # L + 1 PROVE \E m \in S \cup {n} : head2[m] = d
    <3>1. d \in 1..L
      BY <1>1, <2>1
    <3>2. rank[d] = 0
      BY <1>3, <3>1
    <3> QED BY <1>3, <3>1, <3>2
  <2> QED BY <2>1
<1> HIDE DEF L
<1>5. Chain(head2, cells2, Nil, S \cup {n}, rank2, 0)
  BY <1>1, <1>2, <1>4 DEF Chain, Nil
<1> QED BY <1>5 DEF cells2, rank2, L

(* Node n, the last of its frequency, leaves it: the cell goes to the node *)
(* before it or becomes free.  Up to then the cell held the node that was  *)
(* last before, at the places pos1.                                        *)
HasLeft(u, N, t, S, pos, n) ==
  /\ u \in TreeOf(N) /\ OnlyCelled(u, t)
  /\ InCells(u, S \ {n}, pos)

(* LeaveCell does that, if the node before n is the last of the others of  *)
(* n's frequency, or there are no others.                                  *)
LEMMA LeavesCell ==
  ASSUME NEW N \in Nat, NEW t \in TreeOf(N), NEW S \in SUBSET (1..N), NEW n \in S,
         NEW pos1, NEW pos, InCells(t, S, pos1),
         \A m \in S : t.freq[m] # t.freq[n] => pos1[m] = pos[m],
         Alike(t, n, t.prev[n]) =>
           /\ t.prev[n] \in S /\ t.prev[n] # n
           /\ \A m \in S : m # n /\ t.freq[m] = t.freq[n] => pos[m] <= pos[t.prev[n]],
         ~ Alike(t, n, t.prev[n]) => \A m \in S : t.freq[m] = t.freq[n] => m = n
  PROVE  HasLeft(LeaveCell(t, n), N, t, S, pos, n)
<1> DEFINE head == t.head
           cells == t.cells
           freq == t.freq
           free == t.free
           p == t.prev[n]
           c == head[n]
           u == LeaveCell(t, n)
<1>1. t.head \in Numbers(N) /\ cells \in Seq(Nat) /\ free \in Nat
  BY DEF TreeOf, Numbers
<1>2. Holds(head, cells, freq, S, pos1)
  BY DEF InCells
<1>3. PICK rank, R : Chain(head, cells, free, S, rank, R)
  BY DEF InCells
<1>4. /\ \A m \in S : pos1[m] = pos[m] \/ freq[m] = freq[n]
      /\ \A m \in S : /\ head[m] \in 1..Len(cells) /\ cells[head[m]] \in S
                      /\ freq[cells[head[m]]] = freq[m]
      /\ \A m \in S, k \in S : freq[k] = freq[m] =>
           head[k] = head[m] /\ pos1[k] <= pos1[cells[head[m]]]
  BY <1>2 DEF Holds
<1>5. \A m \in S : head[m] = c <=> freq[m] = freq[n]
  BY <1>4
<1>6. CASE Alike(t, n, p)
  <2> DEFINE cells2 == Put(cells, c, p)
  <2>1. /\ p \in S /\ p # n /\ freq[p] = freq[n]
        /\ \A m \in S : m # n /\ freq[m] = freq[n] => pos[m] <= pos[p]
    BY <1>6 DEF Alike
  <2>2. /\ cells2 \in Seq(Nat) /\ Len(cells2) = Len(cells)
        /\ \A d \in 1..Len(cells) : cells2[d] = IF d = c THEN p ELSE cells[d]
    <3>1. p \in 1..N
      BY <2>1
    <3>2. c \in 1..Len(cells)
      BY <1>4
    <3> HIDE DEF p, c
    <3> QED BY <1>1, <3>1, <3>2 DEF Put
  <2>3. u = Recell(t, head, cells2, free)
    BY <1>6 DEF LeaveCell, Recell, TreeOf, Put
  <2> HIDE DEF cells2, u
  <2>4. HasCells(u, N, t, t.head, cells2, t.free)
    BY <1>1, <2>2, <2>3, Recelled
  <2>5. Holds(head, cells2, freq, S \ {n}, pos)
    <3>1. SUFFICES ASSUME NEW m \in S \ {n}
                   PROVE  /\ head[m] \in 1..Len(cells2)
                          /\ cells2[head[m]] \in S \ {n}
                          /\ freq[cells2[head[m]]] = freq[m]
                          /\ \A k \in S \ {n} : freq[k] = freq[m] =>
                               head[k] = head[m] /\ pos[k] <= pos[cells2[head[m]]]
      BY DEF Holds
    <3>2. CASE freq[m] = freq[n]
      <4>1. head[m] = c /\ c \in 1..Len(cells)
        BY <1>4, <1>5, <3>2
      <4>2. cells2[head[m]] = p
        BY <2>2, <4>1
      <4>3. \A k \in S \ {n} : freq[k] = freq[m] => head[k] = c /\ pos[k] <= pos[p]
        BY <1>5, <2>1, <3>2
      <4> QED BY <2>1, <2>2, <3>2, <4>1, <4>2, <4>3
    <3>3. CASE freq[m] # freq[n]
      <4>1. cells2[head[m]] = cells[head[m]]
        BY <1>4, <1>5, <2>2, <3>3
      <4>2. cells[head[m]] \in S \ {n}
        BY <1>4, <3>3
      <4>3. \A k \in S : freq[k] = freq[m] => pos1[k] = pos[k]
        BY <1>4, <3>3
      <4>4. pos1[cells[head[m]]] = pos[cells[head[m]]]
        BY <1>4, <4>3
      <4>5. \A k \in S : freq[k] = freq[m] =>
              head[k] = head[m] /\ pos[k] <= pos[cells2[head[m]]]
        <5>1. SUFFICES ASSUME NEW k \in S, freq[k] = freq[m]
                       PROVE  head[k] = head[m] /\ pos[k] <= pos[cells2[head[m]]]
          OBVIOUS
        <5>2. head[k] = head[m] /\ pos1[k] <= pos1[cells[head[m]]]
          BY <1>4, <5>1
        <5>3. pos1[k] = pos[k]
          BY <4>3, <5>1
        <5> QED BY <4>1, <4>4, <5>2, <5>3
      <4> QED BY <1>4, <2>2, <4>1, <4>2, <4>5
    <3> QED BY <3>2, <3>3
  <2>6. \A d \in 1..Len(cells) : (\E m \in S : head[m] = d) <=> (\E m \in S \ {n} : head[m] = d)
    BY <1>5, <2>1
  <2>7. \A d \in 1..Len(cells) : rank[d] # 0 => cells2[d] = cells[d]
    <3>1. rank[c] = 0
      BY <1>3, <1>4 DEF Chain
    <3> QED BY <2>2, <3>1
  <2>8. Chain(head, cells2, free, S \ {n}, rank, R)
    <3> HIDE DEF head, cells, free, c
    <3> QED BY <1>1, <1>3, <2>2, <2>6, <2>7, ChainKept
  <2>9. u.head = head /\ u.cells = cells2 /\ u.free = free /\ u.freq = freq
    BY <2>4 DEF HasCells, OnlyCelled
  <2>10. InCells(u, S \ {n}, pos)
    BY <2>5, <2>8, <2>9 DEF InCells
  <2> QED BY <2>4, <2>10 DEF HasLeft, HasCells, u
<1>7. CASE ~ Alike(t, n, p)
  <2> DEFINE cells2 == Put(cells, c, free)
             rank2 == Ranked(rank, cells, c, R + 1)
  <2>1. \A m \in S : freq[m] = freq[n] => m = n
    BY <1>7
  <2>2. c \in 1..Len(cells)
    BY <1>4
  <2>3. u = Huff_DeleteNode(t, c)
    BY <1>7 DEF LeaveCell
  <2> HIDE DEF u
  <2>4. HasCells(u, N, t, t.head, cells2, c)
    BY <2>2, <2>3, DeleteIs
  <2>5. /\ Len(cells2) = Len(cells)
        /\ \A d \in 1..Len(cells) : d # c => cells2[d] = cells[d]
    BY <1>1 DEF Put
  <2>6. \A m \in S : head[m] = c => m = n
    BY <1>5, <2>1
  <2>7. Chain(head, cells2, c, S \ {n}, rank2, R + 1)
    <3> HIDE DEF head, cells, free, c
    <3>1. head[n] = c /\ c \in 1..Len(cells)
      BY <2>2 DEF c
    <3> QED BY <1>1, <1>3, <2>6, <3>1, ChainLonger
  <2> HIDE DEF cells2, rank2
  <2>8. Holds(head, cells2, freq, S \ {n}, pos)
    <3>1. SUFFICES ASSUME NEW m \in S \ {n}
                   PROVE  /\ head[m] \in 1..Len(cells2)
                          /\ cells2[head[m]] \in S \ {n}
                          /\ freq[cells2[head[m]]] = freq[m]
                          /\ \A k \in S \ {n} : freq[k] = freq[m] =>
                               head[k] = head[m] /\ pos[k] <= pos[cells2[head[m]]]
      BY DEF Holds
    <3>2. freq[m] # freq[n] /\ head[m] # c
      BY <2>1, <2>6
    <3>3. cells2[head[m]] = cells[head[m]]
      BY <1>4, <2>5, <3>2
    <3>4. cells[head[m]] \in S \ {n}
      BY <1>4, <3>2
    <3>5. \A k \in S : freq[k] = freq[m] => pos1[k] = pos[k]
      BY <1>4, <3>2
    <3>6. pos1[cells[head[m]]] = pos[cells[head[m]]]
      BY <1>4, <3>5
    <3>7. \A k \in S : freq[k] = freq[m] =>
            head[k] = head[m] /\ pos[k] <= pos[cells2[head[m]]]
      <4>1. SUFFICES ASSUME NEW k \in S, freq[k] = freq[m]
                     PROVE  head[k] = head[m] /\ pos[k] <= pos[cells2[head[m]]]
        OBVIOUS
      <4>2. head[k] = head[m] /\ pos1[k] <= pos1[cells[head[m]]]
        BY <1>4, <4>1
      <4>3. pos1[k] = pos[k]
        BY <3>5, <4>1
      <4> QED BY <3>3, <3>6, <4>2, <4>3
    <3> QED BY <1>4, <2>5, <3>3, <3>4, <3>7
  <2>9. u.head = head /\ u.cells = cells2 /\ u.free = c /\ u.freq = freq
    BY <2>4 DEF HasCells, OnlyCelled
  <2>10. InCells(u, S \ {n}, pos)
    BY <2>7, <2>8, <2>9 DEF InCells
  <2> QED BY <2>4, <2>10 DEF HasLeft, HasCells, u
<1> QED BY <1>6, <1>7

(* Node n, the first of its frequency, takes part in it.                   *)
HasEntered(u, N, t, S, pos, n) ==
  /\ u \in TreeOf(N) /\ OnlyCelled(u, t)
  /\ InCells(u, S \cup {n}, pos)

(* EnterCell does that, if the node after n is the next of its frequency,  *)
(* if there is one.                                                        *)
LEMMA EntersCell ==
  ASSUME NEW N \in Nat, NEW t \in TreeOf(N), NEW S \in SUBSET (1..N), NEW n \in 1..N, n \notin S,
         NEW pos, InCells(t, S, pos), \A m \in 1..N : pos[m] \in Nat,
         Alike(t, n, t.next[n]) => t.next[n] \in S,
         ~ Alike(t, n, t.next[n]) => \A m \in S : t.freq[m] # t.freq[n],
         \A m \in S : t.freq[m] = t.freq[n] => pos[n] <= pos[m]
  PROVE  HasEntered(EnterCell(t, n), N, t, S, pos, n)
<1> DEFINE head == t.head
           cells == t.cells
           freq == t.freq
           free == t.free
           q == t.next[n]
           u == EnterCell(t, n)
           S2 == S \cup {n}
<1>1. t.head \in Numbers(N) /\ cells \in Seq(Nat) /\ free \in Nat
  BY DEF TreeOf, Numbers
<1>2. Holds(head, cells, freq, S, pos)
  BY DEF InCells
<1>3. PICK rank, R : Chain(head, cells, free, S, rank, R)
  BY DEF InCells
<1>4. /\ \A m \in S : /\ head[m] \in 1..Len(cells) /\ cells[head[m]] \in S
                      /\ freq[cells[head[m]]] = freq[m]
      /\ \A m \in S, k \in S : freq[k] = freq[m] =>
           head[k] = head[m] /\ pos[k] <= pos[cells[head[m]]]
  BY <1>2 DEF Holds
<1>5. CASE Alike(t, n, q)
  <2> DEFINE h == Put(t.head, n, t.head[q])
  <2>1. q \in S /\ q # n /\ freq[q] = freq[n] /\ head[q] \in 1..Len(cells)
    BY <1>4, <1>5 DEF Alike
  <2>2. h \in Numbers(N) /\ \A m \in 1..N : h[m] = IF m = n THEN head[q] ELSE head[m]
    BY <1>1, <2>1 DEF Put, Numbers
  <2>3. u = Recell(t, h, cells, free)
    BY <1>5 DEF EnterCell, Recell, TreeOf, Put
  <2> HIDE DEF h, u
  <2>4. HasCells(u, N, t, h, cells, free)
    BY <1>1, <2>2, <2>3, Recelled
  <2>5. Holds(h, cells, freq, S2, pos)
    <3>1. SUFFICES ASSUME NEW m \in S2
                   PROVE  /\ h[m] \in 1..Len(cells)
                          /\ cells[h[m]] \in S2
                          /\ freq[cells[h[m]]] = freq[m]
                          /\ \A k \in S2 : freq[k] = freq[m] =>
                               h[k] = h[m] /\ pos[k] <= pos[cells[h[m]]]
      BY DEF Holds
    <3> DEFINE m2 == IF m = n THEN q ELSE m
    <3>2. m2 \in S /\ freq[m2] = freq[m] /\ h[m] = head[m2]
      BY <2>1, <2>2
    <3> HIDE DEF m2
    <3>3. ASSUME NEW k \in S2, freq[k] = freq[m]
          PROVE  h[k] = h[m] /\ pos[k] <= pos[cells[h[m]]]
      <4>1. CASE k = n
        <5>1. head[q] = head[m2] /\ pos[q] <= pos[cells[head[m2]]] /\ pos[n] <= pos[q]
          <6>1. m2 \in S /\ q \in S /\ freq[q] = freq[m2] /\ freq[q] = freq[n]
            BY <2>1, <3>2, <3>3, <4>1
          <6>2. head[q] = head[m2] /\ pos[q] <= pos[cells[head[m2]]]
            BY <1>4, <6>1
          <6>3. pos[n] <= pos[q]
            BY <6>1
          <6> QED BY <6>2, <6>3
        <5>2. q \in 1..N /\ cells[head[m2]] \in 1..N
          BY <1>4, <2>1, <3>2
        <5> QED BY <2>2, <3>2, <4>1, <5>1, <5>2
      <4>2. CASE k # n
        BY <1>4, <2>2, <3>2, <3>3, <4>2
      <4> QED BY <4>1, <4>2
    <3> QED BY <1>4, <3>2, <3>3
  <2>6. \A d \in 1..Len(cells) : (\E m \in S : head[m] = d) <=> (\E m \in S2 : h[m] = d)
    BY <2>1, <2>2
  <2>7. Chain(h, cells, free, S2, rank, R)
    <3> HIDE DEF head, cells, free, S2
    <3> QED BY <1>1, <1>3, <2>6, ChainKept
  <2>9. u.head = h /\ u.cells = cells /\ u.free = free /\ u.freq = freq
    BY <2>4 DEF HasCells, OnlyCelled
  <2>10. InCells(u, S2, pos)
    BY <2>5, <2>7, <2>9 DEF InCells
  <2> QED BY <2>4, <2>10 DEF HasEntered, HasCells, u
<1>6. CASE ~ Alike(t, n, q)
  <2>1. \A m \in S : freq[m] # freq[n]
    BY <1>6
  <2>2. u = Huff_GetNode(t, n)
    BY <1>6 DEF EnterCell
  <2> HIDE DEF u
  <2>3. free \in 0..Len(cells)
    BY <1>3 DEF Chain
  <2> DEFINE c == IF free = Nil THEN Len(cells) + 1 ELSE free
             h == Put(t.head, n, c)
             cells2 == IF free = Nil THEN Append(cells, n) ELSE Put(cells, free, n)
             free2 == IF free = Nil THEN Nil ELSE cells[free]
  <2>4. HasCells(u, N, t, h, cells2, free2)
    BY <2>2, <2>3, GetIs
  <2>5. /\ \A m \in 1..N : h[m] = IF m = n THEN c ELSE head[m]
    BY <1>1 DEF Put, Numbers
  <2> HIDE DEF h
  <2>6. h[n] = c /\ \A m \in S : h[m] = head[m] /\ h[m] \in 1..Len(cells) /\ h[m] # c
    <3>1. \A m \in S : head[m] # c
      <4>1. CASE free = Nil
        BY <1>1, <1>4, <4>1
      <4>2. CASE free # Nil
        <5>1. rank[free] # 0 /\ free \in 1..Len(cells)
          BY <1>3, <4>2 DEF Chain, Nil
        <5>2. \A m \in S : head[m] # free
          BY <1>3, <5>1 DEF Chain
        <5> QED BY <4>2, <5>2
      <4> QED BY <4>1, <4>2
    <3> QED BY <1>4, <2>5, <3>1
  <2>7. /\ cells2[c] = n /\ c \in 1..Len(cells2)
        /\ Len(cells) <= Len(cells2)
        /\ \A d \in 1..Len(cells) : d # c => cells2[d] = cells[d]
    <3>1. CASE free = Nil
      <4>1. cells2 = Append(cells, n) /\ c = Len(cells) + 1
        BY <3>1
      <4> HIDE DEF cells2, c
      <4> QED BY <1>1, <4>1
    <3>2. CASE free # Nil
      <4>1. cells2 = Put(cells, free, n) /\ c = free /\ free \in 1..Len(cells)
        BY <2>3, <3>2 DEF Nil
      <4> HIDE DEF cells2, c
      <4> QED BY <1>1, <4>1 DEF Put
    <3> QED BY <3>1, <3>2
  <2>8. \E rank2, R2 : Chain(h, cells2, free2, S2, rank2, R2)
    <3>1. CASE free = Nil
      <4>1. cells2 = Append(cells, n) /\ free2 = Nil /\ h[n] = Len(cells) + 1
        BY <2>6, <3>1
      <4>2. \A m \in S : h[m] = head[m] /\ head[m] \in 1..Len(cells)
        BY <2>6
      <4>3. n \in Nat
        OBVIOUS
      <4> DEFINE rank2 == [d \in 1..(Len(cells) + 1) |-> 0]
      <4>4. Chain(h, Append(cells, n), Nil, S2, rank2, 0)
        <5> HIDE DEF head, cells, free
        <5> QED BY <1>1, <1>3, <3>1, <4>1, <4>2, <4>3, ChainAppended
      <4> QED BY <4>1, <4>4
    <3>2. CASE free # Nil
      <4>1. cells2 = Put(cells, free, n) /\ free2 = cells[free] /\ h[n] = free
        BY <2>6, <3>2
      <4>2. \A m \in S : h[m] = head[m]
        BY <2>6
      <4>3. n \in Nat
        OBVIOUS
      <4>4. Chain(h, Put(cells, free, n), cells[free], S2, Ranked(rank, cells, free, 0), R - 1)
        <5> HIDE DEF head, cells, free
        <5> QED BY <1>1, <1>3, <3>2, <4>1, <4>2, <4>3, ChainShorter
      <4> QED BY <4>1, <4>4
    <3> QED BY <3>1, <3>2
  <2> HIDE DEF c, cells2, free2
  <2>9. Holds(h, cells2, freq, S2, pos)
    <3>1. SUFFICES ASSUME NEW m \in S2
                   PROVE  /\ h[m] \in 1..Len(cells2)
                          /\ cells2[h[m]] \in S2
                          /\ freq[cells2[h[m]]] = freq[m]
                          /\ \A k \in S2 : freq[k] = freq[m] =>
                               h[k] = h[m] /\ pos[k] <= pos[cells2[h[m]]]
      BY DEF Holds
    <3>2. CASE m = n
      <4>1. \A k \in S2 : freq[k] = freq[m] => k = m
        BY <2>1, <3>2
      <4> QED BY <2>6, <2>7, <3>2, <4>1
    <3>3. CASE m # n
      <4>1. m \in S /\ h[m] = head[m] /\ h[m] # c /\ h[m] \in 1..Len(cells) /\ freq[m] # freq[n]
        BY <2>1, <2>6, <3>3
      <4>2. cells2[h[m]] = cells[head[m]]
        BY <2>7, <4>1
      <4>3. \A k \in S2 : freq[k] = freq[m] => k \in S /\ h[k] = head[k]
        BY <2>6, <4>1
      <4>4. h[m] \in 1..Len(cells2)
        <5>1. Len(cells) \in Nat /\ cells2 \in Seq(Nat)
          BY <1>1, <2>4 DEF HasCells, TreeOf
        <5> QED BY <2>7, <4>1, <5>1
      <4> QED BY <1>4, <4>1, <4>2, <4>3, <4>4
    <3> QED BY <3>2, <3>3
  <2>10. u.head = h /\ u.cells = cells2 /\ u.free = free2 /\ u.freq = freq
    BY <2>4 DEF HasCells, OnlyCelled
  <2>11. InCells(u, S2, pos)
    BY <2>8, <2>9, <2>10 DEF InCells
  <2> QED BY <2>4, <2>11 DEF HasEntered, HasCells, u
<1> QED BY <1>5, <1>6

-----------------------------------------------------------------------------
(* The same tree with other weights.                                       *)
Reweigh(t, f) == [t EXCEPT !.freq = f]

(* A tree that differs in its weights only.                                *)
OnlyWeighed(t, u) ==
  SameTree(t, u) /\ SameList(t, u) /\ SameCells(t, u) /\ SameBytes(t, u)

(* A tree with these weights.                                              *)
HasWeights(u, N, t, f) == u \in TreeOf(N) /\ OnlyWeighed(u, t) /\ u.freq = f

(* Only the weights are others.                                            *)
LEMMA Reweighed ==
  ASSUME NEW N \in Nat, NEW t \in TreeOf(N), NEW f \in Numbers(N)
  PROVE  HasWeights(Reweigh(t, f), N, t, f)
BY DEF HasWeights, Reweigh, TreeOf, Numbers, OnlyWeighed, SameTree, SameList, SameCells, SameBytes

(* The list goes from the lowest weight to the highest.                    *)
Sorted(freq, pos, N) == \A m, n \in 1..N : pos[m] <= pos[n] => freq[m] <= freq[n]

(* The node for new bytes is first, and the only one that weighs nothing.  *)
Least(freq, pos, N) ==
  /\ N >= 1 /\ pos[First] = 1 /\ freq[First] = 0
  /\ \A n \in 2..N : freq[n] >= 1

(* The list, and what it is for.                                           *)
Listed(t, N, pos) ==
  /\ InList(t, N, pos)
  /\ Sorted(t.freq, pos, N)
  /\ Least(t.freq, pos, N)
  /\ InCells(t, 2..N, pos)

(* Node n weighs one more.                                                 *)
Heavier(t, n) == [t EXCEPT !.freq[n] = @ + 1]

(* Node n weighs one more, and the list and its cells are right for it.    *)
HasRisen(u, N, t, pos, n) ==
  /\ u \in TreeOf(N) /\ SameTree(u, t) /\ SameBytes(u, t)
  /\ Listed(u, N, pos)
  /\ u.freq[n] = t.freq[n] + 1
  /\ \A m \in 1..N : m # n => u.freq[m] = t.freq[m]

(* The last node of its frequency leaves it for the next one without       *)
(* leaving its place: the list stays sorted, and the cells follow.         *)
LEMMA Rises ==
  ASSUME NEW N \in Nat, NEW t \in TreeOf(N), NEW pos1, NEW pos, InList(t, N, pos),
         Sorted(t.freq, pos, N), Least(t.freq, pos, N), InCells(t, 2..N, pos1), NEW n \in 2..N,
         \A m \in 2..N : t.freq[m] # t.freq[n] => pos1[m] = pos[m],
         \A m \in 1..N : t.freq[m] = t.freq[n] => pos[m] <= pos[n]
  PROVE  HasRisen(EnterCell(Heavier(LeaveCell(t, n), n), n), N, t, pos, n)
<1> DEFINE S == 2..N
           u1 == LeaveCell(t, n)
           u2 == Heavier(u1, n)
           u3 == EnterCell(u2, n)
           freq == t.freq
           next == t.next
           prev == t.prev
<1>1. freq \in Numbers(N) /\ S \in SUBSET (1..N) /\ n \in 1..N
  BY DEF TreeOf, Numbers
<1>2. \A m \in 1..N : freq[m] \in Nat
  BY <1>1 DEF Numbers
<1>3. /\ \A m \in 1..N : pos[m] \in 1..N /\ next[m] \in 0..N /\ prev[m] \in 0..N
      /\ \A m \in 1..N, k \in 1..N : pos[m] = pos[k] => m = k
      /\ \A m \in 1..N : next[m] = 0 <=> pos[m] = N
      /\ \A m \in 1..N : prev[m] = 0 <=> pos[m] = 1
      /\ \A m \in 1..N : next[m] # 0 => pos[next[m]] = pos[m] + 1
      /\ \A m \in 1..N : prev[m] # 0 => pos[prev[m]] = pos[m] - 1
  BY DEF InList, Order, Nil
<1>4. \A m \in 1..N, k \in 1..N : pos[m] <= pos[k] => freq[m] <= freq[k]
  BY DEF Sorted
<1>5. /\ 1 \in 1..N /\ pos[1] = 1 /\ freq[1] = 0
      /\ \A m \in S : freq[m] >= 1
  BY <1>1 DEF Least, First
<1> HIDE DEF u1, u2, u3
<1>6. HasLeft(u1, N, t, S, pos, n)
  <2> DEFINE p == prev[n]
  <2>1. p \in 1..N /\ pos[p] = pos[n] - 1
    BY <1>1, <1>3, <1>5
  <2>2. \A m \in S : m # n /\ freq[m] = freq[n] => pos[m] <= pos[p]
    BY <1>1, <1>3, <2>1
  <2>3. Alike(t, n, p) => p \in S /\ p # n
    <3>1. p # n
      BY <1>1, <1>3, <2>1
    <3>2. freq[n] >= 1
      BY <1>5
    <3>3. freq[p] = freq[n] => p # 1
      BY <1>5, <3>2
    <3> QED BY <2>1, <3>1, <3>3 DEF Alike
  <2>4. ~ Alike(t, n, p) => \A m \in S : freq[m] = freq[n] => m = n
    <3>1. SUFFICES ASSUME freq[p] # freq[n], NEW m \in S, freq[m] = freq[n], m # n PROVE FALSE
      BY <1>1, <1>3, <1>5 DEF Alike, Nil
    <3>2. pos[m] <= pos[p] /\ pos[p] <= pos[n]
      BY <1>1, <1>3, <2>1, <2>2, <3>1
    <3>3. m \in 1..N
      OBVIOUS
    <3>4. freq[m] <= freq[p] /\ freq[p] <= freq[n]
      BY <1>1, <1>4, <2>1, <3>2, <3>3
    <3> QED BY <1>1, <1>2, <2>1, <3>1, <3>3, <3>4
  <2> HIDE DEF p, S
  <2>5. \A m \in S : t.freq[m] # t.freq[n] => pos1[m] = pos[m]
    BY DEF S
  <2>6. n \in S /\ InCells(t, S, pos1)
    BY DEF S
  <2>7. /\ Alike(t, n, t.prev[n]) =>
             /\ t.prev[n] \in S /\ t.prev[n] # n
             /\ \A m \in S : m # n /\ t.freq[m] = t.freq[n] => pos[m] <= pos[t.prev[n]]
        /\ ~ Alike(t, n, t.prev[n]) => \A m \in S : t.freq[m] = t.freq[n] => m = n
    BY <2>2, <2>3, <2>4 DEF p
  <2> QED BY <1>1, <2>5, <2>6, <2>7, LeavesCell DEF u1
<1>7. u1 \in TreeOf(N) /\ OnlyCelled(u1, t) /\ InCells(u1, S \ {n}, pos)
  BY <1>6 DEF HasLeft
<1>8. u1.freq = freq /\ u1.next = next
  BY <1>7 DEF OnlyCelled, SameList
<1> DEFINE f == Put(freq, n, freq[n] + 1)
<1>9. /\ f \in Numbers(N)
      /\ f[n] = freq[n] + 1
      /\ \A m \in 1..N : m # n => f[m] = freq[m]
  BY <1>1, <1>2 DEF Put, Numbers
<1>10. u2 = Reweigh(u1, f)
  BY <1>7, <1>8 DEF u2, Heavier, Reweigh, TreeOf, Put
<1> HIDE DEF f
<1>11. HasWeights(u2, N, u1, f)
  BY <1>7, <1>9, <1>10, Reweighed
<1>12. /\ u2 \in TreeOf(N) /\ OnlyWeighed(u2, u1) /\ u2.freq = f /\ u2.next = next
  BY <1>8, <1>11 DEF HasWeights, OnlyWeighed, SameList
<1>13. InCells(u2, S \ {n}, pos)
  <2>1. /\ Holds(u1.head, u1.cells, freq, S \ {n}, pos)
        /\ \E rank, R : Chain(u1.head, u1.cells, u1.free, S \ {n}, rank, R)
    BY <1>7, <1>8 DEF InCells
  <2>2. Holds(u1.head, u1.cells, f, S \ {n}, pos)
    <3>1. \A m \in S \ {n} : f[m] = freq[m]
      BY <1>9
    <3> QED BY <2>1, <3>1 DEF Holds
  <2>3. u2.head = u1.head /\ u2.cells = u1.cells /\ u2.free = u1.free
    BY <1>12 DEF OnlyWeighed, SameCells
  <2> QED BY <1>12, <2>1, <2>2, <2>3 DEF InCells
<1>14. \A m \in 1..N : pos[m] > pos[n] => freq[m] >= freq[n] + 1
  <2>1. SUFFICES ASSUME NEW m \in 1..N, pos[m] > pos[n] PROVE freq[m] >= freq[n] + 1
    OBVIOUS
  <2>2. n \in 1..N /\ pos[m] \in Nat /\ pos[n] \in Nat /\ freq[m] \in Nat /\ freq[n] \in Nat
    BY <1>1, <1>2, <1>3
  <2>3. freq[n] <= freq[m]
    BY <1>4, <2>1, <2>2
  <2>4. freq[m] # freq[n]
    BY <1>1, <2>1, <2>2
  <2> QED BY <2>2, <2>3, <2>4
<1>15. \A m \in 1..N : pos[m] < pos[n] => freq[m] <= freq[n]
  BY <1>1, <1>3, <1>4
<1>16. HasEntered(u3, N, u2, S \ {n}, pos, n)
  <2> DEFINE q == next[n]
  <2>1. Alike(u2, n, q) => q \in S \ {n}
    <3>1. SUFFICES ASSUME q # 0 PROVE q \in S \ {n}
      BY DEF Alike, Nil
    <3>2. q \in 1..N /\ pos[q] = pos[n] + 1 /\ pos[n] \in 1..N
      BY <1>1, <1>3, <3>1
    <3>3. q # 1 /\ q # n
      BY <1>5, <3>2
    <3> QED BY <3>2, <3>3
  <2>2. ASSUME ~ Alike(u2, n, q), NEW m \in S \ {n}, f[m] = f[n] PROVE FALSE
    <3>1. m \in 1..N /\ freq[m] = freq[n] + 1
      BY <1>9, <2>2
    <3>2. pos[m] > pos[n]
      <4>1. pos[m] \in 1..N /\ pos[n] \in 1..N /\ freq[m] \in Nat /\ freq[n] \in Nat
        BY <1>1, <1>2, <1>3, <3>1
      <4>2. pos[m] # pos[n]
        BY <1>1, <1>3, <2>2, <3>1
      <4>3. ~ (pos[m] < pos[n])
        BY <1>15, <3>1, <4>1
      <4> QED BY <4>1, <4>2, <4>3
    <3>3. q \in 1..N /\ pos[q] = pos[n] + 1 /\ q # n
      BY <1>1, <1>3, <3>1, <3>2
    <3>4. pos[q] <= pos[m]
      BY <1>1, <1>3, <3>1, <3>2, <3>3
    <3>5. freq[q] <= freq[m] /\ freq[q] >= freq[n] + 1
      <4>1. freq[q] <= freq[m]
        BY <1>4, <3>1, <3>3, <3>4
      <4>2. pos[n] \in 1..N /\ pos[q] > pos[n]
        BY <1>1, <1>3, <3>3
      <4>3. freq[q] >= freq[n] + 1
        BY <1>14, <3>3, <4>2
      <4> QED BY <4>1, <4>3
    <3>6. f[q] = f[n]
      <4>1. freq[q] \in Nat /\ freq[n] \in Nat /\ f[q] = freq[q] /\ f[n] = freq[n] + 1
        BY <1>1, <1>2, <1>9, <3>3
      <4> QED BY <3>1, <3>5, <4>1
    <3> QED BY <1>12, <2>2, <3>3, <3>6 DEF Alike, Nil
  <2>3. \A m \in S \ {n} : f[m] = f[n] => pos[n] <= pos[m]
    <3>1. SUFFICES ASSUME NEW m \in S \ {n}, f[m] = f[n] PROVE pos[n] <= pos[m]
      OBVIOUS
    <3>2. m \in 1..N /\ m # n
      BY <1>1
    <3>3. pos[m] \in 1..N /\ pos[n] \in 1..N /\ freq[m] \in Nat /\ freq[n] \in Nat
      BY <1>1, <1>2, <1>3, <3>2
    <3>4. freq[m] = freq[n] + 1
      BY <1>9, <3>1, <3>2
    <3>5. ~ (pos[m] < pos[n])
      BY <1>15, <3>2, <3>3, <3>4, SMTT(30)
    <3> QED BY <3>3, <3>5
  <2>4. \A m \in 1..N : pos[m] \in Nat
    BY <1>3
  <2> HIDE DEF q, S
  <2>5. /\ Alike(u2, n, u2.next[n]) => u2.next[n] \in S \ {n}
        /\ ~ Alike(u2, n, u2.next[n]) => \A m \in S \ {n} : u2.freq[m] # u2.freq[n]
        /\ \A m \in S \ {n} : u2.freq[m] = u2.freq[n] => pos[n] <= pos[m]
    BY <1>12, <2>1, <2>2, <2>3 DEF q
  <2>6. S \ {n} \in SUBSET (1..N) /\ n \notin S \ {n}
    BY <1>1
  <2> QED BY <1>1, <1>12, <1>13, <2>4, <2>5, <2>6, EntersCell DEF u3
<1>17. u3 \in TreeOf(N) /\ OnlyCelled(u3, u2) /\ InCells(u3, (S \ {n}) \cup {n}, pos)
  BY <1>16 DEF HasEntered
<1>18. (S \ {n}) \cup {n} = S
  OBVIOUS
<1>19. SameTree(u3, t) /\ SameBytes(u3, t) /\ SameList(u3, t) /\ u3.freq = f
  BY <1>7, <1>12, <1>17 DEF OnlyCelled, OnlyWeighed, SameTree, SameBytes, SameList
<1>20. Sorted(f, pos, N)
  <2>1. SUFFICES ASSUME NEW m \in 1..N, NEW k \in 1..N, pos[m] <= pos[k] PROVE f[m] <= f[k]
    BY DEF Sorted
  <2>2. freq[m] <= freq[k] /\ freq[m] \in Nat /\ freq[k] \in Nat
    BY <1>2, <1>4, <2>1
  <2>3. CASE m = n /\ k # n
    <3>1. pos[k] > pos[n]
      BY <1>1, <1>3, <2>1, <2>3
    <3> QED BY <1>9, <1>14, <2>3, <3>1
  <2>4. CASE m # n \/ k = n
    BY <1>2, <1>9, <2>2, <2>4
  <2> QED BY <2>3, <2>4
<1>21. Least(f, pos, N)
  <2>1. f[1] = 0
    BY <1>5, <1>9
  <2>2. \A m \in 2..N : f[m] >= 1
    BY <1>2, <1>5, <1>9
  <2> QED BY <1>5, <2>1, <2>2 DEF Least, First
<1>22. Listed(u3, N, pos)
  BY <1>17, <1>18, <1>19, <1>20, <1>21 DEF Listed, InList, SameList
<1> QED BY <1>9, <1>17, <1>19, <1>22 DEF HasRisen, u1, u2, u3

-----------------------------------------------------------------------------
(* Node n is raised: it changes places with z, the last node of its        *)
(* frequency, also in the tree, unless that is n itself or its parent.     *)
Raised(u, t, N, pos, pos2, n, z) ==
  /\ z \in 2..N /\ t.freq[z] = t.freq[n] /\ pos[n] <= pos[z]
  /\ \A m \in 1..N : t.freq[m] = t.freq[n] => pos[m] <= pos[z]
  /\ \A m \in 1..N : pos2[m] = IF m = z THEN pos[n] ELSE IF m = n THEN pos[z] ELSE pos[m]
  /\ u \in TreeOf(N) /\ SameBytes(u, t) /\ Listed(u, N, pos2)
  /\ u.freq[n] = t.freq[n] + 1
  /\ \A m \in 1..N : m # n => u.freq[m] = t.freq[m]
  /\ IF z = n \/ z = t.parent[n] THEN SameTree(u, t) ELSE SameTree(u, Huff_Swap(t, z, n))

(* Raise does that.                                                        *)
LEMMA RaiseIs ==
  ASSUME NEW N \in Nat, NEW t \in TreeOf(N), NEW pos, Listed(t, N, pos), Shape(t, N),
         NEW n \in 2..N
  PROVE  \E pos2, z : Raised(Raise(t, n), t, N, pos, pos2, n, z)
<1> DEFINE S == 2..N
           freq == t.freq
           next == t.next
           head == t.head
           cells == t.cells
           u == Raise(t, n)
           front == ToTheFront(t, n)
<1>1. \A m \in 1..N : freq[m] \in Nat
  BY DEF TreeOf
<1>2. InList(t, N, pos) /\ Sorted(freq, pos, N) /\ Least(freq, pos, N) /\ InCells(t, S, pos)
  BY DEF Listed
<1>3. /\ \A m \in 1..N : pos[m] \in 1..N /\ next[m] \in 0..N
      /\ \A m \in 1..N, k \in 1..N : pos[m] = pos[k] => m = k
      /\ \A m \in 1..N : next[m] = 0 <=> pos[m] = N
      /\ \A m \in 1..N : next[m] # 0 => pos[next[m]] = pos[m] + 1
  BY <1>2 DEF InList, Order, Nil
<1>4. \A m \in 1..N, k \in 1..N : pos[m] <= pos[k] => freq[m] <= freq[k]
  BY <1>2 DEF Sorted
<1>5. /\ 1 \in 1..N /\ pos[1] = 1 /\ freq[1] = 0
      /\ \A m \in S : freq[m] >= 1
  BY <1>2 DEF Least, First
<1>6. u = EnterCell(Heavier(LeaveCell(front, n), n), n)
  BY DEF Raise, Heavier
<1>7. n \in 1..N /\ pos[n] \in 1..N
  BY <1>3
<1> HIDE DEF front, u
<1>8. CASE Alike(t, n, next[n])
  <2> DEFINE z == cells[head[n]]
             v == IF z = t.parent[n] THEN t ELSE Huff_Swap(t, z, n)
             pos2 == Exchanged(pos, N, z, n)
  <2>1. front = Huff_SwapTrees(v, z, n)
    BY <1>8 DEF front, ToTheFront, Cell
  <2>2. /\ z \in S /\ freq[z] = freq[n]
        /\ \A m \in S : freq[m] = freq[n] => pos[m] <= pos[z]
    BY <1>2 DEF InCells, Holds
  <2>3. next[n] \in 1..N /\ pos[next[n]] = pos[n] + 1 /\ freq[next[n]] = freq[n]
    BY <1>3, <1>7, <1>8 DEF Alike, Nil
  <2> HIDE DEF z
  <2>4. z \in 1..N /\ pos[z] \in 1..N /\ pos[n] < pos[z] /\ z # n
    <3>1. z \in 1..N
      BY <2>2
    <3>2. next[n] \in S
      BY <1>5, <1>7, <2>3
    <3>3. pos[n] + 1 <= pos[z]
      BY <2>2, <2>3, <3>2
    <3> QED BY <1>3, <1>7, <3>1, <3>3
  <2>5. v \in TreeOf(N) /\ OnlyShaped(v, t)
    <3>1. CASE z = t.parent[n]
      BY <3>1 DEF OnlyShaped, SameList, SameCells, SameBytes
    <3>2. CASE z # t.parent[n]
      BY <1>7, <2>4, <3>2, SwapIs
    <3> QED BY <3>1, <3>2
  <2>6. IF z = n \/ z = t.parent[n] THEN SameTree(v, t) ELSE SameTree(v, Huff_Swap(t, z, n))
    BY <2>4 DEF SameTree
  <2> HIDE DEF v
  <2>7. InList(v, N, pos)
    BY <1>2, <2>5 DEF InList, OnlyShaped, SameList
  <2>8. /\ front \in TreeOf(N) /\ OnlyListed(front, v) /\ InList(front, N, pos2)
    BY <1>7, <2>1, <2>4, <2>5, <2>7, SwapTreesIs
  <2>9. \A m \in 1..N : pos2[m] = IF m = z THEN pos[n] ELSE IF m = n THEN pos[z] ELSE pos[m]
    BY DEF Exchanged
  <2> HIDE DEF pos2
  <2>10. front.freq = freq /\ SameCells(front, t) /\ SameBytes(front, t) /\ SameTree(front, v)
    BY <2>5, <2>8 DEF OnlyShaped, OnlyListed, SameCells, SameBytes
  <2>11. \A m \in 1..N : freq[m] = freq[n] => pos[m] <= pos[z]
    <3>1. freq[1] # freq[n]
      BY <1>5
    <3> QED BY <2>2, <3>1
  <2>12. Sorted(freq, pos2, N)
    <3>1. SUFFICES ASSUME NEW m \in 1..N, NEW k \in 1..N, pos2[m] <= pos2[k]
                   PROVE  freq[m] <= freq[k]
      BY DEF Sorted
    <3> DEFINE m2 == Other(z, n, m)
               k2 == Other(z, n, k)
    <3>2. m2 \in 1..N /\ pos2[m] = pos[m2] /\ freq[m] = freq[m2]
      BY <1>7, <2>2, <2>4, <2>9 DEF Other
    <3>3. k2 \in 1..N /\ pos2[k] = pos[k2] /\ freq[k] = freq[k2]
      BY <1>7, <2>2, <2>4, <2>9 DEF Other
    <3> QED BY <1>4, <3>1, <3>2, <3>3
  <2>13. Least(freq, pos2, N)
    <3>1. pos2[1] = 1
      BY <1>5, <2>2, <2>9
    <3> QED BY <1>2, <3>1 DEF Least, First
  <2>14. InCells(front, S, pos)
    BY <1>2, <2>10 DEF InCells, SameCells
  <2>15. \A m \in S : freq[m] # freq[n] => pos[m] = pos2[m]
    BY <2>2, <2>9
  <2>16. \A m \in 1..N : freq[m] = freq[n] => pos2[m] <= pos2[n]
    <3>1. SUFFICES ASSUME NEW m \in 1..N, freq[m] = freq[n] PROVE pos2[m] <= pos2[n]
      OBVIOUS
    <3>2. pos2[n] = pos[z]
      BY <1>7, <2>4, <2>9
    <3>3. pos2[m] = pos[Other(z, n, m)] /\ freq[Other(z, n, m)] = freq[n]
      BY <2>2, <2>9, <3>1 DEF Other
    <3>4. Other(z, n, m) \in 1..N
      BY <1>7, <2>4 DEF Other
    <3> QED BY <2>11, <3>2, <3>3, <3>4
  <2>17. HasRisen(u, N, front, pos2, n)
    <3> HIDE DEF freq, S
    <3>1. /\ Sorted(front.freq, pos2, N) /\ Least(front.freq, pos2, N)
          /\ InCells(front, 2..N, pos)
          /\ \A m \in 2..N : front.freq[m] # front.freq[n] => pos[m] = pos2[m]
          /\ \A m \in 1..N : front.freq[m] = front.freq[n] => pos2[m] <= pos2[n]
      BY <2>10, <2>12, <2>13, <2>14, <2>15, <2>16 DEF S
    <3> QED BY <1>6, <2>8, <3>1, Rises
  <2>18. IF z = n \/ z = t.parent[n] THEN SameTree(u, t) ELSE SameTree(u, Huff_Swap(t, z, n))
    BY <2>6, <2>10, <2>17 DEF HasRisen, SameTree
  <2>19. /\ u \in TreeOf(N) /\ SameBytes(u, t) /\ Listed(u, N, pos2)
         /\ u.freq[n] = freq[n] + 1 /\ \A m \in 1..N : m # n => u.freq[m] = freq[m]
    BY <2>10, <2>17 DEF HasRisen, SameBytes
  <2>20. pos[n] <= pos[z]
    BY <1>7, <2>4
  <2>21. Raised(u, t, N, pos, pos2, n, z)
    BY <2>2, <2>9, <2>11, <2>18, <2>19, <2>20 DEF Raised
  <2> QED BY <2>21 DEF u
<1>9. CASE ~ Alike(t, n, next[n])
  <2>1. front = t
    BY <1>9 DEF front, ToTheFront
  <2>2. \A m \in 1..N : freq[m] = freq[n] => pos[m] <= pos[n]
    <3>1. SUFFICES ASSUME NEW m \in 1..N, freq[m] = freq[n], ~ (pos[m] <= pos[n]) PROVE FALSE
      OBVIOUS
    <3>2. pos[m] \in 1..N /\ pos[m] > pos[n] /\ freq[n] \in Nat
      BY <1>1, <1>3, <1>7, <3>1
    <3>3. next[n] \in 1..N /\ pos[next[n]] = pos[n] + 1
      BY <1>3, <1>7, <3>2
    <3>4. freq[next[n]] <= freq[m] /\ freq[n] <= freq[next[n]] /\ freq[next[n]] \in Nat
      BY <1>1, <1>4, <1>7, <3>2, <3>3
    <3>5. freq[next[n]] = freq[n]
      BY <3>1, <3>2, <3>4
    <3> QED BY <1>9, <3>3, <3>5 DEF Alike, Nil
  <2>3. HasRisen(u, N, t, pos, n)
    <3> HIDE DEF freq, S
    <3>1. /\ Sorted(t.freq, pos, N) /\ Least(t.freq, pos, N) /\ InCells(t, 2..N, pos)
          /\ \A m \in 1..N : t.freq[m] = t.freq[n] => pos[m] <= pos[n]
          /\ \A m \in 2..N : t.freq[m] # t.freq[n] => pos[m] = pos[m]
      BY <1>2, <2>2 DEF freq, S
    <3> QED BY <1>2, <1>6, <2>1, <3>1, Rises
  <2>4. pos[n] <= pos[n]
    BY <1>7
  <2>5. Raised(u, t, N, pos, pos, n, n)
    BY <2>2, <2>3, <2>4 DEF Raised, HasRisen, SameTree
  <2> QED BY <2>5 DEF u
<1> QED BY <1>8, <1>9

-----------------------------------------------------------------------------
(* An inner node weighs what its children weigh, but for node y, which is  *)
(* one behind.                                                             *)
Sum(t, N, y) ==
  \A q \in 1..N : t.symbol[q] = NodeNext =>
    t.freq[t.left[q]] + t.freq[t.right[q]] = t.freq[q] + (IF q = y THEN 1 ELSE 0)

(* The other child of a node's parent.                                     *)
LEMMA OtherChild ==
  ASSUME NEW N \in Nat, NEW left, NEW right, NEW parent, NEW root, NEW symbol,
         Hangs(left, right, parent, root, symbol, N), NEW n \in 1..N, parent[n] # Nil,
         NEW w, \A m \in 1..N : w[m] \in Nat
  PROVE  \E o \in 1..N :
           /\ o # n /\ parent[o] = parent[n] /\ parent[n] \in 1..N
           /\ symbol[parent[n]] = NodeNext
           /\ w[left[parent[n]]] + w[right[parent[n]]] = w[n] + w[o]
           /\ \A m \in 1..N : parent[m] = parent[n] => m = n \/ m = o
<1> DEFINE p == parent[n]
<1>1. p \in 1..N /\ symbol[p] = NodeNext /\ (left[p] = n \/ right[p] = n)
  BY DEF Hangs, Nil
<1>2. /\ left[p] \in 1..N /\ right[p] \in 1..N /\ left[p] # right[p]
      /\ parent[left[p]] = p /\ parent[right[p]] = p
  BY <1>1 DEF Hangs, Nil
<1>3. \A m \in 1..N : parent[m] = p => m = left[p] \/ m = right[p]
  BY <1>1 DEF Hangs, Nil
<1> HIDE DEF p
<1>4. CASE left[p] = n
  BY <1>1, <1>2, <1>3, <1>4 DEF p
<1>5. CASE right[p] = n
  <2>1. w[left[p]] \in Nat /\ w[n] \in Nat
    BY <1>2
  <2> QED BY <1>1, <1>2, <1>3, <1>5, <2>1 DEF p
<1> QED BY <1>1, <1>4, <1>5

(* After y was raised its new parent is the one that is one behind; in the *)
(* new form the weights of before sum up as they did.                      *)
HasSums(u, t, N, y, z) ==
  /\ Shape(u, N) /\ u.symbol = t.symbol
  /\ \A n \in 1..N :
       u.parent[n] = IF z = t.parent[y] THEN t.parent[n] ELSE t.parent[Other(z, y, n)]
  /\ \A q \in 1..N : u.symbol[q] = NodeNext =>
       t.freq[u.left[q]] + t.freq[u.right[q]] = t.freq[q] + (IF q = y THEN 1 ELSE 0)
  /\ Sum(u, N, u.parent[y])

(* Raising y passes the debt on to its parent: y changes places with a     *)
(* node of its own weight, so that no other sum changes.                   *)
LEMMA RaiseSums ==
  ASSUME NEW N \in Nat, NEW t \in TreeOf(N), Shape(t, N), NEW y \in 2..N, Sum(t, N, y),
         NEW u, NEW pos, NEW pos2, NEW z, Raised(u, t, N, pos, pos2, y, z),
         t.parent[y] # y, z # y => t.parent[z] # y
  PROVE  HasSums(u, t, N, y, z)
<1> DEFINE w == t.freq
           left == t.left
           right == t.right
           parent == t.parent
           symbol == t.symbol
           left2 == u.left
           right2 == u.right
           parent2 == u.parent
           w2 == u.freq
<1>1. /\ z \in 1..N /\ y \in 1..N /\ w[z] = w[y] /\ u \in TreeOf(N)
      /\ w2[y] = w[y] + 1
      /\ \A m \in 1..N : m # y => w2[m] = w[m]
      /\ u.symbol = symbol /\ u.loc = t.loc
  BY DEF Raised, SameBytes
<1>2. \A m \in 1..N : w[m] \in Nat
  BY DEF TreeOf
<1>3. IF z = y \/ z = parent[y] THEN SameTree(u, t) ELSE SameTree(u, Huff_Swap(t, z, y))
  BY DEF Raised
<1>4. Hangs(left, right, parent, t.root, symbol, N)
  BY DEF Shape
<1>5. \A q \in 1..N : symbol[q] = NodeNext =>
        w[left[q]] + w[right[q]] = w[q] + (IF q = y THEN 1 ELSE 0)
  BY DEF Sum
<1>6. \A q \in 1..N : left[q] \in 0..N /\ right[q] \in 0..N
  BY <1>4 DEF Hangs
<1> DEFINE Swapped ==
             /\ Shape(u, N)
             /\ \A n \in 1..N : parent2[n] =
                  IF z = parent[y] THEN parent[n] ELSE parent[Other(z, y, n)]
             /\ \A q \in 1..N : symbol[q] = NodeNext =>
                  w[left2[q]] + w[right2[q]] = w[q] + (IF q = y THEN 1 ELSE 0)
<1>7. ASSUME z = y \/ z = parent[y] PROVE Swapped
  <2>1. SameTree(u, t)
    BY <1>3, <1>7
  <2>2. Shape(u, N)
    BY <1>1, <2>1 DEF Shape, SameTree
  <2>3. left2 = left /\ right2 = right /\ parent2 = parent
    BY <2>1 DEF SameTree
  <2>4. \A n \in 1..N : z # parent[y] => Other(z, y, n) = n
    BY <1>7 DEF Other
  <2> HIDE DEF left, right, parent, left2, right2, parent2, w, symbol
  <2> QED BY <1>5, <2>2, <2>3, <2>4
<1>8. ASSUME z # y, z # parent[y] PROVE Swapped
  <2> DEFINE v == Huff_Swap(t, z, y)
  <2>1. SameTree(u, v)
    BY <1>3, <1>8
  <2>2. /\ v \in TreeOf(N) /\ OnlyShaped(v, t)
        /\ \A n \in 1..N : v.parent[n] = t.parent[Other(z, y, n)]
        /\ v.root = Other(z, y, t.root)
        /\ \/ \A n \in 1..N : /\ v.left[n] = Other(z, y, t.left[n])
                              /\ v.right[n] = Other(z, y, t.right[n])
           \/ t.parent[z] = t.parent[y] /\ \A n \in 1..N : /\ v.left[n] = t.left[n]
                                                           /\ v.right[n] = t.right[n]
    BY <1>1, <1>8, SwapIs
  <2>3. Shape(v, N)
    BY <1>1, <1>8, SwapHangs
  <2> HIDE DEF v
  <2>4. v.symbol = symbol /\ v.loc = t.loc
    BY <2>2 DEF OnlyShaped, SameBytes
  <2>5. Shape(u, N)
    BY <1>1, <2>1, <2>3, <2>4 DEF Shape, SameTree
  <2>6. left2 = v.left /\ right2 = v.right /\ parent2 = v.parent
    BY <2>1 DEF SameTree
  <2>7. \A n \in 1..N : parent2[n] = parent[Other(z, y, n)]
    BY <2>2, <2>6
  <2>8. \/ \A n \in 1..N : left2[n] = Other(z, y, left[n]) /\ right2[n] = Other(z, y, right[n])
        \/ \A n \in 1..N : left2[n] = left[n] /\ right2[n] = right[n]
    BY <2>2, <2>6
  <2>9. \A m \in 0..N : w[Other(z, y, m)] = w[m]
    BY <1>1 DEF Other
  <2> HIDE DEF left, right, parent, left2, right2, parent2, w, symbol
  <2>10. \A n \in 1..N : w[left2[n]] = w[left[n]] /\ w[right2[n]] = w[right[n]]
    BY <1>6, <2>8, <2>9
  <2> QED BY <1>5, <1>8, <2>5, <2>7, <2>10
<1>9. Swapped
  BY <1>7, <1>8
<1>10. Hangs(left2, right2, parent2, u.root, symbol, N)
  BY <1>1, <1>9 DEF Shape
<1>11. parent2[y] # y
  BY <1>1, <1>9 DEF Other
<1>12. \A q \in 1..N : symbol[q] = NodeNext =>
         w2[left2[q]] + w2[right2[q]] = w2[q] + (IF q = parent2[y] THEN 1 ELSE 0)
  <2> HIDE DEF left, right, parent, left2, right2, parent2, w, w2, symbol
  <2>1. SUFFICES ASSUME NEW q \in 1..N, symbol[q] = NodeNext
                 PROVE  w2[left2[q]] + w2[right2[q]] = w2[q] + (IF q = parent2[y] THEN 1 ELSE 0)
    OBVIOUS
  <2>2. /\ left2[q] \in 1..N /\ right2[q] \in 1..N /\ left2[q] # right2[q]
        /\ parent2[left2[q]] = q /\ parent2[right2[q]] = q
    BY <1>10, <2>1 DEF Hangs, Nil
  <2>3. w[left2[q]] + w[right2[q]] = w[q] + (IF q = y THEN 1 ELSE 0)
    BY <1>9, <2>1
  <2>4. w[left2[q]] \in Nat /\ w[right2[q]] \in Nat /\ w[q] \in Nat
    BY <1>2, <2>2
  <2>5. CASE q = parent2[y]
    <3>1. q # y /\ w2[q] = w[q]
      BY <1>1, <1>11, <2>5
    <3>2. y = left2[q] \/ y = right2[q]
      BY <1>1, <1>10, <2>1, <2>5 DEF Hangs, Nil
    <3>3. CASE y = left2[q]
      <4>1. w2[left2[q]] = w[left2[q]] + 1 /\ w2[right2[q]] = w[right2[q]]
        BY <1>1, <2>2, <3>3
      <4> QED BY <2>3, <2>4, <2>5, <3>1, <4>1
    <3>4. CASE y = right2[q]
      <4>1. w2[right2[q]] = w[right2[q]] + 1 /\ w2[left2[q]] = w[left2[q]]
        BY <1>1, <2>2, <3>4
      <4> QED BY <2>3, <2>4, <2>5, <3>1, <4>1
    <3> QED BY <3>2, <3>3, <3>4
  <2>6. CASE q # parent2[y]
    <3>1. left2[q] # y /\ right2[q] # y
      BY <2>2, <2>6
    <3>2. w2[left2[q]] = w[left2[q]] /\ w2[right2[q]] = w[right2[q]]
      BY <1>1, <2>2, <3>1
    <3> QED BY <1>1, <2>3, <2>4, <2>6, <3>2
  <2> QED BY <2>5, <2>6
<1>13. Sum(u, N, parent2[y])
  BY <1>1, <1>12 DEF Sum
<1> QED BY <1>1, <1>9, <1>13 DEF HasSums

(* The weights of a tree whose node y is one behind.                       *)
Weighs(left, right, symbol, w, N, y) ==
  /\ \A m \in 1..N : w[m] \in Nat
  /\ w[1] = 0 /\ \A m \in 2..N : w[m] >= 1
  /\ \A q \in 1..N : symbol[q] = NodeNext =>
       w[left[q]] + w[right[q]] = w[q] + (IF q = y THEN 1 ELSE 0)

(* Node n weighs less than its parent, or as much, for the sibling of the  *)
(* first node.                                                             *)
Lighter(parent, w, n) ==
  /\ parent[n] # parent[1] => w[n] < w[parent[n]]
  /\ parent[n] = parent[1] /\ n # 1 => w[n] = w[parent[n]]

(* The sibling of the first node weighs what their parent does, any other  *)
(* node less.                                                              *)
LEMMA WeighsLess ==
  ASSUME NEW N \in Nat, NEW left, NEW right, NEW parent, NEW root, NEW symbol,
         Hangs(left, right, parent, root, symbol, N), NEW w, NEW y,
         Weighs(left, right, symbol, w, N, y),
         NEW n \in 1..N, parent[n] # Nil, parent[n] # y
  PROVE  Lighter(parent, w, n)
<1>0. /\ \A m \in 1..N : w[m] \in Nat
      /\ w[1] = 0 /\ \A m \in 2..N : w[m] >= 1
      /\ \A q \in 1..N : symbol[q] = NodeNext =>
           w[left[q]] + w[right[q]] = w[q] + (IF q = y THEN 1 ELSE 0)
  BY DEF Weighs
<1>1. PICK o \in 1..N :
        /\ o # n /\ parent[o] = parent[n] /\ parent[n] \in 1..N
        /\ symbol[parent[n]] = NodeNext
        /\ w[left[parent[n]]] + w[right[parent[n]]] = w[n] + w[o]
        /\ \A m \in 1..N : parent[m] = parent[n] => m = n \/ m = o
  BY <1>0, OtherChild
<1>2. w[n] + w[o] = w[parent[n]]
  BY <1>0, <1>1
<1>3. w[n] \in Nat /\ w[o] \in Nat
  BY <1>0, <1>1
<1>4. parent[n] # parent[1] => w[o] >= 1
  BY <1>0, <1>1
<1>5. parent[n] = parent[1] /\ n # 1 => w[o] = 0
  BY <1>0, <1>1
<1> QED BY <1>2, <1>3, <1>4, <1>5 DEF Lighter

-----------------------------------------------------------------------------
(* The parent a of the first node, and its other child s.                  *)
Bottom(t, N, a, s) ==
  a \in 2..N /\ s \in 2..N /\ a # s /\ t.parent[First] = a /\ t.parent[s] = a

(* The children of y are before it in the list.                            *)
ChildrenBefore(t, N, pos, y) == \A n \in 1..N : t.parent[n] = y => pos[n] < pos[y]

(* s is among the nodes the recursion comes back to.                       *)
InStack(stack, s) == \E i \in 1..Len(stack) : stack[i] = s

(* The invariant of the tree in Huff_IncrementFreq_r: the form, the list   *)
(* and the cells are right, and only node y is one behind its children     *)
(* (Nil: none is).                                                         *)
Growing(t, N, pos, y) ==
  t \in TreeOf(N) /\ Shape(t, N) /\ Listed(t, N, pos) /\ Sum(t, N, y) /\ y \in {Nil} \cup 2..N

(* First, s and their parent a begin the list; a comes before s for a      *)
(* while, after s was raised and changed places with it.                   *)
Plain(t, N, pos, y, k, a, s) ==
  /\ pos[s] = 2 /\ pos[a] = 3 /\ y # a
  /\ y # Nil => pos[y] >= k + 2 /\ ChildrenBefore(t, N, pos, y)

(* The raised s has passed a, which is the next to be raised ...           *)
Caught(t, N, pos, y, k, a, s, stack) ==
  /\ pos[a] = 2 /\ pos[s] = 3 /\ y = a /\ k = 1
  /\ t.freq[s] = t.freq[a] + 1 /\ InStack(stack, s)

(* ... and the recursion is further up, with s still to come back to.      *)
Past(t, N, pos, y, k, a, s, stack) ==
  /\ pos[a] = 2 /\ pos[s] = 3 /\ InStack(stack, s)
  /\ y # Nil => pos[y] >= 4 /\ pos[y] >= k + 2 /\ ChildrenBefore(t, N, pos, y)

(* The state of the recursion on its way up: k nodes are raised, y is      *)
(* next, and the way back will bring s before a again if it has passed it. *)
Climbing(t, N, pos, y, k, a, s, stack) ==
  /\ Growing(t, N, pos, y) /\ Bottom(t, N, a, s)
  /\ stack \in Seq(2..N)
  /\ \/ Plain(t, N, pos, y, k, a, s)
     \/ Caught(t, N, pos, y, k, a, s, stack)
     \/ Past(t, N, pos, y, k, a, s, stack)

(* A node is put on the stack.                                             *)
LEMMA Pushed ==
  ASSUME NEW N \in Nat, NEW stack \in Seq(2..N), NEW y \in 2..N
  PROVE  /\ <<y>> \o stack \in Seq(2..N)
         /\ InStack(<<y>> \o stack, y)
         /\ \A s : InStack(stack, s) => InStack(<<y>> \o stack, s)
<1> DEFINE r == <<y>> \o stack
<1>1. /\ r \in Seq(2..N) /\ Len(r) = Len(stack) + 1 /\ Len(stack) \in Nat
      /\ r[1] = y /\ \A i \in 1..Len(stack) : r[i + 1] = stack[i]
  OBVIOUS
<1> HIDE DEF r
<1>2. InStack(r, y)
  BY <1>1 DEF InStack
<1>3. ASSUME NEW s, InStack(stack, s) PROVE InStack(r, s)
  <2>1. PICK i \in 1..Len(stack) : stack[i] = s
    BY <1>3 DEF InStack
  <2>2. i + 1 \in 1..Len(r) /\ r[i + 1] = s
    BY <1>1, <2>1, SMTT(30)
  <2> QED BY <2>2 DEF InStack
<1> QED BY <1>1, <1>2, <1>3 DEF r

(* What holds in each case of a step up.                                   *)
Stepped(u, t, N, pos2, y, z) ==
  /\ Growing(u, N, pos2, u.parent[y]) /\ u.parent[y] # y /\ SameBytes(u, t)
  /\ \A n \in 1..N :
       u.parent[n] = IF z = t.parent[y] THEN t.parent[n] ELSE t.parent[Other(z, y, n)]
  /\ \A n \in 1..N : u.parent[n] # Nil /\ u.parent[n] # y /\ u.parent[n] # u.parent[1] =>
       t.freq[n] < t.freq[u.parent[n]] /\ pos2[n] < pos2[u.parent[n]]
  /\ \A n \in 2..N : t.parent[n] # Nil /\ t.parent[n] # y =>
       /\ t.parent[n] # t.parent[1] => t.freq[n] < t.freq[t.parent[n]]
       /\ t.parent[n] = t.parent[1] => t.freq[n] = t.freq[t.parent[n]]
  /\ u.parent[1] = t.parent[1]
  /\ \A n \in 1..N : u.parent[n] \in 0..N

(* The form of a tree after a step up, and its weights: away from the      *)
(* first node every node is still lighter than its parent, and before it.  *)
LEMMA StepFacts ==
  ASSUME HuffmanAssumption, NEW N \in Nat, NEW t, NEW pos, NEW y \in 2..N, Growing(t, N, pos, y),
         NEW u, NEW pos2, NEW z, Raised(u, t, N, pos, pos2, y, z),
         t.parent[y] # y, z # y => t.parent[z] # y
  PROVE  Stepped(u, t, N, pos2, y, z)
<1>1. t \in TreeOf(N) /\ Shape(t, N) /\ Listed(t, N, pos) /\ Sum(t, N, y)
  BY DEF Growing
<1>2. HasSums(u, t, N, y, z)
  BY <1>1, RaiseSums
<1> DEFINE w == t.freq
           parent == t.parent
           parent2 == u.parent
<1>3. /\ Shape(u, N) /\ u.symbol = t.symbol
      /\ \A n \in 1..N : parent2[n] = IF z = parent[y] THEN parent[n] ELSE parent[Other(z, y, n)]
      /\ \A q \in 1..N : u.symbol[q] = NodeNext =>
           w[u.left[q]] + w[u.right[q]] = w[q] + (IF q = y THEN 1 ELSE 0)
      /\ Sum(u, N, parent2[y])
  BY <1>2 DEF HasSums
<1>4. /\ z \in 2..N /\ w[z] = w[y] /\ u \in TreeOf(N) /\ SameBytes(u, t) /\ Listed(u, N, pos2)
      /\ \A m \in 1..N : pos2[m] = IF m = z THEN pos[y] ELSE IF m = y THEN pos[z] ELSE pos[m]
  BY DEF Raised
<1>5. /\ \A m \in 1..N : w[m] \in Nat
      /\ w[1] = 0 /\ \A m \in 2..N : w[m] >= 1
  BY <1>1 DEF TreeOf, Listed, Least, First
<1>6. \A m, n \in 1..N : pos[m] <= pos[n] => w[m] <= w[n]
  BY <1>1 DEF Listed, Sorted
<1>7. \A m \in 1..N : pos[m] \in 1..N
  BY <1>1 DEF Listed, InList, Order
<1>8. \A m, n \in 1..N : w[m] < w[n] => pos2[m] < pos2[n]
  <2> HIDE DEF w
  <2>1. SUFFICES ASSUME NEW m \in 1..N, NEW n \in 1..N, w[m] < w[n] PROVE pos2[m] < pos2[n]
    OBVIOUS
  <2> DEFINE m2 == Other(z, y, m)
             n2 == Other(z, y, n)
  <2>2. m2 \in 1..N /\ n2 \in 1..N /\ w[m2] = w[m] /\ w[n2] = w[n]
        /\ pos2[m] = pos[m2] /\ pos2[n] = pos[n2]
    BY <1>4 DEF Other
  <2> HIDE DEF m2, n2
  <2>3. w[m2] \in Nat /\ w[n2] \in Nat /\ pos[m2] \in 1..N /\ pos[n2] \in 1..N
    BY <1>5, <1>7, <2>2
  <2>4. ~ (pos[n2] <= pos[m2])
    BY <1>6, <2>1, <2>2, <2>3
  <2> QED BY <2>2, <2>3, <2>4
<1>9. \A n \in 1..N : parent2[n] \in 0..N
  BY <1>3 DEF Shape, Hangs
<1>10. parent2[y] # y
  BY <1>3, <1>4 DEF Other
<1>11. parent2[1] = parent[1]
  BY <1>3, <1>4 DEF Other
<1>12. ASSUME NEW n \in 1..N, parent2[n] # Nil, parent2[n] # y, parent2[n] # parent2[1]
       PROVE  w[n] < w[parent2[n]] /\ pos2[n] < pos2[parent2[n]]
  <2>1. Hangs(u.left, u.right, parent2, u.root, u.symbol, N)
    BY <1>3 DEF Shape
  <2>2. Weighs(u.left, u.right, u.symbol, w, N, y)
    BY <1>3, <1>5 DEF Weighs
  <2>3. Lighter(parent2, w, n)
    <3> HIDE DEF w, parent2
    <3> QED BY <1>12, <2>1, <2>2, WeighsLess
  <2>4. w[n] < w[parent2[n]]
    BY <1>12, <2>3 DEF Lighter
  <2> QED BY <1>8, <1>9, <1>12, <2>4 DEF Nil
<1>13. ASSUME NEW n \in 2..N, parent[n] # Nil, parent[n] # y
       PROVE  /\ parent[n] # parent[1] => w[n] < w[parent[n]]
              /\ parent[n] = parent[1] => w[n] = w[parent[n]]
  <2>1. Hangs(t.left, t.right, parent, t.root, t.symbol, N)
    BY <1>1 DEF Shape
  <2>2. Weighs(t.left, t.right, t.symbol, w, N, y)
    BY <1>1, <1>5 DEF Sum, Weighs
  <2>3. n \in 1..N /\ n # 1
    OBVIOUS
  <2>4. Lighter(parent, w, n)
    <3> HIDE DEF w, parent
    <3> QED BY <1>13, <2>1, <2>2, <2>3, WeighsLess
  <2> QED BY <2>3, <2>4 DEF Lighter
<1>14. parent2[y] \in {Nil} \cup 2..N
  <2>1. parent2[y] \in 0..N
    BY <1>9
  <2>2. parent2[y] # 1
    <3>1. t.loc[NotReferenced] = 1 /\ t.symbol[1] = NotReferenced
      BY <1>1 DEF Shape, Labelled, First, Nil
    <3>2. u.symbol[1] # NodeNext
      BY <1>3, <3>1, HuffmanAssumption, SymbolsDiffer
    <3> QED BY <1>3, <3>2 DEF Shape, Hangs, Nil
  <2> QED BY <2>1, <2>2 DEF Nil
<1>15. Growing(u, N, pos2, parent2[y])
  BY <1>3, <1>4, <1>14 DEF Growing
<1> QED
  BY <1>3, <1>4, <1>9, <1>10, <1>11, <1>12, <1>13, <1>15 DEF Stepped

(* Nodes and their places, weights and parents, for one step up.           *)
Placed(t, N, pos) ==
  /\ \A m \in 1..N : pos[m] \in 1..N /\ t.freq[m] \in Nat /\ t.parent[m] \in 0..N
  /\ \A m, n \in 1..N : pos[m] = pos[n] => m = n
  /\ \A m, n \in 1..N : pos[m] <= pos[n] => t.freq[m] <= t.freq[n]
  /\ 1 \in 1..N /\ pos[1] = 1

(* A growing tree has them.                                                *)
LEMMA GrowingPlaced ==
  ASSUME NEW N \in Nat, NEW t, NEW pos, NEW y, Growing(t, N, pos, y)
  PROVE  Placed(t, N, pos)
<1>1. t \in TreeOf(N) /\ Shape(t, N) /\ Listed(t, N, pos)
  BY DEF Growing
<1>2. \A m \in 1..N : pos[m] \in 1..N /\ \A n \in 1..N : pos[n] = pos[m] => n = m
  BY <1>1 DEF Listed, InList, Order
<1>3. \A m \in 1..N : t.freq[m] \in Nat /\ t.parent[m] \in 0..N
  BY <1>1 DEF TreeOf, Shape, Hangs
<1>4. \A m, n \in 1..N : pos[m] <= pos[n] => t.freq[m] <= t.freq[n]
  BY <1>1 DEF Listed, Sorted
<1>5. 1 \in 1..N /\ pos[1] = 1
  BY <1>1 DEF Listed, Least, First
<1> QED BY <1>2, <1>3, <1>4, <1>5 DEF Placed

(* Two children is all a node has.                                         *)
LEMMA BottomOnly ==
  ASSUME NEW N \in Nat, NEW t, NEW pos, NEW y, Growing(t, N, pos, y), NEW a, NEW s,
         Bottom(t, N, a, s)
  PROVE  \A n \in 1..N : t.parent[n] = a => n = 1 \/ n = s
<1>1. Hangs(t.left, t.right, t.parent, t.root, t.symbol, N) /\ 1 \in 1..N
  BY DEF Growing, Shape, Listed, Least
<1>2. a \in 2..N /\ s \in 2..N /\ t.parent[1] = a /\ t.parent[s] = a
  BY DEF Bottom, First
<1>3. t.symbol[a] = NodeNext
  BY <1>1, <1>2 DEF Hangs, Nil
<1>4. \A n \in 1..N : t.parent[n] = a => n = t.left[a] \/ n = t.right[a]
  BY <1>1, <1>2 DEF Hangs, Nil
<1> QED BY <1>1, <1>2, <1>4

(* No node is above itself, nor the last of y's frequency just below it.   *)
LEMMA NotAbove ==
  ASSUME NEW N \in Nat, NEW t, NEW pos, NEW y \in 2..N, NEW k, NEW a, NEW s, NEW stack,
         Climbing(t, N, pos, y, k, a, s, stack),
         NEW z \in 2..N, t.freq[z] = t.freq[y], pos[y] <= pos[z]
  PROVE  t.parent[y] # y /\ (z # y => t.parent[z] # y)
<1>1. Growing(t, N, pos, y) /\ Bottom(t, N, a, s)
  BY DEF Climbing
<1>2. /\ \A m \in 1..N : pos[m] \in 1..N /\ t.freq[m] \in Nat /\ t.parent[m] \in 0..N
      /\ \A m, n \in 1..N : pos[m] = pos[n] => m = n
      /\ \A m, n \in 1..N : pos[m] <= pos[n] => t.freq[m] <= t.freq[n]
      /\ 1 \in 1..N /\ pos[1] = 1
  BY <1>1, GrowingPlaced DEF Placed
<1>3. y \in 1..N /\ z \in 1..N /\ y # Nil
  BY DEF Nil
<1>4. CASE ChildrenBefore(t, N, pos, y)
  BY <1>2, <1>3, <1>4 DEF ChildrenBefore
<1>5. CASE Caught(t, N, pos, y, k, a, s, stack)
  <2>1. pos[a] = 2 /\ pos[s] = 3 /\ y = a /\ t.freq[s] = t.freq[a] + 1
    BY <1>5 DEF Caught
  <2>2. a \in 1..N /\ s \in 1..N /\ a # s /\ a # 1
    BY <1>1 DEF Bottom
  <2>3. t.parent[y] # y
    <3>1. \A n \in 1..N : t.parent[n] = a => n = 1 \/ n = s
      BY <1>1, BottomOnly
    <3> QED BY <2>1, <2>2, <3>1
  <2>4. ~ (pos[s] <= pos[z])
    BY <1>2, <1>3, <2>1, <2>2
  <2>5. pos[z] = 2
    BY <1>2, <1>3, <2>1, <2>4
  <2>6. z = y
    BY <1>2, <1>3, <2>1, <2>2, <2>5
  <2> QED BY <2>3, <2>6
<1> QED BY <1>3, <1>4, <1>5 DEF Climbing, Plain, Past

(* A step up: after k others y is raised.                                  *)
Climbs(u, t, N, k, y, a, stack) ==
  /\ SameBytes(u, t)
  /\ \E pos, s : Climbing(u, N, pos, u.parent[y], k + 1, a, s, <<y>> \o stack)

(* One step up the tree.                                                   *)
LEMMA ClimbStep ==
  ASSUME HuffmanAssumption, NEW N \in Nat, NEW t, NEW pos, NEW y \in 2..N, NEW k \in Nat,
         NEW a, NEW s, NEW stack, Climbing(t, N, pos, y, k, a, s, stack)
  PROVE  Climbs(Raise(t, y), t, N, k, y, a, stack)
<1> DEFINE u == Raise(t, y)
           stack2 == <<y>> \o stack
           y2 == u.parent[y]
           parent == t.parent
           parent2 == u.parent
           freq == t.freq
<1> HIDE DEF u
<1>1. Growing(t, N, pos, y) /\ Bottom(t, N, a, s) /\ stack \in Seq(2..N)
  BY DEF Climbing
<1>2. \E pos2, z : Raised(u, t, N, pos, pos2, y, z)
  BY <1>1, RaiseIs DEF Growing, u
<1>3. PICK pos2, z : Raised(u, t, N, pos, pos2, y, z)
  BY <1>2
<1>4. /\ z \in 2..N /\ freq[z] = freq[y] /\ pos[y] <= pos[z]
      /\ \A m \in 1..N : freq[m] = freq[y] => pos[m] <= pos[z]
      /\ \A m \in 1..N : pos2[m] = IF m = z THEN pos[y] ELSE IF m = y THEN pos[z] ELSE pos[m]
      /\ u.freq[y] = freq[y] + 1
      /\ \A m \in 1..N : m # y => u.freq[m] = freq[m]
  BY <1>3 DEF Raised
<1>5. parent[y] # y /\ (z # y => parent[z] # y)
  <2>1. z \in 2..N /\ t.freq[z] = t.freq[y] /\ pos[y] <= pos[z]
    BY <1>4
  <2>2. t.parent[y] # y /\ (z # y => t.parent[z] # y)
    BY <2>1, NotAbove
  <2> QED BY <2>2
<1>6. Stepped(u, t, N, pos2, y, z)
  BY <1>1, <1>3, <1>5, StepFacts
<1>7. /\ Growing(u, N, pos2, y2) /\ y2 # y /\ SameBytes(u, t)
      /\ \A n \in 1..N : parent2[n] = IF z = parent[y] THEN parent[n] ELSE parent[Other(z, y, n)]
      /\ \A n \in 1..N : parent2[n] # Nil /\ parent2[n] # y /\ parent2[n] # parent2[1] =>
           freq[n] < freq[parent2[n]] /\ pos2[n] < pos2[parent2[n]]
      /\ \A n \in 2..N : parent[n] # Nil /\ parent[n] # y =>
           /\ parent[n] # parent[1] => freq[n] < freq[parent[n]]
           /\ parent[n] = parent[1] => freq[n] = freq[parent[n]]
      /\ parent2[1] = parent[1]
      /\ \A n \in 1..N : parent2[n] \in 0..N
  BY <1>6 DEF Stepped
<1>8. /\ \A m \in 1..N : pos[m] \in 1..N /\ freq[m] \in Nat /\ parent[m] \in 0..N
      /\ \A m, n \in 1..N : pos[m] = pos[n] => m = n
      /\ \A m, n \in 1..N : pos[m] <= pos[n] => freq[m] <= freq[n]
      /\ 1 \in 1..N /\ pos[1] = 1
  BY <1>1, GrowingPlaced DEF Placed
<1>9. /\ \A m \in 1..N : pos2[m] \in 1..N
      /\ \A m, n \in 1..N : pos2[m] = pos2[n] => m = n
      /\ pos2[1] = 1
  BY <1>7, GrowingPlaced DEF Placed
<1>10. /\ stack2 \in Seq(2..N) /\ InStack(stack2, y)
       /\ \A n : InStack(stack, n) => InStack(stack2, n)
  BY <1>1, Pushed
<1>11. \A n \in 1..N : parent[n] = a => n = 1 \/ n = s
  BY <1>1, BottomOnly
<1>12. a \in 2..N /\ s \in 2..N /\ a # s /\ parent[1] = a /\ parent[s] = a
  BY <1>1 DEF Bottom, First
<1>13. y2 \in {Nil} \cup 2..N
  BY <1>7 DEF Growing
<1>14. y2 # a => ChildrenBefore(u, N, pos2, y2) \/ y2 = Nil
  BY <1>7, <1>12 DEF ChildrenBefore
<1>15. y \in 1..N /\ z \in 1..N /\ a \in 1..N /\ s \in 1..N /\ y # Nil /\ a # Nil
  BY <1>4, <1>12 DEF Nil
<1> HIDE DEF stack2, y2, parent, parent2, freq
<1>16. SUFFICES \E p, b : Climbing(u, N, p, y2, k + 1, a, b, stack2)
  BY <1>7 DEF Climbs, y2, stack2, u
<1>17. ASSUME NEW b, Bottom(u, N, a, b),
              \/ Plain(u, N, pos2, y2, k + 1, a, b)
              \/ Caught(u, N, pos2, y2, k + 1, a, b, stack2)
              \/ Past(u, N, pos2, y2, k + 1, a, b, stack2)
       PROVE  \E p, c : Climbing(u, N, p, y2, k + 1, a, c, stack2)
  BY <1>7, <1>10, <1>17 DEF Climbing
<1>18. CASE Caught(t, N, pos, y, k, a, s, stack)
  <2>1. pos[a] = 2 /\ pos[s] = 3 /\ y = a /\ k = 1 /\ freq[s] = freq[a] + 1 /\ InStack(stack, s)
    BY <1>18 DEF Caught, freq
  <2>2. ~ (pos[s] <= pos[z])
    BY <1>4, <1>8, <1>15, <2>1
  <2>3. z = a
    BY <1>4, <1>8, <1>15, <2>1, <2>2
  <2>4. /\ \A n \in 1..N : parent2[n] = parent[n]
        /\ \A n \in 1..N : pos2[n] = pos[n]
    BY <1>4, <1>5, <1>7, <2>1, <2>3 DEF Other
  <2>5. Bottom(u, N, a, s)
    BY <1>8, <1>12, <1>15, <2>4 DEF Bottom, parent2, First
  <2>6. y2 # a /\ y2 = parent[a]
    BY <1>7, <1>15, <2>1, <2>4 DEF y2, parent2
  <2>7. y2 # s
    <3>1. SUFFICES ASSUME y2 = s PROVE FALSE
      OBVIOUS
    <3>2. Hangs(t.left, t.right, parent, t.root, t.symbol, N)
      BY <1>1 DEF Growing, Shape, parent
    <3>3. parent[a] # Nil
      BY <1>15, <2>6, <3>1, <1>12 DEF Nil
    <3>4. \E o \in 1..N : o # a /\ parent[o] = s
      <4>1. \A m \in 1..N : freq[m] \in Nat
        BY <1>8
      <4>2. \E o \in 1..N : o # a /\ parent[o] = parent[a]
        BY <1>15, <3>2, <3>3, <4>1, OtherChild
      <4> QED BY <2>6, <3>1, <4>2
    <3>5. PICK o \in 1..N : o # a /\ parent[o] = s
      BY <3>4
    <3>6. pos2[o] < pos2[s]
      BY <1>12, <1>14, <2>4, <3>1, <3>5 DEF ChildrenBefore, parent2, Nil
    <3>7. pos[o] = 1 \/ pos[o] = 2
      BY <1>8, <1>15, <2>1, <2>4, <3>5, <3>6
    <3>8. o = 1
      BY <1>8, <1>15, <2>1, <3>5, <3>7
    <3> QED BY <1>12, <3>5, <3>8
  <2>8. y2 # Nil => pos2[y2] >= 4
    <3>1. SUFFICES ASSUME y2 # Nil PROVE pos2[y2] >= 4
      OBVIOUS
    <3>2. y2 \in 1..N /\ y2 # 1
      BY <1>13, <3>1
    <3>3. pos2[y2] # 1 /\ pos2[y2] # 2 /\ pos2[y2] # 3
      BY <1>8, <1>15, <2>1, <2>4, <2>6, <2>7, <3>2
    <3> QED BY <1>9, <3>2, <3>3
  <2>9. Past(u, N, pos2, y2, k + 1, a, s, stack2)
    BY <1>10, <1>14, <1>15, <2>1, <2>4, <2>6, <2>8 DEF Past
  <2> QED BY <1>17, <2>5, <2>9
<1>19. CASE Plain(t, N, pos, y, k, a, s) /\ y = s
  <2>1. pos[s] = 2 /\ pos[a] = 3 /\ y = s /\ k = 0
    <3>1. pos[s] = 2 /\ pos[a] = 3 /\ pos[y] >= k + 2
      BY <1>15, <1>19 DEF Plain
    <3> QED BY <1>19, <3>1
  <2>2. freq[s] = freq[a]
    BY <1>7, <1>12, <1>15, <2>1
  <2>3. pos[z] >= 3
    BY <1>4, <1>15, <2>1, <2>2
  <2>4. CASE z = a
    <3>1. \A n \in 1..N : parent2[n] = parent[n]
      BY <1>7, <1>12, <2>1, <2>4
    <3>2. Bottom(u, N, a, s)
      BY <1>8, <1>12, <1>15, <3>1 DEF Bottom, parent2, First
    <3>3. y2 = a
      BY <1>12, <1>15, <2>1, <3>1 DEF y2, parent2
    <3>4. pos2[a] = 2 /\ pos2[s] = 3
      BY <1>4, <1>12, <1>15, <2>1, <2>4
    <3>5. u.freq[s] = u.freq[a] + 1
      BY <1>4, <1>12, <1>15, <2>1, <2>2
    <3>6. Caught(u, N, pos2, y2, k + 1, a, s, stack2)
      BY <1>10, <2>1, <3>3, <3>4, <3>5 DEF Caught
    <3> QED BY <1>17, <3>2, <3>6
  <2>5. CASE z # a
    <3>1. pos[z] >= 4 /\ z # s
      BY <1>8, <1>15, <2>1, <2>3, <2>5
    <3>2. \A n \in 1..N : parent2[n] = parent[Other(z, s, n)]
      BY <1>7, <1>12, <2>1, <2>5
    <3>3. parent2[z] = a /\ y2 = parent[z]
      BY <1>12, <1>15, <2>1, <3>1, <3>2 DEF Other, y2, parent2
    <3>4. Bottom(u, N, a, z)
      BY <1>4, <1>7, <1>12, <2>5, <3>3 DEF Bottom, parent2, First
    <3>5. z # 1
      BY <1>4
    <3>6. y2 # a
      BY <1>11, <1>15, <3>1, <3>3, <3>5
    <3>7. pos2[z] = 2 /\ pos2[a] = 3
      BY <1>4, <1>12, <1>15, <2>1, <2>5
    <3>8. y2 # z
      <4>1. SUFFICES ASSUME parent[z] = z PROVE FALSE
        BY <3>3
      <4>2. z # Nil
        BY <1>4 DEF Nil
      <4>3. freq[z] < freq[z]
        BY <1>4, <1>7, <1>12, <2>1, <2>5, <3>1, <4>1, <4>2
      <4> QED BY <1>8, <1>15, <4>3
    <3>9. y2 # Nil => pos2[y2] >= 3
      <4>1. SUFFICES ASSUME y2 # Nil PROVE pos2[y2] >= 3
        OBVIOUS
      <4>2. y2 \in 1..N /\ y2 # 1
        BY <1>13, <4>1
      <4>3. pos2[y2] # 1 /\ pos2[y2] # 2
        BY <1>9, <1>8, <1>15, <3>7, <3>8, <4>2
      <4> QED BY <1>9, <4>2, <4>3
    <3>10. Plain(u, N, pos2, y2, k + 1, a, z)
      BY <1>14, <2>1, <3>6, <3>7, <3>9 DEF Plain
    <3> QED BY <1>17, <3>4, <3>10
  <2> QED BY <2>4, <2>5
<1>20. ASSUME pos[y] >= 4, pos[y] >= k + 2,
              pos[s] \in {2, 3}, pos[a] \in {2, 3}
       PROVE  /\ Bottom(u, N, a, s) /\ y2 # a
              /\ pos2[a] = pos[a] /\ pos2[s] = pos[s]
              /\ y2 # Nil => /\ pos2[y2] >= 4 /\ pos2[y2] >= (k + 1) + 2
                             /\ ChildrenBefore(u, N, pos2, y2)
  <2>1. pos[z] >= 4 /\ z # a /\ z # s /\ y # a /\ y # s
    BY <1>4, <1>8, <1>15, <1>20
  <2>2. z # parent[y]
    <3>1. SUFFICES ASSUME parent[y] = z PROVE FALSE
      OBVIOUS
    <3>2. z # Nil /\ z # y
      BY <1>4, <1>5, <3>1 DEF Nil
    <3>3. freq[y] < freq[z]
      BY <1>7, <1>12, <2>1, <3>1, <3>2
    <3> QED BY <1>4, <1>8, <1>15, <3>3
  <2>3. \A n \in 1..N : parent2[n] = parent[Other(z, y, n)]
    BY <1>7, <2>2
  <2>4. parent2[s] = a /\ y2 = parent[z]
    BY <1>12, <1>15, <2>1, <2>3 DEF Other, y2, parent2
  <2>5. Bottom(u, N, a, s)
    BY <1>7, <1>12, <2>4 DEF Bottom, parent2, First
  <2>6. y2 # a
    <3>1. z # 1
      BY <1>4
    <3> QED BY <1>11, <1>15, <2>1, <2>4, <3>1
  <2>7. pos2[a] = pos[a] /\ pos2[s] = pos[s] /\ pos2[y] = pos[z]
    BY <1>4, <1>15, <2>1
  <2>8. ASSUME y2 # Nil PROVE pos2[y2] >= 4 /\ pos2[y2] >= (k + 1) + 2
    <3>1. pos2[y] < pos2[y2]
      BY <1>7, <1>12, <1>15, <2>6, <2>8 DEF y2, parent2
    <3>2. y2 \in 1..N
      BY <1>13, <2>8
    <3>3. pos2[y2] \in 1..N /\ pos[y] \in 1..N /\ pos[z] \in 1..N
      BY <1>8, <1>9, <1>15, <3>2
    <3> QED BY <1>4, <1>20, <2>1, <2>7, <3>1, <3>3
  <2> QED BY <1>14, <2>5, <2>6, <2>7, <2>8
<1>21. CASE Plain(t, N, pos, y, k, a, s) /\ y # s
  <2>1. pos[s] = 2 /\ pos[a] = 3 /\ y # a /\ y # s /\ pos[y] >= k + 2
    BY <1>15, <1>21 DEF Plain
  <2>2. pos[y] >= 4
    <3>1. y # 1
      OBVIOUS
    <3>2. pos[y] # 1 /\ pos[y] # 2 /\ pos[y] # 3
      BY <1>8, <1>15, <2>1, <3>1
    <3> QED BY <1>8, <1>15, <3>2
  <2>3. Bottom(u, N, a, s) /\ Plain(u, N, pos2, y2, k + 1, a, s)
    BY <1>20, <2>1, <2>2 DEF Plain
  <2> QED BY <1>17, <2>3
<1>22. CASE Past(t, N, pos, y, k, a, s, stack)
  <2>1. pos[s] = 3 /\ pos[a] = 2 /\ pos[y] >= 4 /\ pos[y] >= k + 2 /\ InStack(stack, s)
    BY <1>15, <1>22 DEF Past
  <2>2. Bottom(u, N, a, s) /\ Past(u, N, pos2, y2, k + 1, a, s, stack2)
    BY <1>10, <1>20, <2>1 DEF Past
  <2> QED BY <1>17, <2>2
<1> QED BY <1>18, <1>19, <1>21, <1>22 DEF Climbing

-----------------------------------------------------------------------------
(* On the way back all weights are right; a and s may be out of order.     *)
Descending(t, N, pos, a, s, settled) ==
  /\ Growing(t, N, pos, Nil) /\ Bottom(t, N, a, s)
  /\ IF settled THEN pos[s] = 2 /\ pos[a] = 3 ELSE pos[a] = 2 /\ pos[s] = 3

(* All others are before their parents.                                    *)
LEMMA BeforeParent ==
  ASSUME NEW N \in Nat, NEW t, NEW pos, NEW a, NEW s,
         Growing(t, N, pos, Nil), Bottom(t, N, a, s)
  PROVE  /\ \A n \in 1..N : t.parent[n] # Nil /\ t.parent[n] # a =>
              pos[n] < pos[t.parent[n]] /\ t.freq[n] < t.freq[t.parent[n]]
         /\ t.freq[s] = t.freq[a]
<1>1. t \in TreeOf(N) /\ Shape(t, N) /\ Listed(t, N, pos) /\ Sum(t, N, Nil)
  BY DEF Growing
<1>2. /\ \A m \in 1..N : pos[m] \in 1..N /\ t.freq[m] \in Nat /\ t.parent[m] \in 0..N
      /\ \A m, n \in 1..N : pos[m] <= pos[n] => t.freq[m] <= t.freq[n]
  BY GrowingPlaced DEF Placed
<1>3. Hangs(t.left, t.right, t.parent, t.root, t.symbol, N)
  BY <1>1 DEF Shape
<1>4. Weighs(t.left, t.right, t.symbol, t.freq, N, Nil)
  BY <1>1, <1>2 DEF Sum, Weighs, Listed, Least, First
<1>5. \A n \in 1..N : t.parent[n] # Nil => Lighter(t.parent, t.freq, n)
  BY <1>3, <1>4, WeighsLess
<1>6. a \in 1..N /\ s \in 1..N /\ s # 1 /\ a # Nil /\ t.parent[1] = a /\ t.parent[s] = a
  BY DEF Bottom, First, Nil
<1>7. t.freq[s] = t.freq[a]
  BY <1>5, <1>6 DEF Lighter
<1>8. ASSUME NEW n \in 1..N, t.parent[n] # Nil, t.parent[n] # a
      PROVE  pos[n] < pos[t.parent[n]] /\ t.freq[n] < t.freq[t.parent[n]]
  <2>1. t.freq[n] < t.freq[t.parent[n]]
    BY <1>5, <1>6, <1>8 DEF Lighter
  <2>2. t.parent[n] \in 1..N
    BY <1>2, <1>8 DEF Nil
  <2> DEFINE p == t.parent[n]
  <2> HIDE DEF p
  <2>3. p \in 1..N /\ t.freq[n] < t.freq[p]
    BY <2>1, <2>2 DEF p
  <2>4. pos[n] < pos[p]
    BY <1>2, <2>3
  <2> QED BY <2>1, <2>4 DEF p
<1> QED BY <1>7, <1>8

(* Places 2 and 3 have changed their nodes.                                *)
Turned(pos, pos2, N, a, s) ==
  /\ pos[a] = 2 /\ pos[s] = 3 /\ pos2[s] = 2 /\ pos2[a] = 3
  /\ \A m \in 2..N : m # a /\ m # s => pos[m] >= 4 /\ pos[m] \in Nat /\ pos2[m] = pos[m]

(* What held s holds a.                                                    *)
Handed(u, s, a) == IF Cell(u, s) = s THEN [u EXCEPT !.cells[u.head[s]] = a] ELSE u

(* The cells are right for the new places.                                 *)
HasTurned(v, u, N, pos2) == v \in TreeOf(N) /\ OnlyCelled(v, u) /\ InCells(v, 2..N, pos2)

(* AfterParent mends the cell of the two nodes it has turned, the only one *)
(* of which the last node may have changed.                                *)
LEMMA CellsTurned ==
  ASSUME NEW N \in Nat, NEW u \in TreeOf(N), NEW pos, InCells(u, 2..N, pos),
         NEW a \in 2..N, NEW s \in 2..N, u.freq[s] = u.freq[a],
         NEW pos2, Turned(pos, pos2, N, a, s)
  PROVE  HasTurned(Handed(u, s, a), u, N, pos2)
<1> DEFINE S == 2..N
           head == u.head
           cells == u.cells
           free == u.free
           freq == u.freq
           c == head[s]
           v == Handed(u, s, a)
           cells2 == IF cells[c] = s THEN Put(cells, c, a) ELSE cells
<1>1. head \in Numbers(N) /\ cells \in Seq(Nat) /\ free \in Nat
  BY DEF TreeOf, Numbers
<1>2. Holds(head, cells, freq, S, pos) /\ \E rank, R : Chain(head, cells, free, S, rank, R)
  BY DEF InCells
<1>3. /\ \A m \in S : /\ head[m] \in 1..Len(cells) /\ cells[head[m]] \in S
                      /\ freq[cells[head[m]]] = freq[m]
      /\ \A m \in S, k \in S : freq[k] = freq[m] =>
           head[k] = head[m] /\ pos[k] <= pos[cells[head[m]]]
  BY <1>2 DEF Holds
<1>4. /\ c \in 1..Len(cells) /\ freq[s] = freq[a] /\ a \in Nat /\ a # s
      /\ pos[a] = 2 /\ pos[s] = 3 /\ pos2[s] = 2 /\ pos2[a] = 3
      /\ \A m \in S : m # a /\ m # s => pos[m] >= 4 /\ pos[m] \in Nat /\ pos2[m] = pos[m]
  BY <1>3 DEF Turned
<1>5. /\ cells2 \in Seq(Nat) /\ Len(cells2) = Len(cells)
      /\ \A d \in 1..Len(cells) : d # c => cells2[d] = cells[d]
      /\ cells2[c] = IF cells[c] = s THEN a ELSE cells[c]
  BY <1>1, <1>4, SMTT(30) DEF Put
<1>6. v = Recell(u, head, cells2, free)
  BY DEF Handed, Recell, TreeOf, Cell, Put
<1> HIDE DEF v, cells2
<1>7. HasCells(v, N, u, head, cells2, free)
  BY <1>1, <1>5, <1>6, Recelled
<1>8. Holds(head, cells2, freq, S, pos2)
  <2>1. SUFFICES ASSUME NEW m \in S
                 PROVE  /\ head[m] \in 1..Len(cells2)
                        /\ cells2[head[m]] \in S
                        /\ freq[cells2[head[m]]] = freq[m]
                        /\ \A k \in S : freq[k] = freq[m] =>
                             head[k] = head[m] /\ pos2[k] <= pos2[cells2[head[m]]]
    BY DEF Holds
  <2>2. \A k \in S : pos2[k] = IF k = a THEN 3 ELSE IF k = s THEN 2 ELSE pos[k]
    BY <1>4
  <2>3. \A k \in S : pos[k] = IF k = a THEN 2 ELSE IF k = s THEN 3 ELSE pos[k]
    BY <1>4
  <2>4. \A k \in S : k # a /\ k # s => pos[k] >= 4 /\ pos[k] \in Nat
    BY <1>4
  <2>5. CASE head[m] = c /\ cells[c] = s
    <3>1. freq[m] = freq[s] /\ cells2[head[m]] = a
      <4>1. freq[cells[head[m]]] = freq[m]
        BY <1>3
      <4> HIDE DEF c, S, freq, cells, head
      <4> QED BY <1>5, <2>5, <4>1
    <3>2. \A k \in S : freq[k] = freq[m] => head[k] = head[m] /\ pos[k] <= 3
      <4>1. cells[head[m]] = s
        BY <2>5
      <4> HIDE DEF c, S, freq, cells, head
      <4> QED BY <1>3, <1>4, <4>1
    <3>3. \A k \in S : freq[k] = freq[m] => k = a \/ k = s
      BY <2>4, <3>2
    <3>4. head[m] \in 1..Len(cells2) /\ a \in S /\ freq[a] = freq[m]
      BY <1>3, <1>4, <1>5, <3>1
    <3>5. \A k \in S : freq[k] = freq[m] => pos2[k] <= 3
      BY <1>4, <3>3
    <3> HIDE DEF c, S, freq, cells, head
    <3> QED BY <1>4, <3>1, <3>2, <3>4, <3>5
  <2>6. CASE head[m] # c \/ cells[c] # s
    <3> DEFINE e == cells[head[m]]
    <3>1. cells2[head[m]] = e /\ e \in S /\ freq[e] = freq[m]
      BY <1>3, <1>5, <2>6
    <3>2. e # s
      <4>1. SUFFICES ASSUME e = s PROVE FALSE
        OBVIOUS
      <4>2. freq[s] = freq[m]
        BY <3>1, <4>1
      <4>3. head[m] = c
        BY <1>3, <4>2
      <4> QED BY <2>6, <4>1, <4>3
    <3>3. \A k \in S : freq[k] = freq[m] => head[k] = head[m] /\ pos[k] <= pos[e]
      BY <1>3
    <3> HIDE DEF e
    <3>4. e # a
      BY <1>4, <3>1, <3>3
    <3>5. pos2[e] >= 4 /\ pos2[e] = pos[e] /\ pos[e] \in Nat
      BY <2>2, <2>4, <3>1, <3>2, <3>4
    <3>6. ASSUME NEW k \in S, freq[k] = freq[m] PROVE pos2[k] <= pos2[e]
      BY <2>2, <3>3, <3>5, <3>6
    <3> QED BY <1>3, <1>5, <3>1, <3>3, <3>6
  <2> QED BY <2>5, <2>6
<1>9. \E rank, R : Chain(head, cells2, free, S, rank, R)
  <2>1. PICK rank, R : Chain(head, cells, free, S, rank, R)
    BY <1>2
  <2>2. rank[c] = 0
    BY <1>4, <2>1 DEF Chain
  <2>3. \A d \in 1..Len(cells) : rank[d] # 0 => cells2[d] = cells[d]
    BY <1>5, <2>2
  <2>4. Chain(head, cells2, free, S, rank, R)
    <3> HIDE DEF head, cells, free, S
    <3> QED BY <1>1, <1>5, <2>1, <2>3, ChainKept
  <2> QED BY <2>4
<1>10. v.head = head /\ v.cells = cells2 /\ v.free = free /\ v.freq = freq
  BY <1>7 DEF HasCells, OnlyCelled
<1>11. InCells(v, S, pos2)
  BY <1>8, <1>9, <1>10 DEF InCells
<1> QED BY <1>7, <1>11 DEF v, HasTurned, HasCells

(* A step back down to n.                                                  *)
Descends(u, t, N, n, a, s, settled) ==
  /\ SameBytes(u, t)
  /\ \E pos : Descending(u, N, pos, a, s, settled \/ n = s)

(* One step down: s comes before a again.                                  *)
LEMMA DescendStep ==
  ASSUME NEW N \in Nat, NEW t, NEW pos, NEW a, NEW s, NEW settled \in BOOLEAN,
         Descending(t, N, pos, a, s, settled), NEW n \in 2..N
  PROVE  Descends(AfterParent(t, n), t, N, n, a, s, settled)
<1>1. /\ Growing(t, N, pos, Nil) /\ Bottom(t, N, a, s)
      /\ IF settled THEN pos[s] = 2 /\ pos[a] = 3 ELSE pos[a] = 2 /\ pos[s] = 3
  BY DEF Descending
<1>2. t \in TreeOf(N) /\ Shape(t, N) /\ Listed(t, N, pos) /\ Sum(t, N, Nil)
  BY <1>1 DEF Growing
<1>3. /\ \A m \in 1..N : pos[m] \in 1..N /\ t.freq[m] \in Nat /\ t.parent[m] \in 0..N
      /\ \A m, k \in 1..N : pos[m] = pos[k] => m = k
      /\ \A m, k \in 1..N : pos[m] <= pos[k] => t.freq[m] <= t.freq[k]
      /\ 1 \in 1..N /\ pos[1] = 1
  BY <1>1, GrowingPlaced DEF Placed
<1>4. /\ \A m \in 1..N : t.parent[m] # Nil /\ t.parent[m] # a => pos[m] < pos[t.parent[m]]
      /\ t.freq[s] = t.freq[a]
  BY <1>1, BeforeParent
<1>5. a \in 2..N /\ s \in 2..N /\ a # s /\ a \in 1..N /\ s \in 1..N /\ a # Nil /\ t.parent[s] = a
  BY <1>1 DEF Bottom, Nil
<1>6. \A m \in 1..N : t.parent[m] = a => m = 1 \/ m = s
  BY <1>1, BottomOnly
<1>7. \A m \in 1..N : /\ t.prev[m] \in 0..N
                      /\ t.prev[m] = 0 <=> pos[m] = 1
                      /\ t.prev[m] # 0 => pos[t.prev[m]] = pos[m] - 1
  BY <1>2 DEF Listed, InList, Order, Nil
<1>8. n \in 1..N /\ n # 1
  OBVIOUS
<1>9. CASE settled \/ n # s
  <2>1. AfterParent(t, n) = t
    <3>1. SUFFICES ASSUME t.parent[n] # Nil, t.prev[n] = t.parent[n] PROVE FALSE
      BY DEF AfterParent
    <3>2. pos[t.parent[n]] = pos[n] - 1
      BY <1>7, <1>8, <3>1 DEF Nil
    <3>3. t.parent[n] \in 1..N
      BY <1>3, <1>8, <3>1 DEF Nil
    <3>4. CASE t.parent[n] # a
      BY <1>3, <1>4, <1>8, <3>1, <3>2, <3>3, <3>4
    <3>5. CASE t.parent[n] = a
      <4>1. n = s /\ settled
        BY <1>6, <1>8, <1>9, <3>5
      <4> QED BY <1>1, <3>2, <3>5, <4>1
    <3> QED BY <3>4, <3>5
  <2>2. (settled \/ n = s) = settled
    BY <1>9
  <2> QED BY <2>1, <2>2 DEF Descends, SameBytes
<1>10. CASE ~ settled /\ n = s
  <2> DEFINE u == Huff_SwapTrees(t, s, a)
             v == Handed(u, s, a)
             pos2 == Exchanged(pos, N, s, a)
  <2>1. pos[a] = 2 /\ pos[s] = 3
    BY <1>1, <1>10
  <2>2. t.prev[s] = a
    <3>1. t.prev[s] \in 1..N /\ pos[t.prev[s]] = 2
      BY <1>5, <1>7, <2>1
    <3> QED BY <1>3, <1>5, <2>1, <3>1
  <2>3. AfterParent(t, n) = v
    BY <1>5, <1>10, <2>2 DEF AfterParent, Handed
  <2>4. u \in TreeOf(N) /\ OnlyListed(u, t) /\ InList(u, N, pos2)
    <3>1. InList(t, N, pos) /\ pos[a] < pos[s]
      BY <1>2, <2>1 DEF Listed
    <3> QED BY <1>2, <1>5, <3>1, SwapTreesIs
  <2>5. /\ \A m \in 1..N : pos2[m] = IF m = s THEN 2 ELSE IF m = a THEN 3 ELSE pos[m]
    BY <2>1 DEF Exchanged
  <2> HIDE DEF u, pos2
  <2>6. SameTree(u, t) /\ SameCells(u, t) /\ SameBytes(u, t) /\ u.freq = t.freq
    BY <2>4 DEF OnlyListed
  <2>7. /\ \A m \in 2..N : m # a /\ m # s => pos[m] >= 4 /\ pos[m] \in Nat
        /\ \A m \in 2..N : m # a /\ m # s => pos2[m] = pos[m]
        /\ pos2[s] = 2 /\ pos2[a] = 3
    <3>1. ASSUME NEW m \in 2..N, m # a, m # s PROVE pos[m] >= 4
      <4>1. pos[m] # 1 /\ pos[m] # 2 /\ pos[m] # 3 /\ pos[m] \in 1..N
        BY <1>3, <1>5, <2>1, <3>1
      <4> QED BY <4>1
    <3>2. \A m \in 2..N : m \in 1..N
      OBVIOUS
    <3>3. \A m \in 2..N : pos[m] \in Nat
      BY <1>3, <3>2
    <3>4. \A m \in 2..N : m # a /\ m # s => pos2[m] = pos[m]
      BY <2>5, <3>2
    <3> QED BY <1>5, <2>5, <3>1, <3>3, <3>4
  <2>8. HasTurned(v, u, N, pos2)
    <3>1. InCells(u, 2..N, pos)
      BY <1>2, <2>6 DEF Listed, InCells, SameCells
    <3>2. Turned(pos, pos2, N, a, s)
      BY <2>1, <2>7 DEF Turned
    <3>3. u.freq[s] = u.freq[a]
      BY <1>4, <2>6
    <3> QED BY <1>5, <2>4, <3>1, <3>2, <3>3, CellsTurned
  <2> HIDE DEF v
  <2>9. /\ v \in TreeOf(N) /\ SameTree(v, t) /\ SameList(v, u) /\ SameBytes(v, t) /\ v.freq = t.freq
    BY <2>6, <2>8 DEF HasTurned, OnlyCelled, SameTree, SameList, SameBytes
  <2>10. Sorted(t.freq, pos2, N)
    <3>1. SUFFICES ASSUME NEW m \in 1..N, NEW k \in 1..N, pos2[m] <= pos2[k]
                   PROVE  t.freq[m] <= t.freq[k]
      BY DEF Sorted
    <3> DEFINE m2 == Other(a, s, m)
               k2 == Other(a, s, k)
    <3>2. m2 \in 1..N /\ pos2[m] = pos[m2] /\ t.freq[m] = t.freq[m2]
      BY <1>4, <1>5, <2>1, <2>5 DEF Other
    <3>3. k2 \in 1..N /\ pos2[k] = pos[k2] /\ t.freq[k] = t.freq[k2]
      BY <1>4, <1>5, <2>1, <2>5 DEF Other
    <3> QED BY <1>3, <3>1, <3>2, <3>3
  <2>11. Least(t.freq, pos2, N)
    <3>1. pos2[1] = 1
      BY <1>3, <1>5, <2>5
    <3> QED BY <1>2, <3>1 DEF Listed, Least, First
  <2>12. Listed(v, N, pos2)
    BY <2>4, <2>8, <2>9, <2>10, <2>11 DEF HasTurned, Listed, InList, SameList
  <2>13. Shape(v, N) /\ Sum(v, N, Nil) /\ Bottom(v, N, a, s)
    BY <1>1, <1>2, <2>9 DEF Shape, Sum, Bottom, SameTree, SameBytes
  <2>14. Descending(v, N, pos2, a, s, TRUE)
    BY <2>7, <2>9, <2>12, <2>13 DEF Descending, Growing
  <2> QED BY <1>10, <2>3, <2>9, <2>14 DEF Descends
<1> QED BY <1>9, <1>10

-----------------------------------------------------------------------------
(* What Climb goes through, from the tree t on.                            *)
IsUp(c, t, N, a) ==
  /\ SameBytes(c.tree, t)
  /\ \E pos, s : Climbing(c.tree, N, pos, c.node, Len(c.stack), a, s, c.stack)

(* What Climb goes through are these.                                      *)
Ups(t, N, a) ==
  {c \in [tree : TreeOf(N), node : 0..N, stack : Seq(2..N)] : IsUp(c, t, N, a)}

(* One more node is raised, unless the root has been.                      *)
IsClimbed(c, d, t, N, a) ==
  /\ d \in Ups(t, N, a)
  /\ IF c.node = Nil THEN d = c ELSE Len(d.stack) = Len(c.stack) + 1

(* Climb takes one of them to the next.                                    *)
LEMMA ClimbKeeps ==
  ASSUME HuffmanAssumption, NEW N \in Nat, NEW t, NEW a, NEW c \in Ups(t, N, a)
  PROVE  IsClimbed(c, Climb(c), t, N, a)
<1>1. CASE c.node = Nil
  BY <1>1 DEF Climb, IsClimbed
<1>2. CASE c.node # Nil
  <2> DEFINE y == c.node
             k == Len(c.stack)
             u == Raise(c.tree, y)
             d == [tree |-> u, node |-> u.parent[y], stack |-> <<y>> \o c.stack]
  <2>1. Climb(c) = d
    BY <1>2 DEF Climb
  <2>2. /\ c \in [tree : TreeOf(N), node : 0..N, stack : Seq(2..N)]
        /\ SameBytes(c.tree, t)
        /\ \E pos, s : Climbing(c.tree, N, pos, c.node, Len(c.stack), a, s, c.stack)
    BY DEF Ups, IsUp
  <2>3. PICK pos, s : Climbing(c.tree, N, pos, y, k, a, s, c.stack)
    BY <2>2
  <2>4. y \in 2..N /\ c.stack \in Seq(2..N) /\ k \in Nat
    BY <1>2, <2>2, <2>3 DEF Climbing, Growing
  <2> HIDE DEF u
  <2>5. Climbs(u, c.tree, N, k, y, a, c.stack)
    BY <2>3, <2>4, ClimbStep DEF u
  <2>6. PICK pos2, s2 : Climbing(u, N, pos2, u.parent[y], k + 1, a, s2, <<y>> \o c.stack)
    BY <2>5 DEF Climbs
  <2>7. SameBytes(u, t)
    BY <2>2, <2>5 DEF Climbs, SameBytes
  <2>8. u \in TreeOf(N) /\ u.parent[y] \in 0..N
    BY <2>6 DEF Climbing, Growing, Nil
  <2>9. <<y>> \o c.stack \in Seq(2..N) /\ Len(<<y>> \o c.stack) = k + 1
    BY <2>4
  <2>10. d \in Ups(t, N, a)
    <3>1. IsUp(d, t, N, a)
      BY <2>6, <2>7, <2>9 DEF IsUp
    <3> QED BY <2>8, <2>9, <3>1 DEF Ups
  <2> QED BY <1>2, <2>1, <2>9, <2>10 DEF IsClimbed
<1> QED BY <1>1, <1>2

(* The climb ends at the root.                                             *)
IsTop(c, t, N, a) == c \in Ups(t, N, a) /\ c.node = Nil

(* ClimbUp takes as many steps as there are nodes, which is enough: each   *)
(* step takes the next node further up the list.                           *)
LEMMA ClimbUpIs ==
  ASSUME HuffmanAssumption, NEW N \in Nat, NEW t \in TreeOf(N), NEW a, NEW n,
         [tree |-> t, node |-> n, stack |-> <<>>] \in Ups(t, N, a)
  PROVE  IsTop(ClimbUp(t, n), t, N, a)
<1> DEFINE first == [tree |-> t, node |-> n, stack |-> <<>>]
           S == Ups(t, N, a)
           Step == [p \in S \X (1..N) |-> Climb(p[1])]
           IsClimb(g) == g = [k \in 0..N |-> IF k = 0 THEN first ELSE Climb(g[k - 1])]
           up == CHOOSE g : IsClimb(g)
<1>1. Len(t.symbol) = N
  <2>1. t.symbol \in [1..N -> Nat]
    BY DEF TreeOf
  <2> QED BY <2>1
<1>2. ClimbUp(t, n) = up[N]
  BY <1>1 DEF ClimbUp
<1>3. \A c \in S : Climb(c) \in S
  BY ClimbKeeps DEF IsClimbed
<1>4. first \in S
  OBVIOUS
<1>5. Step \in [S \X (1..N) -> S]
  <2> HIDE DEF S
  <2> QED BY <1>3
<1> HIDE DEF first, S, Step
<1>6. PICK f : Iterates(f, S, first, N, Step)
  BY <1>4, <1>5, RecursionTo
<1>7. f \in [0..N -> S] /\ f[0] = first /\ \A k \in 1..N : f[k] = Step[<<f[k - 1], k>>]
  BY <1>6 DEF Iterates
<1>8. ASSUME NEW k \in 1..N PROVE f[k] = Climb(f[k - 1]) /\ f[k - 1] \in S
  <2>1. f[k - 1] \in S
    BY <1>7
  <2> QED BY <1>7, <2>1 DEF Step
<1>9. IsClimb(f)
  <2>1. ASSUME NEW k \in 0..N PROVE f[k] = IF k = 0 THEN first ELSE Climb(f[k - 1])
    <3>1. k # 0 => k \in 1..N
      OBVIOUS
    <3> QED BY <1>7, <1>8, <3>1
  <2> QED BY <1>7, <2>1, Zenon
<1>10. IsClimb(up)
  <2> HIDE DEF IsClimb
  <2> QED BY <1>9
<1> HIDE DEF up
<1>11. \A k \in 0..N : up[k] = IF k = 0 THEN first ELSE Climb(up[k - 1])
  BY <1>10
<1> DEFINE T == {k \in 0..N : up[k] \in S /\ (up[k].node # Nil => Len(up[k].stack) = k)}
<1>12. 0 \in T
  BY <1>4, <1>11 DEF first
<1>13. ASSUME NEW k \in 1..N, k - 1 \in T PROVE k \in T
  <2> DEFINE c == up[k - 1]
  <2>1. up[k] = Climb(c) /\ k \in 0..N
    BY <1>11
  <2>2. c \in S /\ (c.node # Nil => Len(c.stack) = k - 1)
    BY <1>13
  <2> HIDE DEF c
  <2>3. IsClimbed(c, up[k], t, N, a)
    BY <2>1, <2>2, ClimbKeeps DEF S
  <2>4. up[k] \in S /\ (up[k].node # Nil => Len(up[k].stack) = k)
    BY <2>2, <2>3 DEF IsClimbed, S
  <2> QED BY <2>1, <2>4
<1>14. N \in T
  <2>1. \A k \in 0..N : k \in T
    <3> HIDE DEF T
    <3> QED BY <1>12, <1>13, InductionTo
  <2> QED BY <2>1
<1> DEFINE c == up[N]
<1>15. c \in Ups(t, N, a) /\ (c.node # Nil => Len(c.stack) = N)
  BY <1>14 DEF S
<1> HIDE DEF c
<1>16. c.node = Nil
  <2>1. SUFFICES ASSUME c.node # Nil PROVE FALSE
    OBVIOUS
  <2>2. PICK pos, s : Climbing(c.tree, N, pos, c.node, N, a, s, c.stack)
    BY <1>15, <2>1 DEF Ups, IsUp
  <2>3. Growing(c.tree, N, pos, c.node) /\ Bottom(c.tree, N, a, s) /\ c.node \in 1..N
    BY <2>1, <2>2 DEF Climbing, Growing, Nil
  <2>4. pos[c.node] \in 1..N /\ N >= 2
    BY <2>3, GrowingPlaced DEF Placed, Bottom
  <2>5. ~ (pos[c.node] >= N + 2) /\ N # 1
    BY <2>4
  <2> QED BY <2>1, <2>2, <2>5 DEF Climbing, Plain, Caught, Past
<1> QED BY <1>2, <1>15, <1>16 DEF IsTop, c

-----------------------------------------------------------------------------
(* A tree between two bytes: it is the first node alone, or the first, its *)
(* sibling and their parent begin the list.                                *)
Stable(t, N) ==
  \E pos : /\ Growing(t, N, pos, Nil)
           /\ N = 1 \/ \E a, s : Bottom(t, N, a, s) /\ pos[s] = 2 /\ pos[a] = 3

(* The trees the way back goes through.                                    *)
Downs(t, N, a, s) ==
  {d \in TreeOf(N) :
     /\ SameBytes(d, t)
     /\ \E pos, settled : settled \in BOOLEAN /\ Descending(d, N, pos, a, s, settled)}

(* s is before a again.                                                    *)
Settled(d, N, a, s) == \E pos : Descending(d, N, pos, a, s, TRUE)

(* A step back keeps it there, and the one to s puts it there.             *)
HasDescended(d, e, t, N, n, a, s) ==
  /\ e \in Downs(t, N, a, s)
  /\ n = s \/ Settled(d, N, a, s) => Settled(e, N, a, s)

(* AfterParent takes one of these trees to the next.                       *)
LEMMA DescentKeeps ==
  ASSUME NEW N \in Nat, NEW t, NEW a, NEW s, NEW d \in Downs(t, N, a, s), NEW n \in 2..N
  PROVE  HasDescended(d, AfterParent(d, n), t, N, n, a, s)
<1> DEFINE e == AfterParent(d, n)
<1> HIDE DEF e
<1>1. SameBytes(d, t)
  BY DEF Downs
<1>2. ASSUME NEW pos, NEW settled \in BOOLEAN, Descending(d, N, pos, a, s, settled)
      PROVE  /\ e \in Downs(t, N, a, s)
             /\ n = s \/ settled = TRUE => Settled(e, N, a, s)
  <2>1. Descends(e, d, N, n, a, s, settled)
    BY <1>2, DescendStep DEF e
  <2>2. PICK pos2 : Descending(e, N, pos2, a, s, settled \/ n = s)
    BY <2>1 DEF Descends
  <2>3. SameBytes(e, t)
    BY <1>1, <2>1 DEF Descends, SameBytes
  <2>4. e \in TreeOf(N)
    BY <2>2 DEF Descending, Growing
  <2> DEFINE settled2 == settled \/ n = s
  <2>5. settled2 \in BOOLEAN /\ Descending(e, N, pos2, a, s, settled2)
    BY <2>2
  <2>6. n = s \/ settled = TRUE => settled2 = TRUE
    OBVIOUS
  <2> HIDE DEF settled2
  <2> QED BY <2>3, <2>4, <2>5, <2>6 DEF Downs, Settled
<1>3. e \in Downs(t, N, a, s) /\ (n = s => Settled(e, N, a, s))
  BY <1>2 DEF Downs
<1>4. Settled(d, N, a, s) => Settled(e, N, a, s)
  BY <1>2 DEF Settled
<1> QED BY <1>3, <1>4 DEF HasDescended, e

(* The way back ends in a stable tree: it comes by s if s has passed a.    *)
LEMMA ComeBackIs ==
  ASSUME NEW N \in Nat, NEW t, NEW a, NEW c, IsTop(c, t, N, a)
  PROVE  Stable(ComeBack(c), N) /\ SameBytes(ComeBack(c), t)
<1>1. /\ c.tree \in TreeOf(N) /\ c.stack \in Seq(2..N) /\ c.node = Nil
      /\ SameBytes(c.tree, t)
      /\ \E pos, s : Climbing(c.tree, N, pos, c.node, Len(c.stack), a, s, c.stack)
  BY DEF IsTop, Ups, IsUp
<1>2. PICK pos, s : Climbing(c.tree, N, pos, Nil, Len(c.stack), a, s, c.stack)
  BY <1>1
<1>3. Growing(c.tree, N, pos, Nil) /\ Bottom(c.tree, N, a, s)
  BY <1>2 DEF Climbing
<1>4. \/ pos[s] = 2 /\ pos[a] = 3
      \/ pos[a] = 2 /\ pos[s] = 3 /\ InStack(c.stack, s)
  BY <1>2, <1>3 DEF Climbing, Plain, Caught, Past, Bottom, Nil
<1> DEFINE first == c.tree
           M == Len(c.stack)
           S == Downs(t, N, a, s)
           Step == [p \in S \X (1..M) |-> AfterParent(p[1], c.stack[p[2]])]
           IsDown(g) == g = [k \in 0..M |-> IF k = 0 THEN first ELSE AfterParent(g[k - 1], c.stack[k])]
           down == CHOOSE g : IsDown(g)
<1>5. ComeBack(c) = down[M]
  BY DEF ComeBack
<1>6. first \in S
  <2>1. Descending(c.tree, N, pos, a, s, TRUE) \/ Descending(c.tree, N, pos, a, s, FALSE)
    BY <1>3, <1>4 DEF Descending
  <2> QED BY <1>1, <2>1 DEF Downs
<1>7. M \in Nat /\ \A k \in 1..M : c.stack[k] \in 2..N
  BY <1>1
<1>8. \A d \in S : \A n \in 2..N : AfterParent(d, n) \in S
  BY DescentKeeps DEF HasDescended
<1>9. Step \in [S \X (1..M) -> S]
  <2> HIDE DEF S, M
  <2> QED BY <1>7, <1>8
<1> HIDE DEF first, S, Step, M
<1>10. PICK f : Iterates(f, S, first, M, Step)
  BY <1>6, <1>7, <1>9, RecursionTo
<1>11. f \in [0..M -> S] /\ f[0] = first /\ \A k \in 1..M : f[k] = Step[<<f[k - 1], k>>]
  BY <1>10 DEF Iterates
<1>12. ASSUME NEW k \in 1..M PROVE f[k] = AfterParent(f[k - 1], c.stack[k])
  <2>1. f[k - 1] \in S
    BY <1>7, <1>11
  <2> QED BY <1>11, <2>1 DEF Step
<1>13. IsDown(f)
  <2>1. ASSUME NEW k \in 0..M PROVE f[k] = IF k = 0 THEN first ELSE AfterParent(f[k - 1], c.stack[k])
    <3>1. k # 0 => k \in 1..M
      BY <1>7
    <3> QED BY <1>11, <1>12, <3>1
  <2> QED BY <1>11, <2>1, Zenon
<1>14. IsDown(down)
  <2> HIDE DEF IsDown
  <2> QED BY <1>13
<1> HIDE DEF down
<1>15. \A k \in 0..M : down[k] = IF k = 0 THEN first ELSE AfterParent(down[k - 1], c.stack[k])
  BY <1>14
<1>16. ASSUME NEW k \in 1..M, down[k - 1] \in S
       PROVE  HasDescended(down[k - 1], down[k], t, N, c.stack[k], a, s)
  <2>1. down[k] = AfterParent(down[k - 1], c.stack[k]) /\ c.stack[k] \in 2..N
    BY <1>7, <1>15
  <2> QED BY <1>16, <2>1, DescentKeeps DEF S
<1> DEFINE Back(i) == {k \in 0..M : down[k] \in S /\ (k >= i => Settled(down[k], N, a, s))}
<1>17. PICK i \in 0..M : /\ i = 0 => Settled(first, N, a, s)
                         /\ i # 0 => c.stack[i] = s
  <2>1. CASE pos[s] = 2 /\ pos[a] = 3
    <3>1. Settled(first, N, a, s)
      BY <1>3, <2>1 DEF Settled, Descending, first
    <3> QED BY <1>7, <3>1
  <2>2. CASE InStack(c.stack, s)
    BY <1>7, <2>2 DEF InStack, M
  <2> QED BY <1>4, <2>1, <2>2
<1>18. 0 \in Back(i)
  BY <1>6, <1>7, <1>15, <1>17
<1>19. ASSUME NEW k \in 1..M, k - 1 \in Back(i) PROVE k \in Back(i)
  <2>1. HasDescended(down[k - 1], down[k], t, N, c.stack[k], a, s)
    BY <1>16, <1>19
  <2>2. down[k] \in S
    BY <2>1 DEF HasDescended, S
  <2>3. ASSUME k >= i PROVE Settled(down[k], N, a, s)
    <3>1. CASE k = i
      BY <1>17, <2>1, <3>1 DEF HasDescended
    <3>2. CASE k > i
      <4>1. k - 1 >= i
        BY <1>7, <3>2
      <4> QED BY <1>19, <2>1, <4>1 DEF HasDescended
    <3> QED BY <1>7, <2>3, <3>1, <3>2
  <2> QED BY <1>7, <2>2, <2>3
<1>20. M \in Back(i)
  <2> DEFINE T == Back(i)
  <2>1. 0 \in T /\ \A k \in 1..M : k - 1 \in T => k \in T
    BY <1>18, <1>19
  <2>2. \A k \in 0..M : k \in T
    <3> HIDE DEF T
    <3> QED BY <1>7, <2>1, InductionTo
  <2> QED BY <1>7, <2>2
<1>21. down[M] \in S /\ Settled(down[M], N, a, s)
  BY <1>7, <1>17, <1>20
<1>22. SameBytes(down[M], t)
  BY <1>21 DEF S, Downs
<1>23. Stable(down[M], N)
  BY <1>21 DEF Settled, Descending, Stable
<1> QED BY <1>5, <1>22, <1>23

(* From a node whose weight alone is behind, every weight is set right.    *)
LEMMA IncrementIs ==
  ASSUME HuffmanAssumption, NEW N \in Nat, NEW t, NEW pos, NEW n, NEW a, NEW s,
         Climbing(t, N, pos, n, 0, a, s, <<>>)
  PROVE  Stable(Huff_IncrementFreq_r(t, n), N) /\ SameBytes(Huff_IncrementFreq_r(t, n), t)
<1>1. t \in TreeOf(N) /\ n \in 0..N
  BY DEF Climbing, Growing, Nil
<1> DEFINE c == [tree |-> t, node |-> n, stack |-> <<>>]
<1>2. c \in [tree : TreeOf(N), node : 0..N, stack : Seq(2..N)]
  BY <1>1
<1>3. IsUp(c, t, N, a)
  <2>1. Len(c.stack) = 0
    OBVIOUS
  <2> QED BY <2>1 DEF IsUp, SameBytes
<1>4. c \in Ups(t, N, a)
  BY <1>2, <1>3 DEF Ups
<1>5. IsTop(ClimbUp(t, n), t, N, a)
  BY <1>1, <1>4, ClimbUpIs
<1> QED BY <1>5, ComeBackIs DEF Huff_IncrementFreq_r

-----------------------------------------------------------------------------
(* Two more elements.                                                      *)
IsGrown(g, f, N, S, x, y) ==
  /\ g \in [1..(N + 2) -> S]
  /\ \A m \in 1..N : g[m] = f[m]
  /\ g[N + 1] = x /\ g[N + 2] = y

(* So is a sequence with two elements appended.                            *)
LEMMA Grown ==
  ASSUME NEW N \in Nat, NEW S, NEW f \in [1..N -> S], NEW x \in S, NEW y \in S
  PROVE  IsGrown(f \o <<x, y>>, f, N, S, x, y)
<1> DEFINE g == f \o <<x, y>>
<1>1. f \in Seq(S) /\ <<x, y>> \in Seq(S) /\ Len(f) = N /\ Len(<<x, y>>) = 2
  OBVIOUS
<1>2. g \in Seq(S) /\ Len(g) = N + 2
  BY <1>1
<1>3. g \in [1..(N + 2) -> S]
  <2> HIDE DEF g
  <2>1. g \in [1..Len(g) -> S]
    BY <1>2
  <2> QED BY <1>2, <2>1
<1>4. \A m \in 1..N : g[m] = f[m]
  BY <1>1
<1>5. g[N + 1] = x /\ g[N + 2] = y
  BY <1>1
<1> QED BY <1>3, <1>4, <1>5 DEF IsGrown

(* Node n is put behind the first, and into the cells.                     *)
HasFollowed(u, t, N, S, pos, n) ==
  /\ u \in TreeOf(N) /\ SameTree(u, t) /\ SameBytes(u, t) /\ u.freq = t.freq
  /\ \A m \in 1..N :
       /\ u.next[m] = IF m = 1 THEN n ELSE IF m = n THEN t.next[1] ELSE t.next[m]
       /\ u.prev[m] = IF t.next[1] # 0 /\ m = t.next[1] THEN n
                      ELSE IF m = n THEN 1 ELSE t.prev[m]
  /\ InCells(u, S \cup {n}, pos)

(* AfterFirst does that, if the second node of the list is the first of    *)
(* n's frequency when it has that frequency.                               *)
LEMMA FollowsFirst ==
  ASSUME NEW N \in Nat, NEW t \in TreeOf(N), NEW n \in 2..N, NEW S \in SUBSET (1..N), n \notin S,
         NEW pos, InCells(t, S, pos), \A m \in 1..N : pos[m] \in Nat,
         t.next[1] # 0 /\ t.freq[t.next[1]] = t.freq[n] => t.next[1] \in S,
         t.next[1] = 0 \/ t.freq[t.next[1]] # t.freq[n] => \A m \in S : t.freq[m] # t.freq[n],
         \A m \in S : t.freq[m] = t.freq[n] => pos[n] <= pos[m]
  PROVE  HasFollowed(AfterFirst(t, n), t, N, S, pos, n)
<1> DEFINE f == Put(t.next, n, t.next[1])
           g == Put(t.prev, n, 1)
           v == Relink(t, f, g)
           w == LinkNext(v, n)
           x == EnterCell(w, n)
           h == Put(x.next, 1, n)
           u == AfterFirst(t, n)
<1>1. t.next \in Pointers(N) /\ t.prev \in Pointers(N) /\ 1 \in 1..N /\ n \in 1..N /\ n # 1
  BY DEF TreeOf
<1>2. /\ f \in Pointers(N) /\ \A m \in 1..N : f[m] = IF m = n THEN t.next[1] ELSE t.next[m]
      /\ g \in Pointers(N) /\ \A m \in 1..N : g[m] = IF m = n THEN 1 ELSE t.prev[m]
  BY <1>1, SMTT(30) DEF Pointers, Put
<1>3. u = [x EXCEPT !.next = h]
  <2>1. v = [t EXCEPT !.next[n] = t.next[First], !.prev[n] = First]
    BY DEF Relink, TreeOf, Put, First
  <2> HIDE DEF v
  <2>2. u = [EnterCell(LinkNext(v, n), n) EXCEPT !.next[First] = n]
    BY <2>1 DEF AfterFirst
  <2>3. u = [x EXCEPT !.next[1] = n]
    BY <2>2 DEF First
  <2> HIDE DEF x
  <2> QED BY <2>3 DEF Put
<1> HIDE DEF f, g, v
<1>4. v \in TreeOf(N) /\ OnlyListed(v, t) /\ v.next = f /\ v.prev = g
  BY <1>2, Relinked DEF v
<1> HIDE DEF w
<1>5. /\ w \in TreeOf(N) /\ OnlyListed(w, v) /\ w.next = f
      /\ \A m \in 1..N : w.prev[m] = IF f[n] # 0 /\ m = f[n] THEN n ELSE g[m]
  <2>1. /\ w \in TreeOf(N) /\ OnlyListed(w, v) /\ w.next = v.next
        /\ \A m \in 1..N : w.prev[m] = IF v.next[n] # Nil /\ m = v.next[n] THEN n ELSE v.prev[m]
    <3>1. v \in TreeOf(N) /\ n \in 1..N
      BY <1>1, <1>4
    <3> QED BY <3>1, LinkNextIs DEF w
  <2> QED BY <1>4, <2>1 DEF Nil
<1>6. OnlyListed(w, t)
  BY <1>4, <1>5, ListedAgain
<1>7. w.freq = t.freq /\ SameCells(w, t) /\ SameTree(w, t) /\ SameBytes(w, t)
  BY <1>6 DEF OnlyListed
<1>8. w.next[n] = t.next[1]
  BY <1>1, <1>2, <1>5
<1>9. InCells(w, S, pos)
  BY <1>7 DEF InCells, SameCells
<1>10. HasEntered(x, N, w, S, pos, n)
  <2>1. /\ Alike(w, n, w.next[n]) => w.next[n] \in S
        /\ ~ Alike(w, n, w.next[n]) => \A m \in S : w.freq[m] # w.freq[n]
        /\ \A m \in S : w.freq[m] = w.freq[n] => pos[n] <= pos[m]
    BY <1>7, <1>8 DEF Alike, Nil
  <2> QED BY <1>1, <1>5, <1>9, <2>1, EntersCell
<1> HIDE DEF x
<1>11. /\ x \in TreeOf(N) /\ SameTree(x, t) /\ SameBytes(x, t) /\ x.freq = t.freq
       /\ x.next = f /\ x.prev = w.prev /\ InCells(x, S \cup {n}, pos)
  BY <1>5, <1>7, <1>10 DEF HasEntered, OnlyCelled, SameTree, SameBytes, SameList
<1>12. h \in Pointers(N) /\ \A m \in 1..N : h[m] = IF m = 1 THEN n ELSE f[m]
  BY <1>1, <1>2, <1>11 DEF Pointers, Put
<1>13. u = Relink(x, h, x.prev)
  BY <1>3, <1>11 DEF Relink, TreeOf
<1>14. x.prev \in Pointers(N)
  BY <1>11 DEF TreeOf
<1> HIDE DEF h, u
<1>15. u \in TreeOf(N) /\ OnlyListed(u, x) /\ u.next = h /\ u.prev = x.prev
  BY <1>11, <1>12, <1>13, <1>14, Relinked
<1>16. SameTree(u, t) /\ SameBytes(u, t) /\ u.freq = t.freq
  BY <1>11, <1>15 DEF OnlyListed, SameTree, SameBytes
<1>17. InCells(u, S \cup {n}, pos)
  BY <1>11, <1>15 DEF InCells, OnlyListed, SameCells
<1>18. ASSUME NEW m \in 1..N
       PROVE  /\ u.next[m] = IF m = 1 THEN n ELSE IF m = n THEN t.next[1] ELSE t.next[m]
              /\ u.prev[m] = IF t.next[1] # 0 /\ m = t.next[1] THEN n
                             ELSE IF m = n THEN 1 ELSE t.prev[m]
  BY <1>1, <1>2, <1>5, <1>11, <1>12, <1>15
<1> QED BY <1>15, <1>16, <1>17, <1>18 DEF HasFollowed, u

(* The list with two nodes more, behind the first.                         *)
Followed(next, prev, pos, next2, prev2, pos2, N, a, b) ==
  /\ N >= 1 /\ pos[1] = 1 /\ b = N + 1 /\ a = N + 2
  /\ \A m \in 1..(N + 2) : next2[m] = IF m = 1 THEN b ELSE IF m = b THEN a
                                      ELSE IF m = a THEN next[1] ELSE next[m]
  /\ \A m \in 1..(N + 2) : prev2[m] = IF m = b THEN 1 ELSE IF m = a THEN b
                                      ELSE IF next[1] # 0 /\ m = next[1] THEN a ELSE prev[m]
  /\ \A m \in 1..(N + 2) : pos2[m] = IF m = 1 THEN 1 ELSE IF m = b THEN 2
                                     ELSE IF m = a THEN 3 ELSE pos[m] + 2

(* It is a list again, with the others two places further.                 *)
LEMMA OrderFollowed ==
  ASSUME NEW N \in Nat, NEW next, NEW prev, NEW pos, Order(next, prev, N, pos),
         NEW next2, NEW prev2, NEW pos2, NEW a, NEW b,
         Followed(next, prev, pos, next2, prev2, pos2, N, a, b)
  PROVE  Order(next2, prev2, N + 2, pos2)
<1>0. /\ N >= 1 /\ pos[1] = 1 /\ b = N + 1 /\ a = N + 2
      /\ \A m \in 1..(N + 2) : next2[m] = IF m = 1 THEN b ELSE IF m = b THEN a
                                          ELSE IF m = a THEN next[1] ELSE next[m]
      /\ \A m \in 1..(N + 2) : prev2[m] = IF m = b THEN 1 ELSE IF m = a THEN b
                                          ELSE IF next[1] # 0 /\ m = next[1] THEN a ELSE prev[m]
      /\ \A m \in 1..(N + 2) : pos2[m] = IF m = 1 THEN 1 ELSE IF m = b THEN 2
                                         ELSE IF m = a THEN 3 ELSE pos[m] + 2
  BY DEF Followed
<1>1. /\ \A m \in 1..N : pos[m] \in 1..N /\ next[m] \in 0..N /\ prev[m] \in 0..N
      /\ \A m, k \in 1..N : pos[m] = pos[k] => m = k
      /\ \A m \in 1..N : next[m] = 0 <=> pos[m] = N
      /\ \A m \in 1..N : next[m] # 0 => pos[next[m]] = pos[m] + 1
      /\ \A m \in 1..N : prev[m] = 0 <=> pos[m] = 1
      /\ \A m \in 1..N : prev[m] # 0 => pos[prev[m]] = pos[m] - 1
  BY DEF Order, Nil
<1>2. \A m \in 1..(N + 2) : m = a \/ m = b \/ m \in 1..N
  BY <1>0
<1>3. 1 \in 1..N /\ a \notin 1..N /\ b \notin 1..N /\ a # b /\ a \in 1..(N + 2) /\ b \in 1..(N + 2)
  BY <1>0
<1>4. \A m \in 1..N : m # 1 => pos[m] >= 2
  BY <1>0, <1>1, <1>3
<1>5. \A m \in 1..N : next[m] # 1 /\ prev[m] # m /\ (prev[m] = 1 => m = next[1])
  <2>1. SUFFICES ASSUME NEW m \in 1..N
                 PROVE  next[m] # 1 /\ prev[m] # m /\ (prev[m] = 1 => m = next[1])
    OBVIOUS
  <2>2. pos[m] \in 1..N
    BY <1>1
  <2>3. next[m] # 1
    <3>1. SUFFICES ASSUME next[m] = 1 PROVE FALSE
      OBVIOUS
    <3>2. pos[next[m]] = pos[m] + 1
      BY <1>1, <3>1
    <3> QED BY <1>0, <2>2, <3>1, <3>2
  <2>4. prev[m] # m
    <3>1. SUFFICES ASSUME prev[m] = m PROVE FALSE
      OBVIOUS
    <3>2. pos[prev[m]] = pos[m] - 1
      BY <1>1, <3>1
    <3> QED BY <1>0, <2>2, <3>1, <3>2
  <2>5. ASSUME prev[m] = 1 PROVE m = next[1]
    <3>1. pos[m] = 2
      <4>1. pos[prev[m]] = pos[m] - 1
        BY <1>1, <2>5
      <4> QED BY <1>0, <2>2, <2>5, <4>1
    <3>2. next[1] \in 1..N /\ pos[next[1]] = 2
      BY <1>0, <1>1, <1>3, <2>2, <3>1
    <3> QED BY <1>1, <3>1, <3>2
  <2> QED BY <2>3, <2>4, <2>5
<1>6. SUFFICES ASSUME NEW n \in 1..(N + 2)
      PROVE  /\ pos2[n] \in 1..(N + 2)
             /\ \A m \in 1..(N + 2) : pos2[m] = pos2[n] => m = n
             /\ next2[n] \in 0..(N + 2) /\ prev2[n] \in 0..(N + 2)
             /\ next2[n] = 0 <=> pos2[n] = N + 2
             /\ next2[n] # 0 => pos2[next2[n]] = pos2[n] + 1
             /\ prev2[n] = 0 <=> pos2[n] = 1
             /\ prev2[n] # 0 => pos2[prev2[n]] = pos2[n] - 1
  BY DEF Order, Nil
<1>7. \A m \in 1..N : m # 1 => m \in 1..(N + 2) /\ pos2[m] = pos[m] + 2 /\ pos2[m] >= 4
  BY <1>0, <1>3, <1>4, <1>1
<1>8. pos2[1] = 1 /\ pos2[b] = 2 /\ pos2[a] = 3
  BY <1>0, <1>3
<1>9. CASE n = 1
  BY <1>0, <1>1, <1>2, <1>3, <1>7, <1>8, <1>9
<1>10. CASE n = b
  BY <1>0, <1>1, <1>2, <1>3, <1>7, <1>8, <1>10
<1>11. CASE n = a
  BY <1>0, <1>1, <1>2, <1>3, <1>5, <1>7, <1>8, <1>11
<1>12. CASE n \in 1..N /\ n # 1
  <2>1. next2[n] = next[n]
    BY <1>0, <1>3, <1>12
  <2>2. prev2[n] = IF next[1] # 0 /\ n = next[1] THEN a ELSE prev[n]
    BY <1>0, <1>3, <1>12
  <2>3. pos2[n] = pos[n] + 2 /\ pos[n] \in 1..N
    BY <1>0, <1>1, <1>7, <1>12
  <2>4. \A m \in 1..(N + 2) : pos2[m] = pos2[n] => m = n
    BY <1>0, <1>1, <1>2, <1>7, <1>8, <1>12, <2>3
  <2>5. next2[n] \in 0..(N + 2) /\ (next2[n] = 0 <=> pos2[n] = N + 2)
    BY <1>0, <1>1, <1>12, <2>1, <2>3
  <2>6. next2[n] # 0 => pos2[next2[n]] = pos2[n] + 1
    <3>1. SUFFICES ASSUME next[n] # 0 PROVE pos2[next[n]] = pos2[n] + 1
      BY <2>1
    <3>2. next[n] \in 1..N /\ next[n] # 1 /\ pos[next[n]] = pos[n] + 1
      BY <1>1, <1>5, <1>12, <3>1
    <3> QED BY <1>7, <2>3, <3>2
  <2>7. prev2[n] \in 0..(N + 2) /\ prev2[n] # 0 /\ pos2[prev2[n]] = pos2[n] - 1
    <3>1. prev[n] \in 1..N /\ pos[prev[n]] = pos[n] - 1
      BY <1>0, <1>1, <1>3, <1>12
    <3>2. CASE next[1] # 0 /\ n = next[1]
      <4>1. pos[n] = 2
        BY <1>0, <1>1, <1>3, <3>2
      <4> QED BY <1>0, <1>3, <1>8, <2>2, <2>3, <3>2, <4>1
    <3>3. CASE ~ (next[1] # 0 /\ n = next[1])
      <4>1. prev[n] # 1
        BY <1>0, <1>1, <1>3, <1>5, <1>12, <3>1, <3>3
      <4> QED BY <1>7, <2>2, <2>3, <3>1, <3>3, <4>1
    <3> QED BY <3>2, <3>3
  <2>8. pos2[n] \in 1..(N + 2) /\ pos2[n] # 1
    BY <2>3
  <2> QED BY <2>4, <2>5, <2>6, <2>7, <2>8
<1> QED BY <1>2, <1>9, <1>10, <1>11, <1>12

(* The same tree with other nodes, the new ones among them ...             *)
Widen(t, l, r, p, n, v, h, f, s) ==
  [t EXCEPT !.left = l, !.right = r, !.parent = p, !.next = n, !.prev = v,
            !.head = h, !.freq = f, !.symbol = s]

(* ... and what is known of it.                                            *)
HasWidened(u, t, N, l, r, p, n, v, h, f, s) ==
  /\ u \in TreeOf(N)
  /\ u.left = l /\ u.right = r /\ u.parent = p /\ u.next = n /\ u.prev = v
  /\ u.head = h /\ u.freq = f /\ u.symbol = s
  /\ u.cells = t.cells /\ u.free = t.free /\ u.root = t.root /\ u.loc = t.loc

(* A tree with other nodes.                                                *)
LEMMA Widened ==
  ASSUME NEW N \in Nat, NEW t \in TreeOf(N), NEW M \in Nat, N <= M,
         NEW l \in Pointers(M), NEW r \in Pointers(M), NEW p \in Pointers(M),
         NEW n \in Pointers(M), NEW v \in Pointers(M),
         NEW h \in Numbers(M), NEW f \in Numbers(M), NEW s \in Numbers(M)
  PROVE  HasWidened(Widen(t, l, r, p, n, v, h, f, s), t, M, l, r, p, n, v, h, f, s)
<1>1. t.root \in 0..M
  BY DEF TreeOf
<1>2. t.loc \in [Byte \cup {NotReferenced} -> 0..M]
  <2>1. t.loc \in [Byte \cup {NotReferenced} -> 0..N]
    BY DEF TreeOf
  <2> QED BY <2>1
<1> DEFINE u == Widen(t, l, r, p, n, v, h, f, s)
<1>3. /\ t.cells \in Seq(Nat) /\ t.free \in Nat
      /\ l \in [1..M -> 0..M] /\ r \in [1..M -> 0..M] /\ p \in [1..M -> 0..M]
      /\ n \in [1..M -> 0..M] /\ v \in [1..M -> 0..M]
      /\ h \in [1..M -> Nat] /\ f \in [1..M -> Nat] /\ s \in [1..M -> Nat]
  BY DEF TreeOf, Numbers, Pointers
<1> DEFINE P == Pointers(N)
           Q == [1..N -> Nat]
           C == Seq(Nat)
           R == 0..N
           L == [Byte \cup {NotReferenced} -> 0..N]
           P2 == Pointers(M)
           Q2 == [1..M -> Nat]
           R2 == 0..M
           L2 == [Byte \cup {NotReferenced} -> 0..M]
<1>4. t \in [left : P, right : P, parent : P, next : P, prev : P, head : Q,
             freq : Q, symbol : Q, cells : C, free : Nat, root : R, loc : L]
  BY DEF TreeOf
<1>5. /\ l \in P2 /\ r \in P2 /\ p \in P2 /\ n \in P2 /\ v \in P2
      /\ h \in Q2 /\ f \in Q2 /\ s \in Q2 /\ t.cells \in C /\ t.root \in R2 /\ t.loc \in L2
  BY <1>1, <1>2, <1>3 DEF Numbers
<1> HIDE DEF P, Q, C, R, L, P2, Q2, R2, L2
<1>6. /\ u \in [left : P2, right : P2, parent : P2, next : P2, prev : P2, head : Q2,
                freq : Q2, symbol : Q2, cells : C, free : Nat, root : R2, loc : L2]
      /\ u.left = l /\ u.right = r /\ u.parent = p /\ u.next = n /\ u.prev = v
      /\ u.head = h /\ u.freq = f /\ u.symbol = s
      /\ u.cells = t.cells /\ u.free = t.free /\ u.root = t.root /\ u.loc = t.loc
  BY <1>4, <1>5 DEF Widen
<1> HIDE DEF u
<1>7. u \in TreeOf(M)
  BY <1>6 DEF TreeOf, P2, Q2, C, R2, L2
<1> QED BY <1>6, <1>7 DEF HasWidened, u

(* The two nodes of a new byte, not yet linked.                            *)
Made(t, ch, a, b) ==
  [t EXCEPT !.left   = @ \o <<Nil, First>>,
            !.right  = @ \o <<Nil, b>>,
            !.parent = @ \o <<a, t.parent[First]>>,
            !.next   = @ \o <<Nil, Nil>>,
            !.prev   = @ \o <<Nil, Nil>>,
            !.head   = @ \o <<Nil, Nil>>,
            !.freq   = @ \o <<1, 1>>,
            !.symbol = @ \o <<ch, NodeNext>>]

(* The old nodes as they were, and the two new ones.                       *)
HasMade(u, t, N, ch, a, b) ==
  /\ u \in TreeOf(N + 2)
  /\ u.cells = t.cells /\ u.free = t.free /\ u.root = t.root /\ u.loc = t.loc
  /\ \A m \in 1..N : /\ u.left[m] = t.left[m] /\ u.right[m] = t.right[m]
                     /\ u.parent[m] = t.parent[m] /\ u.symbol[m] = t.symbol[m]
                     /\ u.next[m] = t.next[m] /\ u.prev[m] = t.prev[m]
                     /\ u.head[m] = t.head[m] /\ u.freq[m] = t.freq[m]
  /\ u.left[a] = First /\ u.right[a] = b /\ u.parent[a] = t.parent[First]
  /\ u.symbol[a] = NodeNext /\ u.freq[a] = 1
  /\ u.left[b] = Nil /\ u.right[b] = Nil /\ u.parent[b] = a
  /\ u.symbol[b] = ch /\ u.freq[b] = 1

(* The tree has them.                                                      *)
LEMMA MadeIs ==
  ASSUME HuffmanAssumption, NEW N \in Nat, NEW t \in TreeOf(N), N >= 1, NEW ch \in Byte
  PROVE  HasMade(Made(t, ch, N + 2, N + 1), t, N, ch, N + 2, N + 1)
<1> DEFINE M == N + 2
           b == N + 1
           top == t.parent[1]
           l == t.left \o <<0, 1>>
           r == t.right \o <<0, b>>
           p == t.parent \o <<M, top>>
           n == t.next \o <<0, 0>>
           v == t.prev \o <<0, 0>>
           h == t.head \o <<0, 0>>
           f == t.freq \o <<1, 1>>
           s == t.symbol \o <<ch, NodeNext>>
           u == Made(t, ch, M, b)
<1>1. u = Widen(t, l, r, p, n, v, h, f, s)
  BY DEF Made, Widen, TreeOf, Nil, First
<1>2. /\ t.left \in [1..N -> 0..M] /\ t.right \in [1..N -> 0..M] /\ t.parent \in [1..N -> 0..M]
      /\ t.next \in [1..N -> 0..M] /\ t.prev \in [1..N -> 0..M]
      /\ t.head \in [1..N -> Nat] /\ t.freq \in [1..N -> Nat] /\ t.symbol \in [1..N -> Nat]
  <2>1. /\ t.left \in Pointers(N) /\ t.right \in Pointers(N) /\ t.parent \in Pointers(N)
        /\ t.next \in Pointers(N) /\ t.prev \in Pointers(N)
        /\ t.head \in [1..N -> Nat] /\ t.freq \in [1..N -> Nat] /\ t.symbol \in [1..N -> Nat]
    BY DEF TreeOf
  <2>2. ASSUME NEW g \in Pointers(N) PROVE g \in [1..N -> 0..M]
    BY DEF Pointers
  <2> QED BY <2>1, <2>2
<1>3. 0 \in 0..M /\ 1 \in 0..M /\ M \in 0..M /\ b \in 0..M /\ top \in 0..M /\ 0 \in Nat /\ 1 \in Nat
  <2>1. 1 \in 1..N /\ t.parent \in [1..N -> 0..M]
    BY <1>2
  <2>2. top \in 0..M
    BY <2>1
  <2> QED BY <2>2
<1>4. ch \in Nat /\ NodeNext \in Nat
  BY SymbolsDiffer
<1> HIDE DEF l, r, p, n, v, h, f, s, u, top, b
<1> DEFINE P == 0..M
<1> HIDE DEF P, M
<1>5. IsGrown(l, t.left, N, P, 0, 1)
  BY <1>2, <1>3, Grown DEF l, P
<1>6. IsGrown(r, t.right, N, P, 0, b)
  BY <1>2, <1>3, Grown DEF r, P
<1>7. IsGrown(p, t.parent, N, P, M, top)
  BY <1>2, <1>3, Grown DEF p, P
<1>8. IsGrown(n, t.next, N, P, 0, 0)
  BY <1>2, <1>3, Grown DEF n, P
<1>9. IsGrown(v, t.prev, N, P, 0, 0)
  BY <1>2, <1>3, Grown DEF v, P
<1>10. IsGrown(h, t.head, N, Nat, 0, 0)
  BY <1>2, <1>3, Grown DEF h
<1>11. IsGrown(f, t.freq, N, Nat, 1, 1)
  BY <1>2, <1>3, Grown DEF f
<1>12. IsGrown(s, t.symbol, N, Nat, ch, NodeNext)
  BY <1>2, <1>4, Grown DEF s
<1>13. /\ l \in Pointers(M) /\ r \in Pointers(M) /\ p \in Pointers(M)
       /\ n \in Pointers(M) /\ v \in Pointers(M)
       /\ h \in Numbers(M) /\ f \in Numbers(M) /\ s \in Numbers(M)
  BY <1>5, <1>6, <1>7, <1>8, <1>9, <1>10, <1>11, <1>12 DEF IsGrown, Pointers, Numbers, M, P
<1>14. M \in Nat /\ N <= M
  BY DEF M
<1>15. HasWidened(u, t, M, l, r, p, n, v, h, f, s)
  BY <1>1, <1>13, <1>14, Widened
<1>16. /\ u \in TreeOf(M)
       /\ u.left = l /\ u.right = r /\ u.parent = p /\ u.next = n /\ u.prev = v
       /\ u.head = h /\ u.freq = f /\ u.symbol = s
       /\ u.cells = t.cells /\ u.free = t.free /\ u.root = t.root /\ u.loc = t.loc
  BY <1>15 DEF HasWidened
<1>17. \A m \in 1..N : /\ l[m] = t.left[m] /\ r[m] = t.right[m]
                       /\ p[m] = t.parent[m] /\ s[m] = t.symbol[m]
                       /\ n[m] = t.next[m] /\ v[m] = t.prev[m]
                       /\ h[m] = t.head[m] /\ f[m] = t.freq[m]
  BY <1>5, <1>6, <1>7, <1>8, <1>9, <1>10, <1>11, <1>12 DEF IsGrown
<1>18. /\ l[M] = 1 /\ r[M] = b /\ p[M] = top /\ s[M] = NodeNext /\ f[M] = 1
       /\ l[b] = 0 /\ r[b] = 0 /\ p[b] = M /\ s[b] = ch /\ f[b] = 1
  BY <1>5, <1>6, <1>7, <1>11, <1>12 DEF IsGrown, M, b
<1>19. HasMade(u, t, N, ch, M, b)
  BY <1>16, <1>17, <1>18 DEF HasMade, M, Nil, First, top
<1> QED BY <1>19 DEF u, M, b

(* Both are in the list and in the cells.                                  *)
HasBoth(u, t, N, pos2, ch, a, b) ==
  /\ u \in TreeOf(N + 2) /\ u.root = t.root /\ u.loc = t.loc
  /\ Listed(u, N + 2, pos2)
  /\ \A m \in 1..N : /\ u.left[m] = t.left[m] /\ u.right[m] = t.right[m]
                     /\ u.parent[m] = t.parent[m] /\ u.symbol[m] = t.symbol[m]
                     /\ u.freq[m] = t.freq[m]
  /\ u.left[a] = First /\ u.right[a] = b /\ u.parent[a] = t.parent[First]
  /\ u.symbol[a] = NodeNext /\ u.freq[a] = 1
  /\ u.left[b] = Nil /\ u.right[b] = Nil /\ u.parent[b] = a
  /\ u.symbol[b] = ch /\ u.freq[b] = 1

(* The places of all nodes with the two that are new.                      *)
Moved(pos, N, a, b) ==
  [m \in 1..(N + 2) |-> IF m = 1 THEN 1 ELSE IF m = b THEN 2 ELSE IF m = a THEN 3 ELSE pos[m] + 2]

(* AfterFirst puts first a, then b behind the first node; b finds a there, *)
(* of its own frequency, so that the cell it takes part in is that of a.   *)
LEMMA BothAre ==
  ASSUME NEW N \in Nat, NEW t \in TreeOf(N), NEW pos, Listed(t, N, pos),
         NEW ch, NEW a, NEW b, a = N + 2, b = N + 1,
         NEW u, HasMade(u, t, N, ch, a, b)
  PROVE  HasBoth(AfterFirst(AfterFirst(u, a), b), t, N, Moved(pos, N, a, b), ch, a, b)
<1> DEFINE M == N + 2
           pos2 == Moved(pos, N, a, b)
           S == 2..N
           v == AfterFirst(u, a)
           w == AfterFirst(v, b)
<1>1. /\ N >= 1 /\ pos[1] = 1 /\ t.freq[1] = 0
      /\ \A m \in S : t.freq[m] >= 1
  BY DEF Listed, Least, First
<1>2. /\ \A m \in 1..N : pos[m] \in 1..N /\ t.next[m] \in 0..N /\ t.freq[m] \in Nat
      /\ \A m, k \in 1..N : pos[m] = pos[k] => m = k
      /\ \A m \in 1..N : t.next[m] = 0 <=> pos[m] = N
      /\ \A m \in 1..N : t.next[m] # 0 => pos[t.next[m]] = pos[m] + 1
      /\ \A m, k \in 1..N : pos[m] <= pos[k] => t.freq[m] <= t.freq[k]
      /\ Order(t.next, t.prev, N, pos)
  BY DEF Listed, InList, Order, Sorted, Nil, TreeOf
<1>3. /\ M \in Nat /\ a \in 2..M /\ b \in 2..M
      /\ a # b /\ a \notin 1..N /\ b \notin 1..N /\ 1 \in 1..N
      /\ \A m \in 1..M : m = a \/ m = b \/ m \in 1..N
      /\ \A m \in 1..N : m \in 1..M
  BY <1>1
<1>4. \A m \in 1..M : pos2[m] = IF m = 1 THEN 1 ELSE IF m = b THEN 2
                                ELSE IF m = a THEN 3 ELSE pos[m] + 2
  BY DEF Moved
<1> HIDE DEF pos2, v, w, M
<1>5. /\ \A m \in S : pos2[m] = pos[m] + 2 /\ pos2[m] >= 4 /\ pos2[m] \in Nat /\ m \in 1..N
      /\ pos2[1] = 1 /\ pos2[b] = 2 /\ pos2[a] = 3
  <2>1. \A m \in S : m \in 1..N /\ m # 1
    OBVIOUS
  <2>2. \A m \in S : pos[m] \in 1..N /\ pos[m] # 1
    BY <1>1, <1>2, <1>3, <2>1
  <2> QED BY <1>3, <1>4, <2>1, <2>2
<1>6. \A m \in 1..M : pos2[m] \in Nat
  <2>1. \A m \in 1..M : m = 1 \/ m = a \/ m = b \/ m \in S
    BY <1>3
  <2> QED BY <1>5, <2>1
<1>7. /\ u \in TreeOf(M) /\ u.cells = t.cells /\ u.free = t.free /\ u.root = t.root /\ u.loc = t.loc
      /\ \A m \in 1..N : /\ u.next[m] = t.next[m] /\ u.prev[m] = t.prev[m]
                         /\ u.head[m] = t.head[m] /\ u.freq[m] = t.freq[m]
      /\ u.freq[a] = 1 /\ u.freq[b] = 1
  BY DEF HasMade, M
<1>8. S \in SUBSET (1..M) /\ a \notin S /\ S \cup {a} \in SUBSET (1..M) /\ b \notin S \cup {a}
  BY <1>3
<1>9. InCells(u, S, pos2)
  <2>1. /\ Holds(t.head, t.cells, t.freq, S, pos)
        /\ \E rank, R : Chain(t.head, t.cells, t.free, S, rank, R)
    BY DEF Listed, InCells
  <2>2. \A m \in S : u.head[m] = t.head[m] /\ u.freq[m] = t.freq[m] /\ m \in 1..N
    BY <1>5, <1>7
  <2>3. Holds(u.head, t.cells, u.freq, S, pos2)
    <3>1. SUFFICES ASSUME NEW n \in S
                   PROVE  /\ u.head[n] \in 1..Len(t.cells)
                          /\ t.cells[u.head[n]] \in S
                          /\ u.freq[t.cells[u.head[n]]] = u.freq[n]
                          /\ \A m \in S : u.freq[m] = u.freq[n] =>
                               u.head[m] = u.head[n] /\ pos2[m] <= pos2[t.cells[u.head[n]]]
      BY DEF Holds
    <3> DEFINE e == t.cells[t.head[n]]
    <3>2. /\ t.head[n] \in 1..Len(t.cells) /\ e \in S /\ t.freq[e] = t.freq[n]
          /\ \A m \in S : t.freq[m] = t.freq[n] => t.head[m] = t.head[n] /\ pos[m] <= pos[e]
      BY <2>1 DEF Holds
    <3>3. t.cells[u.head[n]] = e
      BY <2>2
    <3> HIDE DEF e, S
    <3>4. \A m \in S : u.freq[m] = u.freq[n] => u.head[m] = u.head[n] /\ pos2[m] <= pos2[e]
      <4>1. SUFFICES ASSUME NEW m \in S, u.freq[m] = u.freq[n]
                     PROVE  u.head[m] = u.head[n] /\ pos2[m] <= pos2[e]
        OBVIOUS
      <4>2. t.freq[m] = t.freq[n]
        BY <2>2, <4>1
      <4>3. t.head[m] = t.head[n] /\ pos[m] <= pos[e] /\ pos[m] \in 1..N /\ pos[e] \in 1..N
        BY <1>2, <2>2, <3>2, <4>2
      <4>4. u.head[m] = u.head[n]
        BY <2>2, <4>3
      <4>5. pos2[m] = pos[m] + 2 /\ pos2[e] = pos[e] + 2
        BY <1>5, <3>2
      <4> QED BY <4>3, <4>4, <4>5
    <3> QED BY <2>2, <3>2, <3>3, <3>4
  <2>4. PICK rank, R : Chain(t.head, t.cells, t.free, S, rank, R)
    BY <2>1
  <2>5. Chain(u.head, t.cells, t.free, S, rank, R)
    <3>1. t.cells \in Seq(Nat)
      BY DEF TreeOf
    <3>2. \A d \in 1..Len(t.cells) : (\E m \in S : t.head[m] = d) <=> (\E m \in S : u.head[m] = d)
      BY <2>2
    <3> HIDE DEF S
    <3> QED BY <2>4, <3>1, <3>2, ChainKept, SMTT(30)
  <2> QED BY <1>7, <2>3, <2>5 DEF InCells
<1>10. u.next[1] = t.next[1]
  BY <1>3, <1>7
<1>11. t.next[1] # 0 => t.next[1] \in S /\ pos[t.next[1]] = 2
  BY <1>1, <1>2, <1>3
<1>12. HasFollowed(v, u, M, S, pos2, a)
  <2>1. u.next[1] # 0 /\ u.freq[u.next[1]] = u.freq[a] => u.next[1] \in S
    BY <1>10, <1>11
  <2>2. ASSUME t.next[1] = 0 \/ u.freq[t.next[1]] # 1, NEW m \in S PROVE u.freq[m] # 1
    <3>1. m \in 1..N /\ pos[m] \in 1..N /\ pos[m] # 1 /\ u.freq[m] = t.freq[m]
      BY <1>1, <1>2, <1>3, <1>5, <1>7
    <3>2. t.next[1] # 0
      BY <1>1, <1>2, <1>3, <3>1
    <3> DEFINE q == t.next[1]
    <3>3. q \in S /\ q \in 1..N /\ pos[q] = 2 /\ u.freq[q] = t.freq[q] /\ t.freq[q] \in Nat
      BY <1>2, <1>5, <1>7, <1>11, <3>2
    <3>4. t.freq[q] >= 1 /\ t.freq[q] # 1
      BY <1>1, <2>2, <3>2, <3>3
    <3>5. t.freq[q] <= t.freq[m] /\ t.freq[m] \in Nat
      <4> HIDE DEF q
      <4> QED BY <1>2, <3>1, <3>3
    <3> QED BY <3>1, <3>3, <3>4, <3>5
  <2>3. \A m \in S : u.freq[m] = u.freq[a] => pos2[a] <= pos2[m]
    BY <1>5
  <2>4. u.next[1] = 0 \/ u.freq[u.next[1]] # u.freq[a] => \A m \in S : u.freq[m] # u.freq[a]
    BY <1>7, <1>10, <2>2
  <2> HIDE DEF S
  <2> QED BY <1>3, <1>6, <1>7, <1>8, <1>9, <2>1, <2>3, <2>4, FollowsFirst DEF v
<1>13. /\ v \in TreeOf(M) /\ SameTree(v, u) /\ SameBytes(v, u) /\ v.freq = u.freq
       /\ \A m \in 1..M :
            /\ v.next[m] = IF m = 1 THEN a ELSE IF m = a THEN u.next[1] ELSE u.next[m]
            /\ v.prev[m] = IF u.next[1] # 0 /\ m = u.next[1] THEN a
                           ELSE IF m = a THEN 1 ELSE u.prev[m]
       /\ InCells(v, S \cup {a}, pos2)
  BY <1>12 DEF HasFollowed
<1>14. v.next[1] = a /\ a # 0
  BY <1>3, <1>13
<1>15. HasFollowed(w, v, M, S \cup {a}, pos2, b)
  <2>1. v.freq[a] = 1 /\ v.freq[b] = 1
    BY <1>7, <1>13
  <2>2. v.next[1] # 0 /\ v.freq[v.next[1]] = v.freq[b] => v.next[1] \in S \cup {a}
    BY <1>14
  <2>3. v.next[1] = 0 \/ v.freq[v.next[1]] # v.freq[b] =>
          \A m \in S \cup {a} : v.freq[m] # v.freq[b]
    BY <1>14, <2>1
  <2>4. \A m \in S \cup {a} : v.freq[m] = v.freq[b] => pos2[b] <= pos2[m]
    BY <1>5
  <2> DEFINE T == S \cup {a}
  <2>5. T \in SUBSET (1..M) /\ b \notin T /\ InCells(v, T, pos2)
    BY <1>8, <1>13
  <2>6. /\ v.next[1] # 0 /\ v.freq[v.next[1]] = v.freq[b] => v.next[1] \in T
        /\ v.next[1] = 0 \/ v.freq[v.next[1]] # v.freq[b] => \A m \in T : v.freq[m] # v.freq[b]
        /\ \A m \in T : v.freq[m] = v.freq[b] => pos2[b] <= pos2[m]
    BY <2>2, <2>3, <2>4
  <2>7. v \in TreeOf(M)
    BY <1>13
  <2> HIDE DEF T
  <2>8. HasFollowed(w, v, M, T, pos2, b)
    BY <1>3, <1>6, <2>5, <2>6, <2>7, FollowsFirst DEF w
  <2> QED BY <2>8 DEF T
<1>16. /\ w \in TreeOf(M) /\ SameTree(w, u) /\ SameBytes(w, u) /\ w.freq = u.freq
       /\ \A m \in 1..M :
            /\ w.next[m] = IF m = 1 THEN b ELSE IF m = b THEN a ELSE v.next[m]
            /\ w.prev[m] = IF m = a THEN b ELSE IF m = b THEN 1 ELSE v.prev[m]
       /\ InCells(w, (S \cup {a}) \cup {b}, pos2)
  BY <1>13, <1>14, <1>15 DEF HasFollowed, SameTree, SameBytes
<1>17. Order(w.next, w.prev, M, pos2)
  <2>1. u.next[1] = t.next[1] /\ t.next[1] # a /\ t.next[1] # b /\ t.next[1] # 1
    BY <1>2, <1>3, <1>10, <1>11
  <2>2. \A m \in 1..M : w.next[m] = IF m = 1 THEN b ELSE IF m = b THEN a
                                    ELSE IF m = a THEN t.next[1] ELSE t.next[m]
    BY <1>3, <1>7, <1>13, <1>16, <2>1
  <2>3. \A m \in 1..M : w.prev[m] = IF m = b THEN 1 ELSE IF m = a THEN b
                                    ELSE IF t.next[1] # 0 /\ m = t.next[1] THEN a ELSE t.prev[m]
    BY <1>3, <1>7, <1>13, <1>16, <2>1
  <2>4. Followed(t.next, t.prev, pos, w.next, w.prev, pos2, N, a, b)
    BY <1>1, <1>4, <2>2, <2>3 DEF Followed, M
  <2> QED BY <1>2, <2>4, OrderFollowed DEF M
<1>18. /\ \A m \in 1..N : w.freq[m] = t.freq[m]
       /\ w.freq[a] = 1 /\ w.freq[b] = 1
  BY <1>7, <1>16
<1>19. Sorted(w.freq, pos2, M)
  <2>1. SUFFICES ASSUME NEW m \in 1..M, NEW k \in 1..M, pos2[m] <= pos2[k]
                 PROVE  w.freq[m] <= w.freq[k]
    BY DEF Sorted
  <2>2. \A n \in 1..M : n = 1 \/ n = a \/ n = b \/ n \in S
    BY <1>3
  <2>3. w.freq[1] = 0 /\ \A n \in S : w.freq[n] = t.freq[n] /\ w.freq[n] >= 1 /\ w.freq[n] \in Nat
    BY <1>1, <1>2, <1>3, <1>5, <1>18
  <2>4. CASE m \in S /\ k \in S
    <3>1. pos[m] <= pos[k] /\ m \in 1..N /\ k \in 1..N
      BY <1>2, <1>5, <2>1, <2>4
    <3> QED BY <1>2, <1>18, <3>1
  <2>5. CASE m \in S /\ k \notin S
    BY <1>5, <2>1, <2>2, <2>5
  <2>6. CASE m \notin S
    <3>1. m = 1 \/ (w.freq[m] = 1 /\ k # 1)
      BY <1>5, <1>18, <2>1, <2>2, <2>6
    <3>2. k = 1 \/ (w.freq[k] >= 1 /\ w.freq[k] \in Nat)
      BY <1>18, <2>2, <2>3
    <3> QED BY <2>3, <3>1, <3>2
  <2> QED BY <2>4, <2>5, <2>6
<1>20. Least(w.freq, pos2, M)
  <2>1. \A n \in 2..M : n = a \/ n = b \/ n \in S
    BY <1>3 DEF M
  <2> QED BY <1>1, <1>3, <1>5, <1>18, <2>1 DEF Least, First, M
<1>21. (S \cup {a}) \cup {b} = 2..M
  BY <1>1, <1>3 DEF M
<1>22. Listed(w, M, pos2)
  BY <1>16, <1>17, <1>19, <1>20, <1>21 DEF Listed, InList
<1>23. /\ w \in TreeOf(M) /\ w.left = u.left /\ w.right = u.right /\ w.parent = u.parent
       /\ w.root = t.root /\ w.loc = t.loc /\ w.symbol = u.symbol
  BY <1>7, <1>16 DEF SameTree, SameBytes
<1>24. HasBoth(w, t, N, pos2, ch, a, b)
  BY <1>18, <1>22, <1>23 DEF HasMade, HasBoth, M
<1> QED BY <1>24 DEF w, v, pos2

(* The node for new bytes goes below a, which takes its place, with b.     *)
Sub(n, a) == IF n = 1 THEN a ELSE n

(* The form with the leaf b and the inner node a.                          *)
Planted(left, right, parent, root, symbol, left2, right2, parent2, root2, symbol2, ch, N, a, b) ==
  /\ b = N + 1 /\ a = N + 2
  /\ root2 = Sub(root, a)
  /\ parent2[1] = a /\ parent2[b] = a /\ parent2[a] = parent[1]
  /\ left2[a] = 1 /\ right2[a] = b /\ left2[b] = Nil /\ right2[b] = Nil
  /\ symbol2[a] = NodeNext /\ symbol2[b] = ch
  /\ \A m \in 2..N : parent2[m] = parent[m]
  /\ \A m \in 1..N : /\ left2[m] = Sub(left[m], a) /\ right2[m] = Sub(right[m], a)
                     /\ symbol2[m] = symbol[m]

(* It is a tree of N + 2 nodes.                                            *)
LEMMA HangsPlanted ==
  ASSUME NEW N \in Nat, NEW left, NEW right, NEW parent, NEW root, NEW symbol,
         Hangs(left, right, parent, root, symbol, N), N >= 1, symbol[1] # NodeNext,
         NEW left2, NEW right2, NEW parent2, NEW root2, NEW symbol2, NEW ch, ch # NodeNext,
         NEW a, NEW b,
         Planted(left, right, parent, root, symbol, left2, right2, parent2, root2, symbol2, ch, N, a, b)
  PROVE  Hangs(left2, right2, parent2, root2, symbol2, N + 2)
<1>1. root \in 1..N
  BY DEF Hangs
<1>2. \A n \in 1..N : /\ parent[n] \in 0..N /\ left[n] \in 0..N /\ right[n] \in 0..N
                      /\ parent[n] = 0 <=> n = root
                      /\ parent[n] # 0 => /\ symbol[parent[n]] = NodeNext
                                          /\ left[parent[n]] = n \/ right[parent[n]] = n
                      /\ symbol[n] = NodeNext =>
                           /\ left[n] # 0 /\ right[n] # 0 /\ left[n] # right[n]
                           /\ parent[left[n]] = n /\ parent[right[n]] = n
                      /\ symbol[n] # NodeNext => left[n] = 0 /\ right[n] = 0
  BY DEF Hangs, Nil
<1>3. /\ b = N + 1 /\ a = N + 2
      /\ root2 = Sub(root, a)
      /\ parent2[1] = a /\ parent2[b] = a /\ parent2[a] = parent[1]
      /\ left2[a] = 1 /\ right2[a] = b /\ left2[b] = 0 /\ right2[b] = 0
      /\ symbol2[a] = NodeNext /\ symbol2[b] = ch
      /\ \A m \in 2..N : parent2[m] = parent[m]
      /\ \A m \in 1..N : /\ left2[m] = Sub(left[m], a) /\ right2[m] = Sub(right[m], a)
                         /\ symbol2[m] = symbol[m]
  BY DEF Planted, Nil
<1> DEFINE M == N + 2
<1>4. /\ \A n \in 1..M : n = a \/ n = b \/ n = 1 \/ n \in 2..N
      /\ a \in 1..M /\ b \in 1..M /\ 1 \in 1..N /\ a # b /\ a \notin 1..N /\ b \notin 1..N /\ a # 0
      /\ \A n \in 0..N : Sub(n, a) \in 0..M /\ (Sub(n, a) = 0 <=> n = 0)
      /\ \A n \in 2..N : n \in 1..N /\ n \in 1..M /\ n # 1
  BY <1>3 DEF Sub
<1>5. root2 \in 1..M
  BY <1>1, <1>3, <1>4 DEF Sub
<1> HIDE DEF M
<1>6. SUFFICES ASSUME NEW n \in 1..M
               PROVE  /\ parent2[n] \in 0..M /\ left2[n] \in 0..M /\ right2[n] \in 0..M
                      /\ parent2[n] = 0 <=> n = root2
                      /\ parent2[n] # 0 => /\ symbol2[parent2[n]] = NodeNext
                                           /\ left2[parent2[n]] = n \/ right2[parent2[n]] = n
                      /\ symbol2[n] = NodeNext =>
                           /\ left2[n] # 0 /\ right2[n] # 0 /\ left2[n] # right2[n]
                           /\ parent2[left2[n]] = n /\ parent2[right2[n]] = n
                      /\ symbol2[n] # NodeNext => left2[n] = 0 /\ right2[n] = 0
  BY <1>5 DEF Hangs, Nil, M
<1>7. CASE n = 1
  <2>1. left2[n] = 0 /\ right2[n] = 0 /\ symbol2[n] # NodeNext
    BY <1>2, <1>3, <1>4, <1>7 DEF Sub
  <2>2. n # root2
    BY <1>1, <1>3, <1>4, <1>7 DEF Sub
  <2> QED BY <1>3, <1>4, <1>7, <2>1, <2>2 DEF M
<1>8. CASE n = b
  <2>1. n # root2
    BY <1>1, <1>3, <1>4, <1>8 DEF Sub
  <2> QED BY <1>3, <1>4, <1>8, <2>1 DEF M
<1>9. CASE n = a
  <2>1. parent[1] \in 0..N /\ (parent[1] = 0 <=> 1 = root)
    BY <1>2, <1>4
  <2>2. parent2[n] = 0 <=> n = root2
    BY <1>1, <1>3, <1>4, <1>9, <2>1 DEF Sub
  <2>3. ASSUME parent[1] # 0
        PROVE  symbol2[parent[1]] = NodeNext /\ (left2[parent[1]] = a \/ right2[parent[1]] = a)
    <3>1. parent[1] \in 1..N
      BY <2>1, <2>3
    <3>2. symbol[parent[1]] = NodeNext /\ (left[parent[1]] = 1 \/ right[parent[1]] = 1)
      BY <1>2, <1>4, <2>3
    <3> QED BY <1>3, <3>1, <3>2 DEF Sub
  <2>4. parent2[n] \in 0..M /\ left2[n] \in 0..M /\ right2[n] \in 0..M
    BY <1>3, <1>4, <1>9, <2>1 DEF M
  <2>5. left2[n] # 0 /\ right2[n] # 0 /\ left2[n] # right2[n]
        /\ parent2[left2[n]] = n /\ parent2[right2[n]] = n
    BY <1>3, <1>4, <1>9
  <2> QED BY <1>3, <1>9, <2>2, <2>3, <2>4, <2>5
<1>10. CASE n \in 2..N
  <2>1. n \in 1..N /\ parent2[n] = parent[n] /\ symbol2[n] = symbol[n]
        /\ left2[n] = Sub(left[n], a) /\ right2[n] = Sub(right[n], a)
    BY <1>3, <1>4, <1>10
  <2>2. parent[n] \in 0..N /\ left[n] \in 0..N /\ right[n] \in 0..N /\ (parent[n] = 0 <=> n = root)
    BY <1>2, <2>1
  <2>3. parent2[n] \in 0..M /\ left2[n] \in 0..M /\ right2[n] \in 0..M
    BY <1>4, <2>1, <2>2 DEF M
  <2>4. parent2[n] = 0 <=> n = root2
    BY <1>1, <1>3, <1>4, <1>10, <2>1, <2>2 DEF Sub
  <2>5. ASSUME parent[n] # 0
        PROVE  symbol2[parent[n]] = NodeNext /\ (left2[parent[n]] = n \/ right2[parent[n]] = n)
    <3>1. parent[n] \in 1..N /\ symbol[parent[n]] = NodeNext
          /\ (left[parent[n]] = n \/ right[parent[n]] = n)
      BY <1>2, <2>1, <2>2, <2>5
    <3>2. Sub(n, a) = n
      BY <1>4, <1>10 DEF Sub
    <3> QED BY <1>3, <3>1, <3>2
  <2>6. ASSUME symbol[n] = NodeNext
        PROVE  /\ left2[n] # 0 /\ right2[n] # 0 /\ left2[n] # right2[n]
               /\ parent2[left2[n]] = n /\ parent2[right2[n]] = n
    <3>1. /\ left[n] \in 1..N /\ right[n] \in 1..N /\ left[n] # right[n]
          /\ parent[left[n]] = n /\ parent[right[n]] = n
      BY <1>2, <2>1, <2>2, <2>6
    <3>2. left2[n] # 0 /\ right2[n] # 0 /\ left2[n] # right2[n]
      BY <1>4, <2>1, <3>1 DEF Sub
    <3>3. \A m \in 1..N : parent2[Sub(m, a)] = parent[m]
      BY <1>3, <1>4 DEF Sub
    <3> QED BY <2>1, <3>1, <3>2, <3>3
  <2>7. symbol[n] # NodeNext => left2[n] = 0 /\ right2[n] = 0
    BY <1>2, <1>4, <2>1, <2>2
  <2> QED BY <2>1, <2>3, <2>4, <2>5, <2>6, <2>7
<1> QED BY <1>4, <1>7, <1>8, <1>9, <1>10

(* The same tree with other parents and bytes.                             *)
Replant(t, p, l) == [t EXCEPT !.parent = p, !.loc = l]

(* A tree with these.                                                      *)
HasReplanted(u, N, t, p, l) ==
  /\ u \in TreeOf(N) /\ SameList(u, t) /\ SameCells(u, t) /\ u.freq = t.freq
  /\ u.left = t.left /\ u.right = t.right /\ u.root = t.root /\ u.symbol = t.symbol
  /\ u.parent = p /\ u.loc = l

(* Only they are others.                                                   *)
LEMMA Replanted ==
  ASSUME NEW N \in Nat, NEW t \in TreeOf(N), NEW p \in Pointers(N),
         NEW l \in [Byte \cup {NotReferenced} -> 0..N]
  PROVE  HasReplanted(Replant(t, p, l), N, t, p, l)
BY DEF Replant, HasReplanted, TreeOf, SameList, SameCells

(* The tree from which the weights are set right after a new byte.         *)
Rooted(t, ch) ==
  LET b    == Len(t.symbol) + 1
      a    == b + 1
      top  == t.parent[First]
      u    == Child(AfterFirst(AfterFirst(Made(t, ch, a, b), a), b), top, First, a)
  IN  [u EXCEPT !.parent[First] = a, !.loc[ch] = b]

(* NewByte is this tree, set right from the old parent of the first node.  *)
LEMMA NewByteRooted ==
  ASSUME NEW t, NEW ch
  PROVE  NewByte(t, ch) = Huff_IncrementFreq_r(Rooted(t, ch), t.parent[First])
BY DEF NewByte, Rooted, Made

(* In it a is the parent of the first node, and only a's parent is behind, *)
(* by the one that a weighs.                                               *)
HasRooted(w, t, N, pos, ch, a, b) ==
  /\ Growing(w, N + 2, Moved(pos, N, a, b), t.parent[First])
  /\ Bottom(w, N + 2, a, b)
  /\ \A m \in 2..N : w.parent[m] = t.parent[m]
  /\ w.parent[a] = t.parent[First]

(* A new byte makes such a tree.                                           *)
LEMMA RootedIs ==
  ASSUME HuffmanAssumption, NEW N \in Nat, NEW t, NEW pos, Growing(t, N, pos, Nil), NEW ch \in Byte,
         t.loc[ch] = Nil
  PROVE  HasRooted(Rooted(t, ch), t, N, pos, ch, N + 2, N + 1)
<1> DEFINE M == N + 2
           b == N + 1
           a == N + 2
           top == t.parent[1]
           pos2 == Moved(pos, N, a, b)
           u == Made(t, ch, a, b)
           x == AfterFirst(AfterFirst(u, a), b)
           c == Child(x, top, 1, a)
           p == Put(c.parent, 1, a)
           l == Put(c.loc, ch, b)
           w == Rooted(t, ch)
<1>1. t \in TreeOf(N) /\ Shape(t, N) /\ Listed(t, N, pos) /\ Sum(t, N, Nil)
  BY DEF Growing
<1>2. N >= 1 /\ t.freq[1] = 0
  BY <1>1 DEF Listed, Least, First
<1>3. /\ Hangs(t.left, t.right, t.parent, t.root, t.symbol, N)
      /\ Labelled(t.symbol, t.loc, N)
  BY <1>1 DEF Shape
<1>4. /\ NotReferenced # NodeNext /\ NotReferenced \notin Byte /\ NodeNext \notin Byte
      /\ ch # NodeNext /\ ch # NotReferenced
  BY SymbolsDiffer
<1>5. t.symbol[1] = NotReferenced
  <2>1. t.loc[NotReferenced] = 1
    BY <1>3 DEF Labelled, First
  <2> QED BY <1>3, <2>1 DEF Labelled, Nil
<1>6. Len(t.symbol) = N
  <2>1. t.symbol \in [1..N -> Nat]
    BY <1>1 DEF TreeOf
  <2> QED BY <2>1
<1>7. w = Replant(c, p, l)
  <2>1. Len(t.symbol) + 1 = b /\ b + 1 = a
    BY <1>6
  <2> DEFINE B == Len(t.symbol) + 1
  <2>2. w = LET e == Child(AfterFirst(AfterFirst(Made(t, ch, B + 1, B), B + 1), B), top, 1, B + 1)
            IN  [e EXCEPT !.parent[1] = B + 1, !.loc[ch] = B]
    BY DEF Rooted, First
  <2>3. B = b /\ B + 1 = a
    BY <2>1
  <2> HIDE DEF B, a, b, w
  <2>4. w = [c EXCEPT !.parent[1] = a, !.loc[ch] = b]
    BY <2>2, <2>3
  <2> HIDE DEF c
  <2>5. [c EXCEPT !.parent[1] = a, !.loc[ch] = b]
        = [c EXCEPT !.parent = [c.parent EXCEPT ![1] = a], !.loc = [c.loc EXCEPT ![ch] = b]]
    OBVIOUS
  <2> QED BY <2>4, <2>5 DEF Replant, Put
<1>8. HasMade(u, t, N, ch, a, b)
  BY <1>1, <1>2, MadeIs
<1>9. HasBoth(x, t, N, pos2, ch, a, b)
  <2> HIDE DEF u
  <2>1. a = N + 2 /\ b = N + 1
    OBVIOUS
  <2> HIDE DEF a, b
  <2> QED BY <1>1, <1>8, <2>1, BothAre
<1> HIDE DEF w, c, x, pos2, p, l
<1>10. /\ x \in TreeOf(M) /\ x.root = t.root /\ x.loc = t.loc
       /\ Listed(x, M, pos2)
       /\ \A m \in 1..N : /\ x.left[m] = t.left[m] /\ x.right[m] = t.right[m]
                          /\ x.parent[m] = t.parent[m] /\ x.symbol[m] = t.symbol[m]
                          /\ x.freq[m] = t.freq[m]
       /\ x.left[a] = 1 /\ x.right[a] = b /\ x.parent[a] = top
       /\ x.symbol[a] = NodeNext /\ x.freq[a] = 1
       /\ x.left[b] = 0 /\ x.right[b] = 0 /\ x.parent[b] = a
       /\ x.symbol[b] = ch /\ x.freq[b] = 1
  BY <1>9 DEF HasBoth, Nil, First
<1>11. /\ M \in Nat /\ 1 \in 1..N /\ 1 \in 1..M /\ a \in 1..M /\ b \in 1..M /\ a # b
       /\ a \notin 1..N /\ b \notin 1..N
       /\ \A m \in 1..N : m \in 1..M
       /\ \A m \in 1..M : m = a \/ m = b \/ m \in 1..N
  BY <1>2
<1>12. top \in 0..N /\ top \in 0..M /\ (top = 0 <=> 1 = t.root)
  <2>1. top \in 0..N /\ (top = 0 <=> 1 = t.root)
    BY <1>3, <1>11 DEF Hangs, Nil
  <2> QED BY <2>1
<1> HIDE DEF M, a, b, top
<1>13. HasChild(c, M, x, top, 1, a)
  BY <1>10, <1>11, <1>12, ChildIs DEF c
<1>14. /\ c \in TreeOf(M) /\ OnlyShaped(c, x) /\ c.parent = x.parent
       /\ c.root = IF top = 0 THEN a ELSE x.root
       /\ \A m \in 1..M : /\ c.left[m] = IF m = top /\ x.left[top] = 1 THEN a ELSE x.left[m]
                          /\ c.right[m] = IF m = top /\ x.left[top] # 1 THEN a ELSE x.right[m]
  BY <1>13 DEF HasChild, Nil
<1>15. c.symbol = x.symbol /\ c.loc = t.loc /\ c.freq = x.freq /\ SameList(c, x) /\ SameCells(c, x)
  BY <1>10, <1>14 DEF OnlyShaped, SameBytes
<1>16. p \in Pointers(M) /\ \A m \in 1..M : p[m] = IF m = 1 THEN a ELSE x.parent[m]
  <2>1. c.parent \in Pointers(M)
    BY <1>14 DEF TreeOf
  <2> QED BY <1>11, <1>14, <2>1 DEF p, Put, Pointers
<1>17. /\ l \in [Byte \cup {NotReferenced} -> 0..M]
       /\ \A d \in Byte \cup {NotReferenced} : l[d] = IF d = ch THEN b ELSE t.loc[d]
  <2>1. c.loc \in [Byte \cup {NotReferenced} -> 0..M]
    BY <1>14 DEF TreeOf
  <2>2. b \in 0..M
    BY <1>11
  <2> QED BY <1>11, <1>15, <2>1, <2>2 DEF l, Put
<1>18. HasReplanted(w, M, c, p, l)
  BY <1>7, <1>11, <1>14, <1>16, <1>17, Replanted
<1>19. /\ w \in TreeOf(M) /\ SameList(w, x) /\ SameCells(w, x) /\ w.freq = x.freq
       /\ w.left = c.left /\ w.right = c.right /\ w.root = c.root /\ w.symbol = x.symbol
       /\ w.parent = p /\ w.loc = l
  BY <1>15, <1>18 DEF HasReplanted, SameList, SameCells
<1>20. Listed(w, M, pos2)
  BY <1>10, <1>19 DEF Listed, InList, InCells, SameList, SameCells
<1>21. \A m \in 1..N : /\ t.left[m] \in 0..N /\ t.right[m] \in 0..N
                       /\ t.left[m] = 1 => m = top
                       /\ t.right[m] = 1 => m = top
                       /\ m = top => t.left[m] # t.right[m] /\ (t.left[m] = 1 \/ t.right[m] = 1)
  BY <1>3, <1>11, <1>12 DEF Hangs, Nil, top
<1>22. \A m \in 1..N : w.left[m] = Sub(t.left[m], a) /\ w.right[m] = Sub(t.right[m], a)
  <2>1. SUFFICES ASSUME NEW m \in 1..N
                 PROVE  w.left[m] = Sub(t.left[m], a) /\ w.right[m] = Sub(t.right[m], a)
    OBVIOUS
  <2>2. /\ w.left[m] = IF m = top /\ x.left[top] = 1 THEN a ELSE x.left[m]
        /\ w.right[m] = IF m = top /\ x.left[top] # 1 THEN a ELSE x.right[m]
    BY <1>11, <1>14, <1>19
  <2>3. x.left[m] = t.left[m] /\ x.right[m] = t.right[m]
    BY <1>10
  <2>4. /\ w.left[m] = IF m = top /\ t.left[m] = 1 THEN a ELSE t.left[m]
        /\ w.right[m] = IF m = top /\ t.left[m] # 1 THEN a ELSE t.right[m]
    BY <2>2, <2>3
  <2>5. /\ t.left[m] = 1 => m = top
        /\ t.right[m] = 1 => m = top
        /\ m = top => t.left[m] # t.right[m] /\ (t.left[m] = 1 \/ t.right[m] = 1)
    BY <1>21
  <2> QED BY <2>4, <2>5 DEF Sub
<1>23. top # a /\ top # b
  BY <1>11, <1>12 DEF a, b
<1>24. w.left[a] = 1 /\ w.right[a] = b /\ w.left[b] = 0 /\ w.right[b] = 0
  BY <1>10, <1>11, <1>14, <1>19, <1>23
<1>25. /\ w.parent[1] = a /\ w.parent[b] = a /\ w.parent[a] = top
       /\ \A m \in 2..N : w.parent[m] = t.parent[m]
  <2>1. a # 1 /\ b # 1
    BY <1>11
  <2>2. \A m \in 2..N : m \in 1..N /\ m # 1
    OBVIOUS
  <2> QED BY <1>10, <1>11, <1>16, <1>19, <2>1, <2>2
<1>26. w.root = Sub(t.root, a)
  BY <1>10, <1>12, <1>14, <1>19 DEF Sub
<1>27. \A m \in 1..N : w.symbol[m] = t.symbol[m] /\ w.freq[m] = t.freq[m]
  BY <1>10, <1>19
<1>28. w.symbol[a] = NodeNext /\ w.symbol[b] = ch /\ w.freq[a] = 1 /\ w.freq[b] = 1
  BY <1>10, <1>19
<1>29. Hangs(w.left, w.right, w.parent, w.root, w.symbol, M)
  <2>1. Planted(t.left, t.right, t.parent, t.root, t.symbol,
                w.left, w.right, w.parent, w.root, w.symbol, ch, N, a, b)
    BY <1>22, <1>24, <1>25, <1>26, <1>27, <1>28 DEF Planted, Nil, a, b, top
  <2> QED BY <1>2, <1>3, <1>4, <1>5, <2>1, HangsPlanted DEF M
<1>30. Labelled(w.symbol, w.loc, M)
  <2>1. /\ \A n \in 1..N : t.symbol[n] # NodeNext =>
             t.symbol[n] \in Byte \cup {NotReferenced} /\ t.loc[t.symbol[n]] = n
        /\ \A d \in Byte \cup {NotReferenced} : t.loc[d] # 0 => t.symbol[t.loc[d]] = d
        /\ t.loc[NotReferenced] = 1
    BY <1>3 DEF Labelled, Nil, First
  <2>2. \A d \in Byte \cup {NotReferenced} : t.loc[d] \in 0..N
    BY <1>1 DEF TreeOf
  <2>3. ASSUME NEW n \in 1..M, w.symbol[n] # NodeNext
        PROVE  w.symbol[n] \in Byte \cup {NotReferenced} /\ w.loc[w.symbol[n]] = n
    <3>1. CASE n = a
      BY <1>28, <2>3, <3>1
    <3>2. CASE n = b
      BY <1>17, <1>19, <1>28, <3>2
    <3>3. CASE n \in 1..N
      <4>1. w.symbol[n] = t.symbol[n] /\ t.symbol[n] \in Byte \cup {NotReferenced}
            /\ t.loc[t.symbol[n]] = n
        BY <1>27, <2>1, <2>3, <3>3
      <4>2. t.symbol[n] # ch
        <5>1. n # 0
          BY <3>3
        <5> QED BY <4>1, <5>1 DEF Nil
      <4> QED BY <1>17, <1>19, <4>1, <4>2
    <3> QED BY <1>11, <3>1, <3>2, <3>3
  <2>4. ASSUME NEW d \in Byte \cup {NotReferenced}, w.loc[d] # 0 PROVE w.symbol[w.loc[d]] = d
    <3>1. CASE d = ch
      BY <1>17, <1>19, <1>28, <3>1
    <3>2. CASE d # ch
      <4>1. w.loc[d] = t.loc[d] /\ t.loc[d] \in 1..N /\ t.symbol[t.loc[d]] = d
        BY <1>17, <1>19, <2>1, <2>2, <2>4, <3>2
      <4> QED BY <1>27, <4>1
    <3> QED BY <3>1, <3>2
  <2>5. w.loc[NotReferenced] = 1
    BY <1>4, <1>17, <1>19, <2>1
  <2> QED BY <2>3, <2>4, <2>5 DEF Labelled, Nil, First
<1>31. Sum(w, M, top)
  <2>1. SUFFICES ASSUME NEW q \in 1..M, w.symbol[q] = NodeNext
                 PROVE  w.freq[w.left[q]] + w.freq[w.right[q]] = w.freq[q] + (IF q = top THEN 1 ELSE 0)
    BY DEF Sum
  <2>2. CASE q = a
    <3>1. w.freq[1] = 0
      BY <1>2, <1>11, <1>27
    <3> QED BY <1>23, <1>24, <1>28, <2>2, <3>1
  <2>3. CASE q = b
    BY <1>4, <1>28, <2>1, <2>3
  <2>4. CASE q \in 1..N
    <3>1. t.symbol[q] = NodeNext /\ w.freq[q] = t.freq[q]
      BY <1>27, <2>1, <2>4
    <3>2. t.left[q] \in 1..N /\ t.right[q] \in 1..N
      BY <1>3, <2>4, <3>1 DEF Hangs, Nil
    <3>3. t.freq[t.left[q]] + t.freq[t.right[q]] = t.freq[q]
      <4>1. t.freq[t.left[q]] + t.freq[t.right[q]] = t.freq[q] + (IF q = Nil THEN 1 ELSE 0)
        BY <1>1, <2>4, <3>1 DEF Sum
      <4>2. q # Nil
        BY <2>4 DEF Nil
      <4>3. t.freq[q] \in Nat
        BY <1>1, <2>4 DEF TreeOf
      <4> QED BY <4>1, <4>2, <4>3
    <3>4. \A m \in 1..N : w.freq[Sub(m, a)] = t.freq[m] + (IF m = 1 THEN 1 ELSE 0)
      <4>1. \A m \in 1..N : t.freq[m] \in Nat
        BY <1>1 DEF TreeOf
      <4> QED BY <1>2, <1>27, <1>28, <4>1 DEF Sub
    <3>5. /\ w.freq[w.left[q]] = t.freq[t.left[q]] + (IF t.left[q] = 1 THEN 1 ELSE 0)
          /\ w.freq[w.right[q]] = t.freq[t.right[q]] + (IF t.right[q] = 1 THEN 1 ELSE 0)
      BY <1>22, <2>4, <3>2, <3>4
    <3>6. t.freq[t.left[q]] \in Nat /\ t.freq[t.right[q]] \in Nat /\ t.freq[q] \in Nat
      BY <1>1, <2>4, <3>2 DEF TreeOf
    <3>7. /\ t.left[q] = 1 => q = top
          /\ t.right[q] = 1 => q = top
          /\ q = top => t.left[q] # t.right[q] /\ (t.left[q] = 1 \/ t.right[q] = 1)
      BY <1>21, <2>4
    <3> QED BY <3>1, <3>3, <3>5, <3>6, <3>7
  <2> QED BY <1>11, <2>2, <2>3, <2>4
<1>32. top \in {Nil} \cup 2..M
  <2>1. top # 1
    <3>1. SUFFICES ASSUME top = 1 PROVE FALSE
      OBVIOUS
    <3>2. t.symbol[1] = NodeNext
      BY <1>3, <1>11, <3>1 DEF Hangs, Nil, top
    <3> QED BY <1>4, <1>5, <3>2
  <2>2. top \in 0..M
    BY <1>12
  <2> QED BY <1>11, <2>1, <2>2 DEF Nil
<1>33. Shape(w, M)
  BY <1>29, <1>30 DEF Shape
<1>34. Growing(w, M, pos2, top)
  BY <1>19, <1>20, <1>31, <1>32, <1>33 DEF Growing
<1>35. Bottom(w, M, a, b)
  <2>1. a \in 2..M /\ b \in 2..M
    BY <1>2 DEF a, b, M
  <2> QED BY <1>11, <1>25, <2>1 DEF Bottom, First
<1>36. HasRooted(w, t, N, pos, ch, a, b)
  BY <1>25, <1>34, <1>35 DEF HasRooted, M, top, First, pos2
<1> QED BY <1>36 DEF w, a, b

-----------------------------------------------------------------------------
(* The tree of no bytes.                                                   *)
LEMMA PreparedStable ==
  ASSUME HuffmanAssumption
  PROVE  Stable(Huff_PrepareTree, 1)
<1> DEFINE t == Huff_PrepareTree
           pos == [n \in 1..1 |-> 1]
<1>1. /\ NotReferenced # NodeNext /\ NotReferenced \notin Byte /\ NotReferenced \in Nat
  BY SymbolsDiffer
<1>2. /\ t.left = <<0>> /\ t.right = <<0>> /\ t.parent = <<0>> /\ t.next = <<0>> /\ t.prev = <<0>>
      /\ t.head = <<0>> /\ t.freq = <<0>> /\ t.symbol = <<NotReferenced>>
      /\ t.cells = <<>> /\ t.free = 0 /\ t.root = 1
      /\ t.loc = [s \in Byte \cup {NotReferenced} |-> IF s = NotReferenced THEN 1 ELSE 0]
  BY DEF Huff_PrepareTree, Nil, First
<1>3. t \in TreeOf(1)
  <2> DEFINE l == t.loc
             z == <<0>>
             e == <<NotReferenced>>
             c == <<>>
  <2>1. t = [left |-> z, right |-> z, parent |-> z, next |-> z, prev |-> z,
             head |-> z, freq |-> z, symbol |-> e,
             cells |-> c, free |-> 0, root |-> 1, loc |-> l]
    BY DEF Huff_PrepareTree, Nil, First
  <2>2. z \in Pointers(1) /\ z \in [1..1 -> Nat] /\ e \in [1..1 -> Nat]
    BY <1>1 DEF Pointers
  <2>3. c \in Seq(Nat) /\ 0 \in Nat /\ 1 \in 0..1
    OBVIOUS
  <2>4. l \in [Byte \cup {NotReferenced} -> 0..1]
    BY <1>2
  <2> HIDE DEF t, l, z, e, c
  <2> QED BY <2>1, <2>2, <2>3, <2>4 DEF TreeOf
<1> HIDE DEF t
<1>4. \A n \in 1..1 : /\ n = 1 /\ t.left[n] = 0 /\ t.right[n] = 0 /\ t.parent[n] = 0
                      /\ t.next[n] = 0 /\ t.prev[n] = 0 /\ t.freq[n] = 0
                      /\ t.symbol[n] = NotReferenced /\ pos[n] = 1
  BY <1>2
<1> HIDE DEF pos
<1>5. Hangs(t.left, t.right, t.parent, t.root, t.symbol, 1)
  BY <1>1, <1>2, <1>4 DEF Hangs, Nil
<1>6. Labelled(t.symbol, t.loc, 1)
  <2>1. \A c \in Byte \cup {NotReferenced} : t.loc[c] = IF c = NotReferenced THEN 1 ELSE 0
    BY <1>2
  <2> QED BY <1>4, <2>1 DEF Labelled, Nil, First
<1>7. InList(t, 1, pos)
  BY <1>4 DEF InList, Order, Nil
<1>8. Sorted(t.freq, pos, 1) /\ Least(t.freq, pos, 1)
  BY <1>4 DEF Sorted, Least, First
<1>9. InCells(t, 2..1, pos)
  <2>1. Holds(t.head, t.cells, t.freq, 2..1, pos)
    BY DEF Holds
  <2>2. Chain(t.head, t.cells, t.free, 2..1, <<>>, 0)
    <3>1. Len(t.cells) = 0
      BY <1>2
    <3> QED BY <1>2, <3>1 DEF Chain, Nil
  <2> QED BY <2>1, <2>2 DEF InCells
<1>10. Sum(t, 1, Nil)
  BY <1>1, <1>4 DEF Sum
<1>11. Growing(t, 1, pos, Nil)
  BY <1>3, <1>5, <1>6, <1>7, <1>8, <1>9, <1>10 DEF Growing, Shape, Listed
<1> QED BY <1>11 DEF Stable, t

(* A byte that came before: from its leaf.                                 *)
LEMMA LeafClimbs ==
  ASSUME HuffmanAssumption, NEW N \in Nat, NEW t, Stable(t, N), NEW ch \in Byte, t.loc[ch] # Nil
  PROVE  \E pos, a, s : Climbing(t, N, pos, t.loc[ch], 0, a, s, <<>>)
<1> DEFINE n == t.loc[ch]
<1>1. PICK pos : /\ Growing(t, N, pos, Nil)
                 /\ N = 1 \/ \E a, s : Bottom(t, N, a, s) /\ pos[s] = 2 /\ pos[a] = 3
  BY DEF Stable
<1>2. t \in TreeOf(N) /\ Shape(t, N) /\ Listed(t, N, pos) /\ Sum(t, N, Nil)
  BY <1>1 DEF Growing
<1>3. /\ Hangs(t.left, t.right, t.parent, t.root, t.symbol, N)
      /\ Labelled(t.symbol, t.loc, N)
  BY <1>2 DEF Shape
<1>4. /\ ch # NodeNext /\ ch # NotReferenced /\ NotReferenced # NodeNext
  BY SymbolsDiffer
<1>5. n \in 0..N /\ t.symbol[n] = ch /\ t.loc[NotReferenced] = 1
  BY <1>2, <1>3 DEF TreeOf, Labelled, First
<1>6. 1 \in 1..N /\ t.symbol[1] = NotReferenced
  <2>1. 1 \in 1..N
    BY <1>2 DEF Listed, Least
  <2> QED BY <1>3, <1>5, <2>1 DEF Labelled, Nil
<1>7. n \in 2..N /\ n \in 1..N /\ n # Nil
  <2>1. n # 1
    BY <1>4, <1>5, <1>6
  <2>2. n # 0
    BY DEF Nil
  <2> QED BY <1>5, <2>1, <2>2 DEF Nil
<1> HIDE DEF n
<1>8. N # 1
  BY <1>7
<1>9. PICK a, s : Bottom(t, N, a, s) /\ pos[s] = 2 /\ pos[a] = 3
  BY <1>1, <1>8
<1>10. n # a
  <2>1. a \in 2..N /\ t.parent[1] = a
    BY <1>9 DEF Bottom, First
  <2>2. t.symbol[a] = NodeNext
    BY <1>3, <1>6, <2>1 DEF Hangs, Nil
  <2> QED BY <1>4, <1>5, <2>2
<1>11. ChildrenBefore(t, N, pos, n)
  <2>1. \A m \in 1..N : t.parent[m] # n
    BY <1>3, <1>4, <1>5, <1>7 DEF Hangs
  <2> QED BY <2>1 DEF ChildrenBefore
<1>12. pos[n] >= 2
  <2>1. pos[n] \in 1..N /\ (pos[n] = pos[1] => n = 1) /\ pos[1] = 1
    BY <1>1, <1>6, <1>7, GrowingPlaced DEF Placed
  <2> QED BY <1>7, <2>1
<1>13. Sum(t, N, n)
  <2>1. \A q \in 1..N : q # Nil
    BY DEF Nil
  <2> QED BY <1>2, <1>4, <1>5, <2>1 DEF Sum
<1>14. Growing(t, N, pos, n)
  BY <1>2, <1>7, <1>13 DEF Growing
<1>15. Plain(t, N, pos, n, 0, a, s)
  BY <1>9, <1>10, <1>11, <1>12 DEF Plain
<1>16. <<>> \in Seq(2..N)
  OBVIOUS
<1> QED BY <1>9, <1>14, <1>15, <1>16 DEF Climbing, n

(* A new byte: from the parent of the two nodes it brought.                *)
LEMMA RootedClimbs ==
  ASSUME HuffmanAssumption, NEW N \in Nat, NEW t, Stable(t, N), NEW ch \in Byte, t.loc[ch] = Nil
  PROVE  \E pos, a, s : Climbing(Rooted(t, ch), N + 2, pos, t.parent[First], 0, a, s, <<>>)
<1>1. PICK pos : /\ Growing(t, N, pos, Nil)
                 /\ N = 1 \/ \E a, s : Bottom(t, N, a, s) /\ pos[s] = 2 /\ pos[a] = 3
  BY DEF Stable
<1> DEFINE M == N + 2
           a == N + 2
           b == N + 1
           pos2 == Moved(pos, N, a, b)
           w == Rooted(t, ch)
           top == t.parent[First]
<1>2. HasRooted(w, t, N, pos, ch, a, b)
  BY <1>1, RootedIs
<1> HIDE DEF w
<1>3. /\ Growing(w, M, pos2, top) /\ Bottom(w, M, a, b)
      /\ \A m \in 2..N : w.parent[m] = t.parent[m]
      /\ w.parent[a] = top
  BY <1>2 DEF HasRooted
<1>4. /\ \A m \in 1..N : pos[m] \in 1..N /\ t.parent[m] \in 0..N
      /\ \A m, n \in 1..N : pos[m] = pos[n] => m = n
      /\ 1 \in 1..N /\ pos[1] = 1
  BY <1>1, GrowingPlaced DEF Placed
<1>5. \A m \in 1..M : pos2[m] = IF m = 1 THEN 1 ELSE IF m = b THEN 2
                                ELSE IF m = a THEN 3 ELSE pos[m] + 2
  BY DEF Moved
<1> HIDE DEF pos2
<1>6. pos2[b] = 2 /\ pos2[a] = 3
  BY <1>4, <1>5
<1>7. top \in 0..N /\ top # 1
  <2>1. top \in 0..N
    BY <1>4 DEF First
  <2>2. top \in {Nil} \cup 2..M
    BY <1>3 DEF Growing
  <2> QED BY <2>1, <2>2 DEF Nil
<1>8. ASSUME top # Nil PROVE pos2[top] >= 2 /\ ChildrenBefore(w, M, pos2, top)
  <2>1. top \in 2..N /\ top \in 1..N
    BY <1>7, <1>8 DEF Nil
  <2>2. N # 1
    BY <2>1
  <2>3. PICK a0, s0 : Bottom(t, N, a0, s0) /\ pos[s0] = 2 /\ pos[a0] = 3
    BY <1>1, <2>2
  <2>4. top = a0 /\ s0 \in 2..N /\ pos[top] = 3 /\ pos[s0] = 2
    BY <2>3 DEF Bottom
  <2>5. \A n \in 1..N : t.parent[n] = top => n = 1 \/ n = s0
    BY <1>1, <2>3, <2>4, BottomOnly
  <2> HIDE DEF top
  <2>6. pos2[top] = 5
    BY <1>5, <2>1, <2>4
  <2>7. ASSUME NEW n \in 1..M, w.parent[n] = top PROVE pos2[n] < pos2[top]
    <3>1. w.parent[1] = a /\ w.parent[b] = a /\ a # top
      BY <1>3, <2>1 DEF Bottom, First
    <3>2. n # 1 /\ n # b
      BY <2>7, <3>1
    <3>3. CASE n = a
      BY <1>6, <2>6, <3>3
    <3>4. CASE n \in 2..N
      <4>1. n = s0
        BY <1>3, <2>5, <2>7, <3>2, <3>4
      <4>2. pos2[n] = 4
        BY <1>5, <2>4, <3>2, <4>1
      <4> QED BY <2>6, <4>2
    <3> QED BY <3>2, <3>3, <3>4
  <2> QED BY <2>6, <2>7 DEF ChildrenBefore
<1>9. top # a /\ top \in {Nil} \cup 2..M
  BY <1>3, <1>7 DEF Growing
<1>10. Plain(w, M, pos2, top, 0, a, b)
  BY <1>6, <1>8, <1>9 DEF Plain
<1>11. <<>> \in Seq(2..M)
  OBVIOUS
<1>12. Climbing(w, M, pos2, top, 0, a, b, <<>>)
  BY <1>3, <1>10, <1>11 DEF Climbing
<1> QED BY <1>12 DEF w

(* A tree keeps its form with every byte, old or new.                      *)
LEMMA AddedStable ==
  ASSUME HuffmanAssumption, NEW N \in Nat, NEW t, Stable(t, N), NEW ch \in Byte
  PROVE  \E M \in Nat : Stable(Huff_AddReference(t, ch), M)
<1>1. CASE t.loc[ch] # Nil
  <2>1. PICK pos, a, s : Climbing(t, N, pos, t.loc[ch], 0, a, s, <<>>)
    BY <1>1, LeafClimbs
  <2>2. Stable(Huff_IncrementFreq_r(t, t.loc[ch]), N)
    BY <2>1, IncrementIs
  <2> QED BY <1>1, <2>2 DEF Huff_AddReference
<1>2. CASE t.loc[ch] = Nil
  <2> DEFINE w == Rooted(t, ch)
             top == t.parent[First]
             M == N + 2
  <2>1. M \in Nat
    OBVIOUS
  <2>2. PICK pos, a, s : Climbing(w, M, pos, top, 0, a, s, <<>>)
    BY <1>2, RootedClimbs
  <2> HIDE DEF w, top, M
  <2>3. Stable(Huff_IncrementFreq_r(w, top), M)
    BY <2>1, <2>2, IncrementIs
  <2>4. Huff_AddReference(t, ch) = Huff_IncrementFreq_r(w, top)
    BY <1>2, NewByteRooted DEF Huff_AddReference, w, top
  <2> QED BY <2>1, <2>3, <2>4
<1> QED BY <1>1, <1>2

-----------------------------------------------------------------------------
(* w goes from n along the pointers f.                                     *)
Follows(w, f, n, size, S) ==
  /\ w \in [1..(size + 1) -> S] /\ w[1] = n
  /\ \A i \in 1..size : w[i + 1] = IF w[i] = 0 THEN 0 ELSE f[w[i]]

(* Pointers are followed one by one, and do not leave a set S whose        *)
(* pointers stay in it.                                                    *)
LEMMA AlongIs ==
  ASSUME NEW f, NEW S, NEW n \in S, NEW size \in Nat,
         0 \in S, \A m \in S : m # 0 => f[m] \in S
  PROVE  Follows(Along(f, n, size), f, n, size, S)
<1> DEFINE To(m) == IF m = 0 THEN 0 ELSE f[m]
           Step == [p \in S \X (1..size) |-> To(p[1])]
           IsWalk(g) == g = [k \in 0..size |-> IF k = 0 THEN n ELSE To(g[k - 1])]
           walk == CHOOSE g : IsWalk(g)
           w == Along(f, n, size)
<1>1. w = [i \in 1..(size + 1) |-> walk[i - 1]]
  BY DEF Along, Nil
<1>2. \A m \in S : To(m) \in S
  OBVIOUS
<1>3. Step \in [S \X (1..size) -> S]
  <2> HIDE DEF To
  <2> QED BY <1>2
<1>4. n \in S /\ size \in Nat
  OBVIOUS
<1> HIDE DEF Step, To
<1>5. PICK g : Iterates(g, S, n, size, Step)
  BY <1>3, <1>4, RecursionTo
<1>6. g \in [0..size -> S] /\ g[0] = n /\ \A k \in 1..size : g[k] = Step[<<g[k - 1], k>>]
  BY <1>5 DEF Iterates
<1>7. ASSUME NEW k \in 1..size PROVE g[k] = To(g[k - 1]) /\ g[k - 1] \in S
  <2>1. g[k - 1] \in S
    BY <1>6
  <2> QED BY <1>6, <2>1 DEF Step
<1>8. IsWalk(g)
  <2>1. ASSUME NEW k \in 0..size PROVE g[k] = IF k = 0 THEN n ELSE To(g[k - 1])
    <3>1. k # 0 => k \in 1..size
      OBVIOUS
    <3> QED BY <1>6, <1>7, <3>1
  <2> QED BY <1>6, <2>1, Zenon
<1>9. IsWalk(walk)
  <2> HIDE DEF IsWalk
  <2> QED BY <1>8
<1> HIDE DEF walk
<1>10. \A k \in 0..size : walk[k] = IF k = 0 THEN n ELSE To(walk[k - 1])
  BY <1>9
<1> DEFINE T == {k \in 0..size : walk[k] \in S}
<1>11. \A k \in 0..size : k \in T
  <2>1. 0 \in T
    BY <1>4, <1>10
  <2>2. \A k \in 1..size : k - 1 \in T => k \in T
    BY <1>2, <1>10
  <2> HIDE DEF T
  <2> QED BY <2>1, <2>2, InductionTo
<1>12. w \in [1..(size + 1) -> S]
  BY <1>1, <1>11
<1>13. w[1] = n
  BY <1>1, <1>10
<1> HIDE DEF w
<1>14. ASSUME NEW i \in 1..size PROVE w[i + 1] = To(w[i])
  <2>1. i \in 0..size /\ i # 0 /\ i \in 1..(size + 1) /\ i + 1 \in 1..(size + 1)
        /\ (i + 1) - 1 = i
    OBVIOUS
  <2>2. w[i + 1] = walk[i] /\ w[i] = walk[i - 1]
    BY <1>1, <2>1
  <2> QED BY <1>10, <2>1, <2>2
<1> QED BY <1>12, <1>13, <1>14 DEF Follows, To, w

(* Parents are further in the list.                                        *)
Rising(t, N) ==
  /\ t \in TreeOf(N) /\ Shape(t, N)
  /\ \E pos : \A m \in 1..N : /\ pos[m] \in 1..N
                              /\ t.parent[m] # 0 => pos[m] < pos[t.parent[m]]

(* So they are between two bytes, when every node is before its parent.    *)
LEMMA StableRises ==
  ASSUME HuffmanAssumption, NEW N \in Nat, NEW t, Stable(t, N)
  PROVE  Rising(t, N)
<1>1. PICK pos : /\ Growing(t, N, pos, Nil)
                 /\ N = 1 \/ \E a, s : Bottom(t, N, a, s) /\ pos[s] = 2 /\ pos[a] = 3
  BY DEF Stable
<1>2. t \in TreeOf(N) /\ Shape(t, N)
  BY <1>1 DEF Growing
<1>3. \A m \in 1..N : pos[m] \in 1..N
  BY <1>1, GrowingPlaced DEF Placed
<1>4. CASE N = 1
  <2>1. \A m \in 1..N : t.parent[m] = 0
    BY <1>2, <1>4 DEF Shape, Hangs, Nil
  <2> QED BY <1>2, <1>3, <2>1 DEF Rising
<1>5. CASE N # 1
  <2>1. PICK a, s : Bottom(t, N, a, s) /\ pos[s] = 2 /\ pos[a] = 3
    BY <1>1, <1>5
  <2>2. \A m \in 1..N : t.parent[m] # 0 /\ t.parent[m] # a => pos[m] < pos[t.parent[m]]
    BY <1>1, <2>1, BeforeParent DEF Nil
  <2>3. \A m \in 1..N : t.parent[m] = a => m = 1 \/ m = s
    BY <1>1, <2>1, BottomOnly
  <2>4. pos[1] = 1
    BY <1>1, GrowingPlaced DEF Placed
  <2>5. ASSUME NEW m \in 1..N, t.parent[m] = a PROVE pos[m] < pos[t.parent[m]]
    BY <2>1, <2>3, <2>4, <2>5
  <2> QED BY <1>2, <1>3, <2>2, <2>5 DEF Rising
<1> QED BY <1>4, <1>5

(* The root is d steps above n.                                            *)
Reaches(t, N, n, d) ==
  LET up == Along(t.parent, n, N)
  IN  d \in 0..N /\ up[d + 1] = t.root

(* The root is above every node.                                           *)
LEMMA RootReached ==
  ASSUME HuffmanAssumption, NEW N \in Nat, NEW t, Stable(t, N), NEW n \in 1..N
  PROVE  \E d : Reaches(t, N, n, d)
<1>1. SUFFICES ASSUME \A d \in 0..N : Along(t.parent, n, N)[d + 1] # t.root PROVE FALSE
  BY DEF Reaches
<1> DEFINE up == Along(t.parent, n, N)
<1>2. Rising(t, N)
  BY StableRises
<1>3. PICK pos : \A m \in 1..N : /\ pos[m] \in 1..N
                                 /\ t.parent[m] # 0 => pos[m] < pos[t.parent[m]]
  BY <1>2 DEF Rising
<1>4. /\ t.parent \in Pointers(N) /\ t.root \in 1..N
      /\ \A m \in 1..N : t.parent[m] \in 0..N /\ (t.parent[m] = 0 <=> m = t.root)
  BY <1>2 DEF Rising, TreeOf, Shape, Hangs, Nil
<1>5. Follows(up, t.parent, n, N, 0..N)
  <2> DEFINE S == 0..N
             f == t.parent
  <2>1. n \in S /\ 0 \in S /\ N \in Nat /\ \A m \in S : m # 0 => f[m] \in S
    BY <1>4 DEF Pointers
  <2> HIDE DEF S, f
  <2>2. Follows(Along(f, n, N), f, n, N, S)
    BY <2>1, AlongIs
  <2> QED BY <2>2 DEF S, f
<1> HIDE DEF up
<1>6. /\ \A i \in 1..(N + 1) : up[i] \in 0..N
      /\ up[1] = n
      /\ \A i \in 1..N : up[i + 1] = IF up[i] = 0 THEN 0 ELSE t.parent[up[i]]
  BY <1>5 DEF Follows
<1> DEFINE T == {k \in 0..N : up[k + 1] # 0 /\ pos[up[k + 1]] >= k + 1}
<1>7. 0 \in T
  BY <1>3, <1>6
<1>8. ASSUME NEW k \in 1..N, k - 1 \in T PROVE k \in T
  <2> DEFINE m == up[k]
             p == up[k + 1]
  <2>1. m # 0 /\ pos[m] >= k /\ m \in 0..N
    BY <1>6, <1>8
  <2>2. p = t.parent[m]
    BY <1>6, <2>1
  <2>3. m # t.root
    <3>1. k - 1 \in 0..N /\ (k - 1) + 1 = k
      OBVIOUS
    <3> QED BY <1>1, <3>1 DEF up
  <2> HIDE DEF m, p
  <2>4. m \in 1..N /\ p # 0 /\ p \in 1..N
    BY <1>4, <2>1, <2>2, <2>3
  <2>5. pos[m] < pos[p] /\ pos[m] \in Nat /\ pos[p] \in Nat
    BY <1>3, <2>2, <2>4
  <2>6. p # 0 /\ pos[p] >= k + 1
    BY <2>1, <2>4, <2>5
  <2> QED BY <2>6 DEF p
<1>9. N \in T
  <2>1. \A k \in 0..N : k \in T
    <3> HIDE DEF T
    <3> QED BY <1>7, <1>8, InductionTo
  <2> QED BY <2>1
<1>10. up[N + 1] \in 1..N /\ pos[up[N + 1]] >= N + 1
  BY <1>6, <1>9
<1> QED BY <1>3, <1>10

(* The way from the root down to n by the nodes v, with the bits path.     *)
Way(t, N, n, v, d, path) ==
  /\ d \in 0..N /\ v \in [0..d -> 1..N] /\ v[0] = t.root /\ v[d] = n
  /\ \A k \in 1..d : t.parent[v[k]] = v[k - 1]
  /\ path \in [1..d -> {0, 1}]
  /\ \A k \in 1..d : path[k] = IF t.right[v[k - 1]] = v[k] THEN 1 ELSE 0

(* Huff_EmitPathToByte goes up that way and gives its bits from the top.   *)
LEMMA PathIs ==
  ASSUME HuffmanAssumption, NEW N \in Nat, NEW t, Stable(t, N), NEW n \in 1..N
  PROVE  \E v, d : Way(t, N, n, v, d, Huff_EmitPathToByte(t, n))
<1> DEFINE up == Along(t.parent, n, N)
           depth == CHOOSE k \in 0..N : up[k + 1] = t.root
           path == [i \in 1..depth |-> IF t.right[up[depth - i + 2]] = up[depth - i + 1] THEN 1 ELSE 0]
           v == [k \in 0..depth |-> up[depth - k + 1]]
<1>1. Rising(t, N)
  BY StableRises
<1>2. Len(t.symbol) = N
  <2>1. t.symbol \in [1..N -> Nat]
    BY <1>1 DEF Rising, TreeOf
  <2> QED BY <2>1
<1>3. path = Huff_EmitPathToByte(t, n)
  BY <1>2 DEF Huff_EmitPathToByte
<1>4. t.parent \in Pointers(N) /\ t.root \in 1..N
  BY <1>1 DEF Rising, TreeOf, Shape, Hangs
<1>5. Follows(up, t.parent, n, N, 0..N)
  <2> DEFINE S == 0..N
             f == t.parent
  <2>1. n \in S /\ 0 \in S /\ N \in Nat /\ \A m \in S : m # 0 => f[m] \in S
    BY <1>4 DEF Pointers
  <2> HIDE DEF S, f
  <2>2. Follows(Along(f, n, N), f, n, N, S)
    BY <2>1, AlongIs
  <2> QED BY <2>2 DEF S, f
<1>6. \E k \in 0..N : up[k + 1] = t.root
  BY RootReached DEF Reaches
<1> HIDE DEF up
<1>7. depth \in 0..N /\ up[depth + 1] = t.root
  BY <1>6
<1> HIDE DEF depth
<1>8. /\ \A i \in 1..(N + 1) : up[i] \in 0..N
      /\ up[1] = n
      /\ \A i \in 1..N : up[i + 1] = IF up[i] = 0 THEN 0 ELSE t.parent[up[i]]
  BY <1>5 DEF Follows
<1> DEFINE T == {k \in 0..depth : up[depth - k + 1] # 0}
<1>9. 0 \in T
  BY <1>4, <1>7
<1>10. ASSUME NEW k \in 1..depth, k - 1 \in T PROVE k \in T
  <2>1. up[depth - (k - 1) + 1] # 0
    BY <1>10
  <2> DEFINE i == depth - k + 1
  <2>2. i \in 1..N /\ depth - (k - 1) + 1 = i + 1
    BY <1>7
  <2>3. up[i + 1] # 0
    BY <2>1, <2>2
  <2> HIDE DEF i
  <2>4. up[i] # 0
    BY <1>8, <2>2, <2>3
  <2> QED BY <2>4 DEF i
<1>11. \A k \in 0..depth : k \in T
  <2> HIDE DEF T
  <2> QED BY <1>7, <1>9, <1>10, InductionTo
<1>12. \A k \in 0..depth : v[k] \in 1..N
  <2>1. SUFFICES ASSUME NEW k \in 0..depth PROVE up[depth - k + 1] \in 1..N
    OBVIOUS
  <2>2. depth - k + 1 \in 1..(N + 1)
    BY <1>7
  <2>3. up[depth - k + 1] # 0 /\ up[depth - k + 1] \in 0..N
    BY <1>8, <1>11, <2>2
  <2> QED BY <2>3
<1>13. v[0] = t.root /\ v[depth] = n
  BY <1>7, <1>8
<1>14. ASSUME NEW k \in 1..depth
       PROVE  /\ t.parent[v[k]] = v[k - 1]
              /\ path[k] = IF t.right[v[k - 1]] = v[k] THEN 1 ELSE 0
  <2> DEFINE i == depth - k + 1
  <2>1. /\ i \in 1..N /\ k \in 0..depth /\ k - 1 \in 0..depth
        /\ depth - (k - 1) + 1 = i + 1 /\ depth - k + 2 = i + 1
    BY <1>7
  <2>2. v[k] = up[i] /\ v[k - 1] = up[i + 1]
    BY <2>1
  <2>3. path[k] = IF t.right[up[i + 1]] = up[i] THEN 1 ELSE 0
    BY <2>1
  <2>4. up[i] \in 1..N
    BY <1>12, <2>1, <2>2
  <2> HIDE DEF i, v, path
  <2> QED BY <1>8, <2>1, <2>2, <2>3, <2>4
<1>15. path \in [1..depth -> {0, 1}]
  OBVIOUS
<1>16. v \in [0..depth -> 1..N]
  BY <1>12
<1> HIDE DEF v, path
<1>17. Way(t, N, n, v, depth, path)
  BY <1>7, <1>13, <1>14, <1>15, <1>16 DEF Way
<1> QED BY <1>3, <1>17

(* Going down by the bits of the way to a leaf leads to it.                *)
Decoded(t, bits, pos, n, path) ==
  Huff_GetByteFromTree(t, bits, pos) = [symbol |-> t.symbol[n], pos |-> pos + Len(path)]

(* At each inner node the bit behind pos tells left from right as the way  *)
(* down does, and at the leaf Huff_GetByteFromTree stops.                  *)
LEMMA PathDecodes ==
  ASSUME HuffmanAssumption, NEW N \in Nat, NEW t, Rising(t, N), NEW n \in 1..N,
         t.symbol[n] # NodeNext, NEW v, NEW d, NEW path, Way(t, N, n, v, d, path),
         NEW bits, NEW pos \in Nat, \A k \in 1..d : bits[pos + k] = path[k]
  PROVE  Decoded(t, bits, pos, n, path)
<1> DEFINE S == 1..N
           Go(m, k) == Below(t, m, bits[pos + k])
           Step == [p \in S \X (1..N) |-> Go(p[1], p[2])]
           IsNode(g) == g = [k \in 0..N |-> IF k = 0 THEN t.root ELSE Go(g[k - 1], k)]
           node == CHOOSE g : IsNode(g)
           steps == CHOOSE k \in 0..N : /\ t.symbol[node[k]] # NodeNext
                                        /\ \A j \in 0..(k - 1) : t.symbol[node[j]] = NodeNext
<1>1. Len(t.symbol) = N
  <2>1. t.symbol \in [1..N -> Nat]
    BY DEF Rising, TreeOf
  <2> QED BY <2>1
<1>2. Huff_GetByteFromTree(t, bits, pos) = [symbol |-> t.symbol[node[steps]], pos |-> pos + steps]
  BY <1>1 DEF Huff_GetByteFromTree
<1>3. Hangs(t.left, t.right, t.parent, t.root, t.symbol, N)
  BY DEF Rising, Shape
<1>4. /\ t.root \in S
      /\ \A m \in S : t.symbol[m] = NodeNext =>
           /\ t.left[m] \in S /\ t.right[m] \in S /\ t.left[m] # t.right[m]
      /\ \A m \in S : t.parent[m] # 0 =>
           t.symbol[t.parent[m]] = NodeNext /\ (t.left[t.parent[m]] = m \/ t.right[t.parent[m]] = m)
  BY <1>3 DEF Hangs, Nil
<1>5. \A m \in S, k \in 1..N : Go(m, k) \in S
  BY <1>4 DEF Below
<1>6. Step \in [S \X (1..N) -> S]
  <2> HIDE DEF S, Go
  <2> QED BY <1>5
<1> HIDE DEF Step, Go
<1>7. PICK g : Iterates(g, S, t.root, N, Step)
  BY <1>4, <1>6, RecursionTo
<1>8. g \in [0..N -> S] /\ g[0] = t.root /\ \A k \in 1..N : g[k] = Step[<<g[k - 1], k>>]
  BY <1>7 DEF Iterates
<1>9. ASSUME NEW k \in 1..N PROVE g[k] = Go(g[k - 1], k)
  <2>1. k - 1 \in 0..N
    OBVIOUS
  <2>2. g[k - 1] \in S
    <3> HIDE DEF S
    <3> QED BY <1>8, <2>1
  <2> QED BY <1>8, <2>2 DEF Step
<1>10. IsNode(g)
  <2>1. ASSUME NEW k \in 0..N PROVE g[k] = IF k = 0 THEN t.root ELSE Go(g[k - 1], k)
    <3>1. k # 0 => k \in 1..N
      OBVIOUS
    <3> QED BY <1>8, <1>9, <3>1
  <2> QED BY <1>8, <2>1, Zenon
<1>11. IsNode(node)
  <2> HIDE DEF IsNode
  <2> QED BY <1>10
<1> HIDE DEF node
<1>12. \A k \in 0..N : node[k] = IF k = 0 THEN t.root ELSE Go(node[k - 1], k)
  BY <1>11
<1>13. /\ d \in 0..N /\ \A k \in 0..d : v[k] \in S
       /\ v[0] = t.root /\ v[d] = n /\ \A k \in 1..d : t.parent[v[k]] = v[k - 1]
       /\ \A k \in 1..d : path[k] = IF t.right[v[k - 1]] = v[k] THEN 1 ELSE 0
       /\ path \in [1..d -> {0, 1}]
  BY DEF Way
<1>14. Len(path) = d
  BY <1>13
<1>15. ASSUME NEW k \in 1..d
       PROVE  /\ t.symbol[v[k - 1]] = NodeNext
              /\ Go(v[k - 1], k) = v[k]
  <2>1. t.parent[v[k]] = v[k - 1] /\ v[k] \in S /\ v[k - 1] \in S
        /\ path[k] = (IF t.right[v[k - 1]] = v[k] THEN 1 ELSE 0) /\ bits[pos + k] = path[k]
    BY <1>13
  <2>2. t.parent[v[k]] # 0
    BY <2>1
  <2> DEFINE m == v[k - 1]
             c == v[k]
  <2> HIDE DEF m, c
  <2>3. t.parent[c] = m /\ c \in S /\ m \in S /\ t.parent[c] # 0
        /\ bits[pos + k] = IF t.right[m] = c THEN 1 ELSE 0
    BY <2>1, <2>2 DEF m, c
  <2>4. t.symbol[m] = NodeNext /\ (t.left[m] = c \/ t.right[m] = c)
    BY <1>4, <2>3
  <2>5. Go(m, k) = c
    BY <1>4, <2>3, <2>4 DEF Go, Below
  <2> QED BY <2>4, <2>5 DEF m, c
<1> DEFINE T == {k \in 0..d : node[k] = v[k]}
<1>16. 0 \in T
  BY <1>12, <1>13
<1>17. ASSUME NEW k \in 1..d, k - 1 \in T PROVE k \in T
  <2>1. k \in 0..N /\ k # 0 /\ k \in 0..d
    BY <1>13
  <2>2. node[k] = Go(node[k - 1], k) /\ node[k - 1] = v[k - 1]
    BY <1>12, <1>17, <2>1
  <2>3. node[k] = v[k]
    BY <1>15, <2>2
  <2> QED BY <2>1, <2>3
<1>18. \A k \in 0..d : node[k] = v[k]
  <2>1. d \in Nat
    BY <1>13
  <2>2. \A k \in 0..d : k \in T
    <3> HIDE DEF T
    <3> QED BY <1>16, <1>17, <2>1, InductionTo
  <2> QED BY <2>2
<1>19. t.symbol[node[d]] # NodeNext /\ node[d] = n
  BY <1>13, <1>18
<1>20. \A j \in 0..(d - 1) : t.symbol[node[j]] = NodeNext
  <2>1. SUFFICES ASSUME NEW j \in 0..(d - 1) PROVE t.symbol[node[j]] = NodeNext
    OBVIOUS
  <2> DEFINE k == j + 1
  <2>2. k \in 1..d /\ k - 1 = j /\ j \in 0..d
    BY <1>13
  <2>3. node[j] = v[j]
    BY <1>18, <2>2
  <2>4. t.symbol[v[j]] = NodeNext
    <3> HIDE DEF k
    <3> QED BY <1>15, <2>2
  <2> QED BY <2>3, <2>4
<1>21. \A k \in 0..N : /\ t.symbol[node[k]] # NodeNext
                       /\ \A j \in 0..(k - 1) : t.symbol[node[j]] = NodeNext
                       => k = d
  <2>1. SUFFICES ASSUME NEW k \in 0..N, t.symbol[node[k]] # NodeNext,
                        \A j \in 0..(k - 1) : t.symbol[node[j]] = NodeNext
                 PROVE  k = d
    OBVIOUS
  <2>2. ~ (k < d)
    <3>1. k < d => k \in 0..(d - 1)
      BY <1>13
    <3> QED BY <1>20, <2>1, <3>1
  <2>3. ~ (d < k)
    <3>1. d < k => d \in 0..(k - 1)
      BY <1>13
    <3> QED BY <1>19, <2>1, <3>1
  <2> QED BY <1>13, <2>2, <2>3
<1>22. steps = d
  BY <1>13, <1>19, <1>20, <1>21
<1> HIDE DEF steps
<1> QED BY <1>2, <1>14, <1>19, <1>22 DEF Decoded

-----------------------------------------------------------------------------
-----------------------------------------------------------------------------
(* The bits of a value give the value again.                               *)
HasBits(value) ==
  /\ Bits(value) \in [1..Width -> {0, 1}]
  /\ Len(Bits(value)) = Width
  /\ \A bits : (\A k \in 1..Width : bits[k] = Bits(value)[k]) => Value(bits) = value

(* What the loop of Bits goes through.                                     *)
IsShifted(shifted, value) ==
  /\ \A k \in 0..Width : shifted[k] \in Nat
  /\ shifted[0] = value
  /\ \A k \in 1..Width : shifted[k] = shifted[k - 1] \div 2
  /\ Bits(value) = [i \in 1..Width |-> shifted[Width - i] % 2]

(* A number is twice its half and the rest.                                *)
LEMMA Halved ==
  ASSUME NEW n \in Nat
  PROVE  2 * (n \div 2) + (n % 2) = n
BY SMT

(* Bits goes through it.                                                   *)
LEMMA BitsShifted ==
  ASSUME HuffmanAssumption, NEW value \in Nat
  PROVE  \E shifted : IsShifted(shifted, value)
<1> DEFINE S == Nat
           Step == [p \in S \X (1..Width) |-> p[1] \div 2]
           IsShift(g) == g = [k \in 0..Width |-> IF k = 0 THEN value ELSE g[k - 1] \div 2]
           shifted == CHOOSE g : IsShift(g)
<1>1. Bits(value) = [i \in 1..Width |-> shifted[Width - i] % 2]
  BY DEF Bits
<1>2. Width \in Nat
  BY HuffmanAssumption DEF HuffmanAssumption
<1>3. Step \in [S \X (1..Width) -> S]
  OBVIOUS
<1> HIDE DEF Step
<1>4. PICK g : Iterates(g, S, value, Width, Step)
  <2> HIDE DEF S
  <2>1. value \in S
    BY DEF S
  <2> QED BY <1>2, <1>3, <2>1, RecursionTo
<1>5. g \in [0..Width -> S] /\ g[0] = value /\ \A k \in 1..Width : g[k] = Step[<<g[k - 1], k>>]
  BY <1>4 DEF Iterates
<1>6. ASSUME NEW k \in 1..Width PROVE g[k] = g[k - 1] \div 2 /\ g[k - 1] \in S
  <2>1. g[k - 1] \in S
    BY <1>2, <1>5
  <2> QED BY <1>5, <2>1 DEF Step
<1>7. IsShift(g)
  <2>1. ASSUME NEW k \in 0..Width PROVE g[k] = IF k = 0 THEN value ELSE g[k - 1] \div 2
    <3>1. k # 0 => k \in 1..Width
      BY <1>2
    <3> QED BY <1>5, <1>6, <3>1
  <2> QED BY <1>5, <2>1, Zenon
<1>8. IsShift(shifted)
  <2> HIDE DEF IsShift
  <2> QED BY <1>7
<1> HIDE DEF shifted
<1>9. \A k \in 0..Width : shifted[k] = IF k = 0 THEN value ELSE shifted[k - 1] \div 2
  BY <1>8
<1> DEFINE T == {k \in 0..Width : shifted[k] \in Nat}
<1>10. 0 \in T
  BY <1>2, <1>9
<1>11. ASSUME NEW k \in 1..Width, k - 1 \in T PROVE k \in T
  <2>1. k \in 0..Width /\ k # 0 /\ shifted[k - 1] \in Nat
    BY <1>2, <1>11
  <2>2. shifted[k] = shifted[k - 1] \div 2
    BY <1>9, <2>1
  <2> QED BY <2>1, <2>2
<1>12. \A k \in 0..Width : k \in T
  <2> HIDE DEF T
  <2> QED BY <1>2, <1>10, <1>11, InductionTo
<1>13. shifted[0] = value
  BY <1>2, <1>9
<1>14. \A k \in 1..Width : shifted[k] = shifted[k - 1] \div 2
  BY <1>2, <1>9
<1>15. \A k \in 0..Width : shifted[k] \in Nat
  BY <1>12
<1> QED BY <1>1, <1>13, <1>14, <1>15 DEF IsShifted

(* The bits of a byte that comes raw are that byte.                        *)
LEMMA ValueOfBits ==
  ASSUME HuffmanAssumption, NEW value \in Byte
  PROVE  HasBits(value)
<1>1. value \in Nat /\ value < Power[Width] /\ Width \in Nat
  BY HuffmanAssumption, SymbolsDiffer DEF HuffmanAssumption
<1>2. PICK shifted : IsShifted(shifted, value)
  BY <1>1, BitsShifted
<1> DEFINE b == Bits(value)
<1>3. /\ \A k \in 0..Width : shifted[k] \in Nat
      /\ shifted[0] = value
      /\ \A k \in 1..Width : shifted[k] = shifted[k - 1] \div 2
      /\ b = [i \in 1..Width |-> shifted[Width - i] % 2]
  BY <1>2 DEF IsShifted
<1> HIDE DEF b
<1>4. /\ \A k \in 0..Width : Power[k] \in Nat \ {0}
      /\ Power[0] = 1
      /\ \A k \in 1..Width : Power[k] = 2 * Power[k - 1]
  BY PowerSteps
<1> DEFINE T == {k \in 0..Width : shifted[k] < Power[Width - k]}
<1>5. 0 \in T
  BY <1>1, <1>3
<1>6. ASSUME NEW k \in 1..Width, k - 1 \in T PROVE k \in T
  <2> DEFINE j == Width - k + 1
             p == Power[j - 1]
             q == Power[j]
             x == shifted[k - 1]
             y == shifted[k]
  <2>1. j \in 1..Width /\ j - 1 = Width - k /\ j = Width - (k - 1) /\ k - 1 \in 0..Width
    BY <1>1
  <2>2. x < q /\ y = x \div 2 /\ q = 2 * p
    BY <1>3, <1>4, <1>6, <2>1
  <2>3. x \in Nat /\ y \in Nat /\ p \in Nat
    <3>1. j - 1 \in 0..Width
      BY <2>1
    <3> QED BY <1>3, <1>4, <2>1, <3>1
  <2>4. y < p
    <3> HIDE DEF x, y, p, q
    <3> QED BY <2>2, <2>3
  <2>5. k \in 0..Width
    OBVIOUS
  <2> QED BY <2>1, <2>4, <2>5
<1>7. shifted[Width] = 0
  <2>1. \A k \in 0..Width : k \in T
    <3> HIDE DEF T
    <3> QED BY <1>1, <1>5, <1>6, InductionTo
  <2>2. Width \in T
    BY <1>1, <2>1
  <2>3. shifted[Width] < Power[Width - Width] /\ shifted[Width] \in Nat /\ Width - Width = 0
    BY <1>1, <1>3, <2>2
  <2>4. shifted[Width] < 1
    BY <1>4, <2>3
  <2> QED BY <2>3, <2>4
<1>8. ASSUME NEW i \in 1..Width PROVE b[i] = shifted[Width - i] % 2 /\ b[i] \in {0, 1}
  <2>1. b[i] = shifted[Width - i] % 2
    BY <1>3
  <2>2. shifted[Width - i] \in Nat
    <3>1. Width - i \in 0..Width
      BY <1>1
    <3> QED BY <1>3, <3>1
  <2> DEFINE x == shifted[Width - i]
  <2> HIDE DEF x
  <2>3. x \in Nat => x % 2 \in {0, 1}
    OBVIOUS
  <2> QED BY <2>1, <2>2, <2>3 DEF x
<1>9. b \in [1..Width -> {0, 1}] /\ Len(b) = Width
  <2>1. b \in [1..Width -> {0, 1}]
    BY <1>3, <1>8
  <2> QED BY <1>1, <2>1
<1>10. ASSUME NEW bits, \A k \in 1..Width : bits[k] = b[k] PROVE Value(bits) = value
  <2> DEFINE S == Nat
             zero == 0
             Step == [p \in S \X (1..Width) |-> 2 * p[1] + bits[p[2]]]
             IsValue(g) == g = [k \in 0..Width |-> IF k = 0 THEN 0 ELSE 2 * g[k - 1] + bits[k]]
             val == CHOOSE g : IsValue(g)
  <2>1. Value(bits) = val[Width]
    BY DEF Value
  <2>2. \A k \in 1..Width : bits[k] \in {0, 1}
    BY <1>8, <1>10
  <2>3. Step \in [S \X (1..Width) -> S]
    BY <2>2
  <2> HIDE DEF Step
  <2>4. PICK g : Iterates(g, S, zero, Width, Step)
    <3>1. zero \in S
      OBVIOUS
    <3> HIDE DEF S, zero
    <3> QED BY <1>1, <2>3, <3>1, RecursionTo
  <2>5. g \in [0..Width -> S] /\ g[0] = 0 /\ \A k \in 1..Width : g[k] = Step[<<g[k - 1], k>>]
    BY <2>4 DEF Iterates
  <2>6. ASSUME NEW k \in 1..Width PROVE g[k] = 2 * g[k - 1] + bits[k] /\ g[k - 1] \in S
    <3>1. g[k - 1] \in S
      BY <1>1, <2>5
    <3> QED BY <2>5, <3>1 DEF Step
  <2>7. IsValue(g)
    <3>1. ASSUME NEW k \in 0..Width PROVE g[k] = IF k = 0 THEN 0 ELSE 2 * g[k - 1] + bits[k]
      <4>1. k # 0 => k \in 1..Width
        BY <1>1
      <4> QED BY <2>5, <2>6, <4>1
    <3> QED BY <2>5, <3>1, Zenon
  <2>8. IsValue(val)
    <3> HIDE DEF IsValue
    <3> QED BY <2>7
  <2> HIDE DEF val
  <2>9. \A k \in 0..Width : val[k] = IF k = 0 THEN 0 ELSE 2 * val[k - 1] + bits[k]
    BY <2>8
  <2> DEFINE V == {k \in 0..Width : val[k] = shifted[Width - k]}
  <2>10. 0 \in V
    BY <1>1, <1>7, <2>9
  <2>11. ASSUME NEW k \in 1..Width, k - 1 \in V PROVE k \in V
    <3> DEFINE j == Width - k
               x == shifted[j]
               y == shifted[j + 1]
    <3>1. k \in 0..Width /\ k # 0 /\ j \in 0..Width /\ j + 1 \in 1..Width
          /\ (j + 1) - 1 = j /\ Width - (k - 1) = j + 1
      BY <1>1
    <3>2. val[k] = 2 * val[k - 1] + bits[k] /\ val[k - 1] = y
      BY <2>9, <2>11, <3>1
    <3>3. y = x \div 2 /\ x \in Nat
      BY <1>3, <3>1
    <3>4. bits[k] = x % 2
      BY <1>8, <1>10
    <3>5. val[k] = x
      <4> HIDE DEF x, y
      <4>1. 2 * (x \div 2) + (x % 2) = x
        BY <3>3, Halved
      <4> QED BY <3>2, <3>3, <3>4, <4>1
    <3> QED BY <3>1, <3>5
  <2>12. Width \in V
    <3>1. \A k \in 0..Width : k \in V
      <4> HIDE DEF V
      <4> QED BY <1>1, <2>10, <2>11, InductionTo
    <3> QED BY <1>1, <3>1
  <2>13. val[Width] = shifted[0]
    BY <1>1, <2>12
  <2> QED BY <1>3, <2>1, <2>13
<1> QED BY <1>9, <1>10 DEF HasBits, b

-----------------------------------------------------------------------------
(* One byte is read of the bits behind pos, where n bits stand for it.     *)
Reads(t, bits, pos, byte, n) ==
  LET leaf == Huff_GetByteFromTree(t, bits, pos)
      raw  == leaf.symbol = NotReferenced
  IN  /\ (IF raw THEN Value(SubSeq(bits, leaf.pos + 1, leaf.pos + Width)) ELSE leaf.symbol) = byte
      /\ (IF raw THEN leaf.pos + Width ELSE leaf.pos) = pos + n

(* These bits stand in others, from one place to another.                  *)
Carries(bits, from, to, code) ==
  /\ code \in Seq({0, 1}) /\ bits \in Seq({0, 1})
  /\ from \in Nat /\ to = from + Len(code) /\ to <= Len(bits)
  /\ \A j \in 1..Len(code) : bits[from + j] = code[j]

(* The code of a leaf is bits.                                             *)
LEMMA PathCode ==
  ASSUME HuffmanAssumption, NEW N \in Nat, NEW t, Stable(t, N), NEW n \in 1..N
  PROVE  Huff_EmitPathToByte(t, n) \in Seq({0, 1})
<1>1. PICK v, d : Way(t, N, n, v, d, Huff_EmitPathToByte(t, n))
  BY PathIs
<1> DEFINE path == Huff_EmitPathToByte(t, n)
<1>2. d \in Nat /\ path \in [1..d -> {0, 1}]
  BY <1>1 DEF Way
<1> HIDE DEF path
<1>3. path \in Seq({0, 1})
  BY <1>2
<1> QED BY <1>3 DEF path

(* Bits that carry the code of a leaf lead to it.                          *)
LEMMA LeafDecodes ==
  ASSUME HuffmanAssumption, NEW N \in Nat, NEW t, Stable(t, N), NEW n \in 1..N,
         t.symbol[n] # NodeNext, NEW bits, NEW pos, NEW to,
         Carries(bits, pos, to, Huff_EmitPathToByte(t, n))
  PROVE  Decoded(t, bits, pos, n, Huff_EmitPathToByte(t, n))
<1> DEFINE path == Huff_EmitPathToByte(t, n)
<1>1. PICK v, d : Way(t, N, n, v, d, path)
  BY PathIs
<1>2. Carries(bits, pos, to, path)
  OBVIOUS
<1>3. Rising(t, N)
  BY StableRises
<1> HIDE DEF path
<1>4. d \in Nat /\ Len(path) = d
  BY <1>1 DEF Way
<1>5. pos \in Nat /\ \A k \in 1..d : bits[pos + k] = path[k]
  BY <1>2, <1>4 DEF Carries
<1>6. Decoded(t, bits, pos, n, path)
  BY <1>1, <1>3, <1>5, PathDecodes
<1> QED BY <1>6 DEF path

(* Where bytes hang: a byte that has been seen at its leaf, the others at  *)
(* the first node.                                                         *)
LEMMA LeafOf ==
  ASSUME HuffmanAssumption, NEW N \in Nat, NEW t, Stable(t, N)
  PROVE  /\ \A c \in Byte : t.loc[c] # 0 => t.loc[c] \in 1..N /\ t.symbol[t.loc[c]] = c
         /\ t.loc[NotReferenced] \in 1..N /\ t.symbol[t.loc[NotReferenced]] = NotReferenced
<1>1. t \in TreeOf(N) /\ Shape(t, N)
  BY StableRises DEF Rising
<1>2. \A c \in Byte \cup {NotReferenced} : t.loc[c] \in 0..N
  BY <1>1 DEF TreeOf
<1>3. /\ \A c \in Byte \cup {NotReferenced} : t.loc[c] # 0 => t.symbol[t.loc[c]] = c
      /\ t.loc[NotReferenced] = 1
  BY <1>1 DEF Shape, Labelled, Nil, First
<1> QED BY <1>2, <1>3

(* The first part of what bits carry, and the second.                      *)
LEMMA CarriesBoth ==
  ASSUME NEW bits, NEW pos, NEW to, NEW c \in Seq({0, 1}), NEW d \in Seq({0, 1}),
         Carries(bits, pos, to, c \o d)
  PROVE  Carries(bits, pos, pos + Len(c), c) /\ Carries(bits, pos + Len(c), to, d)
<1> DEFINE e == c \o d
<1>1. /\ Len(c) \in Nat /\ Len(d) \in Nat /\ Len(e) = Len(c) + Len(d)
      /\ \A j \in 1..Len(c) : e[j] = c[j]
      /\ \A j \in 1..Len(d) : e[Len(c) + j] = d[j]
  OBVIOUS
<1>2. Carries(bits, pos, to, e)
  OBVIOUS
<1> HIDE DEF e
<1>3. /\ bits \in Seq({0, 1}) /\ Len(bits) \in Nat
      /\ pos \in Nat /\ to = pos + Len(c) + Len(d) /\ to <= Len(bits)
      /\ \A j \in 1..(Len(c) + Len(d)) : bits[pos + j] = e[j]
  BY <1>1, <1>2 DEF Carries
<1>4. \A j \in 1..Len(c) : bits[pos + j] = c[j]
  BY <1>1, <1>3
<1>5. ASSUME NEW j \in 1..Len(d) PROVE bits[pos + Len(c) + j] = d[j]
  <2>1. Len(c) + j \in 1..(Len(c) + Len(d)) /\ pos + (Len(c) + j) = pos + Len(c) + j
    BY <1>1, <1>3
  <2>2. bits[pos + (Len(c) + j)] = e[Len(c) + j]
    BY <1>3, <2>1
  <2> QED BY <1>1, <2>1, <2>2
<1> DEFINE n == Len(c)
           mid == pos + n
<1>6. /\ n \in Nat /\ Len(d) \in Nat /\ mid \in Nat
      /\ mid = pos + n /\ to = mid + Len(d) /\ mid <= Len(bits)
  BY <1>1, <1>3
<1>7. Carries(bits, pos, mid, c)
  <2>1. mid = pos + Len(c)
    OBVIOUS
  <2> HIDE DEF mid, n
  <2> QED BY <1>3, <1>4, <1>6, <2>1 DEF Carries
<1>8. Carries(bits, mid, to, d)
  <2>1. \A j \in 1..Len(d) : bits[mid + j] = d[j]
    BY <1>5
  <2> HIDE DEF mid, n
  <2> QED BY <1>3, <1>6, <2>1 DEF Carries
<1> QED BY <1>7, <1>8

(* The code of a byte, old or new, is bits, and where they are they are    *)
(* read as that byte.                                                      *)
LEMMA ByteDecodes ==
  ASSUME HuffmanAssumption, NEW N \in Nat, NEW t, Stable(t, N), NEW byte \in Byte,
         NEW bits, NEW pos, NEW to, Carries(bits, pos, to, Huff_EmitByteDynamic(t, byte))
  PROVE  Reads(t, bits, pos, byte, Len(Huff_EmitByteDynamic(t, byte)))
<1> DEFINE code == Huff_EmitByteDynamic(t, byte)
<1>1. /\ t.loc[byte] # 0 => t.loc[byte] \in 1..N /\ t.symbol[t.loc[byte]] = byte
      /\ t.loc[NotReferenced] \in 1..N /\ t.symbol[t.loc[NotReferenced]] = NotReferenced
  BY LeafOf
<1>2. NotReferenced # NodeNext /\ NotReferenced \notin Byte /\ NodeNext \notin Byte
  BY SymbolsDiffer
<1>3. CASE t.loc[byte] # 0
  <2> DEFINE n == t.loc[byte]
             path == Huff_EmitPathToByte(t, n)
  <2>1. code = path
    BY <1>3 DEF Huff_EmitByteDynamic, Nil
  <2>2. Carries(bits, pos, to, path)
    BY <2>1
  <2>3. n \in 1..N /\ t.symbol[n] = byte
    BY <1>1, <1>3
  <2> HIDE DEF code, n
  <2>4. t.symbol[n] # NodeNext
    BY <1>2, <2>3
  <2>5. Decoded(t, bits, pos, n, path)
    BY <2>2, <2>3, <2>4, LeafDecodes
  <2> HIDE DEF path
  <2>6. Huff_GetByteFromTree(t, bits, pos) = [symbol |-> byte, pos |-> pos + Len(path)]
    BY <2>3, <2>5 DEF Decoded
  <2>7. Reads(t, bits, pos, byte, Len(path))
    BY <1>2, <2>6 DEF Reads
  <2> QED BY <2>1, <2>7 DEF code
<1>4. CASE t.loc[byte] = 0
  <2> DEFINE n == t.loc[NotReferenced]
             path == Huff_EmitPathToByte(t, n)
             b == Bits(byte)
             mid == pos + Len(path)
             raw == SubSeq(bits, mid + 1, mid + Width)
  <2>1. code = path \o b
    BY <1>4 DEF Huff_EmitByteDynamic, Nil
  <2>2. HasBits(byte)
    BY ValueOfBits
  <2>3. Width \in Nat
    BY HuffmanAssumption DEF HuffmanAssumption
  <2>4. n \in 1..N /\ t.symbol[n] = NotReferenced
    BY <1>1
  <2> HIDE DEF n
  <2>5. path \in Seq({0, 1})
    BY <2>4, PathCode
  <2>6. b \in Seq({0, 1}) /\ Len(b) = Width
    <3>1. b \in [1..Width -> {0, 1}] /\ Len(b) = Width
      BY <2>2 DEF HasBits
    <3> HIDE DEF b
    <3> QED BY <2>3, <3>1
  <2>7. Carries(bits, pos, to, path \o b)
    BY <2>1
  <2>8. Carries(bits, pos, mid, path) /\ Carries(bits, mid, to, b)
    <3> HIDE DEF path, b, code
    <3> QED BY <2>5, <2>6, <2>7, CarriesBoth
  <2>9. t.symbol[n] # NodeNext
    BY <1>2, <2>4
  <2>10. Decoded(t, bits, pos, n, path)
    <3> HIDE DEF mid
    <3> QED BY <2>4, <2>8, <2>9, LeafDecodes
  <2>11. Huff_GetByteFromTree(t, bits, pos) = [symbol |-> NotReferenced, pos |-> mid]
    BY <2>4, <2>10 DEF Decoded
  <2>12. Value(raw) = byte
    <3>1. /\ bits \in Seq({0, 1}) /\ mid \in Nat /\ mid + Width <= Len(bits)
          /\ \A j \in 1..Width : bits[mid + j] = b[j]
      <4> HIDE DEF mid, b
      <4> QED BY <2>6, <2>8 DEF Carries
    <3>2. \A j \in 1..Width : raw[j] = bits[mid + j]
      <4> HIDE DEF mid
      <4> QED BY <2>3, <3>1
    <3> HIDE DEF raw, mid
    <3>3. \A j \in 1..Width : raw[j] = b[j]
      BY <3>1, <3>2
    <3> QED BY <2>2, <3>3 DEF HasBits
  <2>13. mid + Width = pos + Len(code)
    <3>1. pos \in Nat /\ Len(path) \in Nat
      <4> HIDE DEF path
      <4> QED BY <2>5, <2>7 DEF Carries
    <3>2. Len(code) = Len(path) + Width
      <4> HIDE DEF path, b, code
      <4>1. Len(path \o b) = Len(path) + Len(b)
        BY <2>5, <2>6
      <4> QED BY <2>1, <2>6, <4>1
    <3> HIDE DEF path, code
    <3> QED BY <2>3, <3>1, <3>2
  <2> HIDE DEF mid
  <2> QED BY <2>11, <2>12, <2>13 DEF Reads
<1> QED BY <1>3, <1>4

(* The code of a byte is bits.                                             *)
LEMMA ByteCode ==
  ASSUME HuffmanAssumption, NEW N \in Nat, NEW t, Stable(t, N), NEW byte \in Byte
  PROVE  Huff_EmitByteDynamic(t, byte) \in Seq({0, 1})
<1>1. /\ t.loc[byte] # 0 => t.loc[byte] \in 1..N
      /\ t.loc[NotReferenced] \in 1..N
  BY LeafOf
<1>2. \A n \in 1..N : Huff_EmitPathToByte(t, n) \in Seq({0, 1})
  BY PathCode
<1>3. Bits(byte) \in Seq({0, 1})
  <2> DEFINE b == Bits(byte)
  <2>1. b \in [1..Width -> {0, 1}] /\ Width \in Nat
    BY ValueOfBits, HuffmanAssumption DEF HasBits, HuffmanAssumption
  <2> HIDE DEF b
  <2>2. b \in Seq({0, 1})
    BY <2>1
  <2> QED BY <2>2 DEF b
<1>4. CASE t.loc[byte] # 0
  BY <1>1, <1>2, <1>4 DEF Huff_EmitByteDynamic, Nil
<1>5. CASE t.loc[byte] = 0
  <2> DEFINE p == Huff_EmitPathToByte(t, t.loc[NotReferenced])
             b == Bits(byte)
  <2>1. Huff_EmitByteDynamic(t, byte) = p \o b
    BY <1>5 DEF Huff_EmitByteDynamic, Nil
  <2>2. p \in Seq({0, 1}) /\ b \in Seq({0, 1})
    BY <1>1, <1>2, <1>3
  <2> HIDE DEF p, b
  <2>3. p \o b \in Seq({0, 1})
    BY <2>2
  <2> QED BY <2>1, <2>3
<1> QED BY <1>4, <1>5

-----------------------------------------------------------------------------
(* The bits of a message: trees[i] is the tree after i bytes, in either    *)
(* packet, and cut[i] where their bits end.                                *)
SentByte(msg, bits, trees, cut, i) ==
  /\ trees[i] = Huff_AddReference(trees[i - 1], msg[i])
  /\ Carries(bits, cut[i - 1], cut[i], Huff_EmitByteDynamic(trees[i - 1], msg[i]))

(* The trees start empty, every one of them is stable, and the bits of the *)
(* bytes follow each other to the end.                                     *)
Sent(msg, bits, trees, cut) ==
  /\ msg \in Seq(Byte) /\ bits \in Seq({0, 1})
  /\ trees[0] = Huff_PrepareTree /\ cut[0] = 0 /\ cut[Len(msg)] = Len(bits)
  /\ \A i \in 0..Len(msg) : cut[i] \in 0..Len(bits) /\ \E N \in Nat : Stable(trees[i], N)
  /\ \A i \in 1..Len(msg) : SentByte(msg, bits, trees, cut, i)

(* A sequence from 0 on with one more element.                             *)
Longer(f, n, x) == [i \in 0..(n + 1) |-> IF i = n + 1 THEN x ELSE f[i]]

(* Bits behind others do not change what those carry.                      *)
LEMMA CarriesMore ==
  ASSUME NEW bits, NEW from, NEW to, NEW code, Carries(bits, from, to, code),
         NEW more \in Seq({0, 1})
  PROVE  Carries(bits \o more, from, to, code)
<1> DEFINE all == bits \o more
<1>1. /\ code \in Seq({0, 1}) /\ bits \in Seq({0, 1})
      /\ from \in Nat /\ to = from + Len(code) /\ to <= Len(bits)
      /\ \A j \in 1..Len(code) : bits[from + j] = code[j]
  BY DEF Carries
<1>2. /\ all \in Seq({0, 1}) /\ Len(all) = Len(bits) + Len(more)
      /\ \A j \in 1..Len(bits) : all[j] = bits[j]
      /\ Len(bits) \in Nat /\ Len(more) \in Nat /\ Len(code) \in Nat
  BY <1>1
<1> HIDE DEF all
<1>3. \A j \in 1..Len(code) : all[from + j] = code[j]
  <2>1. SUFFICES ASSUME NEW j \in 1..Len(code) PROVE all[from + j] = code[j]
    OBVIOUS
  <2>2. from + j \in 1..Len(bits)
    BY <1>1, <1>2
  <2> QED BY <1>1, <1>2, <2>2
<1>4. to <= Len(all)
  BY <1>1, <1>2
<1> QED BY <1>1, <1>2, <1>3, <1>4 DEF Carries, all

(* The bits put behind others are carried there.                           *)
LEMMA CarriesNew ==
  ASSUME NEW bits \in Seq({0, 1}), NEW code \in Seq({0, 1})
  PROVE  Carries(bits \o code, Len(bits), Len(bits \o code), code)
<1> DEFINE all == bits \o code
           n == Len(bits)
<1>1. /\ all \in Seq({0, 1}) /\ Len(all) = n + Len(code)
      /\ \A j \in 1..Len(code) : all[n + j] = code[j]
      /\ n \in Nat /\ Len(code) \in Nat
  OBVIOUS
<1>2. Len(all) <= Len(all)
  BY <1>1
<1> HIDE DEF all, n
<1>3. Carries(all, n, Len(all), code)
  BY <1>1, <1>2 DEF Carries
<1> QED BY <1>3 DEF all, n

(* Another byte is sent.                                                   *)
LEMMA SentLonger ==
  ASSUME HuffmanAssumption, NEW msg, NEW bits, NEW trees, NEW cut,
         Sent(msg, bits, trees, cut), NEW c \in Byte
  PROVE  LET n    == Len(msg)
             more == bits \o Huff_EmitByteDynamic(trees[n], c)
         IN  Sent(Append(msg, c), more, Longer(trees, n, Huff_AddReference(trees[n], c)),
                  Longer(cut, n, Len(more)))
<1> DEFINE n == Len(msg)
           code == Huff_EmitByteDynamic(trees[n], c)
           more == bits \o code
           u == Huff_AddReference(trees[n], c)
           msg2 == Append(msg, c)
           trees2 == Longer(trees, n, u)
           end == Len(more)
           cut2 == Longer(cut, n, end)
<1>1. /\ msg \in Seq(Byte) /\ bits \in Seq({0, 1})
      /\ trees[0] = Huff_PrepareTree /\ cut[0] = 0 /\ cut[n] = Len(bits)
      /\ \A i \in 0..n : cut[i] \in 0..Len(bits) /\ \E N \in Nat : Stable(trees[i], N)
      /\ \A i \in 1..n : SentByte(msg, bits, trees, cut, i)
  BY DEF Sent
<1>2. n \in Nat /\ n \in 0..n /\ 0 \in 0..n
  BY <1>1
<1>3. PICK N \in Nat : Stable(trees[n], N)
  BY <1>1, <1>2
<1>4. code \in Seq({0, 1})
  BY <1>3, ByteCode
<1>5. \E M \in Nat : Stable(u, M)
  BY <1>3, AddedStable
<1>6. /\ msg2 \in Seq(Byte) /\ Len(msg2) = n + 1 /\ msg2[n + 1] = c
      /\ \A i \in 1..n : msg2[i] = msg[i]
  BY <1>1
<1>7. /\ \A i \in 0..n : trees2[i] = trees[i] /\ cut2[i] = cut[i]
      /\ trees2[n + 1] = u /\ cut2[n + 1] = end
  <2> HIDE DEF n, u, end
  <2> QED BY <1>2 DEF Longer
<1> HIDE DEF n, code, u, msg2, trees2, cut2
<1>8. /\ more \in Seq({0, 1}) /\ end \in Nat /\ Len(bits) <= end
      /\ Carries(more, Len(bits), end, code)
  <2>1. more \in Seq({0, 1}) /\ Len(more) \in Nat /\ Len(bits) \in Nat /\ Len(code) \in Nat
        /\ Len(more) = Len(bits) + Len(code)
    BY <1>1, <1>4
  <2>2. Carries(more, Len(bits), end, code)
    BY <1>1, <1>4, CarriesNew
  <2> QED BY <2>1, <2>2
<1>9. \A i \in 1..n : Carries(more, cut[i - 1], cut[i], Huff_EmitByteDynamic(trees[i - 1], msg[i]))
  BY <1>1, <1>4, CarriesMore DEF SentByte
<1> HIDE DEF more, end
<1>10. ASSUME NEW i \in 1..(n + 1) PROVE SentByte(msg2, more, trees2, cut2, i)
  <2>1. CASE i = n + 1
    <3>1. i - 1 = n
      BY <1>2, <2>1
    <3>2. /\ trees2[i] = u /\ trees2[i - 1] = trees[n]
          /\ cut2[i] = end /\ cut2[i - 1] = Len(bits) /\ msg2[i] = c
      BY <1>1, <1>2, <1>6, <1>7, <2>1, <3>1
    <3> QED BY <1>8, <3>2 DEF SentByte, u, code
  <2>2. CASE i # n + 1
    <3>1. i \in 1..n /\ i \in 0..n /\ i - 1 \in 0..n
      BY <1>2, <2>2
    <3>2. trees2[i] = trees[i] /\ trees2[i - 1] = trees[i - 1]
          /\ cut2[i] = cut[i] /\ cut2[i - 1] = cut[i - 1] /\ msg2[i] = msg[i]
      BY <1>6, <1>7, <3>1
    <3>3. trees[i] = Huff_AddReference(trees[i - 1], msg[i])
      BY <1>1, <3>1 DEF SentByte
    <3> QED BY <1>9, <3>1, <3>2, <3>3 DEF SentByte
  <2> QED BY <2>1, <2>2
<1>11. ASSUME NEW i \in 0..(n + 1)
       PROVE  cut2[i] \in 0..end /\ \E M \in Nat : Stable(trees2[i], M)
  <2>1. CASE i = n + 1
    BY <1>5, <1>7, <1>8, <2>1
  <2>2. CASE i # n + 1
    <3>1. i \in 0..n
      BY <1>2, <2>2
    <3>2. cut2[i] \in 0..Len(bits) /\ \E M \in Nat : Stable(trees2[i], M)
      BY <1>1, <1>7, <3>1
    <3>3. Len(bits) \in Nat
      BY <1>1
    <3> QED BY <1>8, <3>2, <3>3
  <2> QED BY <2>1, <2>2
<1>12. Sent(msg2, more, trees2, cut2)
  <2>1. trees2[0] = Huff_PrepareTree /\ cut2[0] = 0 /\ cut2[Len(msg2)] = Len(more)
    BY <1>1, <1>2, <1>6, <1>7 DEF end
  <2>2. \A i \in 0..Len(msg2) : cut2[i] \in 0..Len(more) /\ \E M \in Nat : Stable(trees2[i], M)
    BY <1>6, <1>11 DEF end
  <2>3. \A i \in 1..Len(msg2) : SentByte(msg2, more, trees2, cut2, i)
    BY <1>6, <1>10
  <2> QED BY <1>6, <1>8, <2>1, <2>2, <2>3 DEF Sent
<1> QED BY <1>12 DEF n, code, more, u, msg2, trees2, end, cut2

-----------------------------------------------------------------------------
(* What is read of a message whose only NUL ends it.                       *)
Ended(msg) ==
  /\ msg \in Seq(Byte) /\ Len(msg) >= 1 /\ msg[Len(msg)] = NUL
  /\ \A i \in 1..(Len(msg) - 1) : msg[i] # NUL

(* MSG_ReadString stops at that NUL.                                       *)
LEMMA ReadWhole ==
  ASSUME NEW msg, Ended(msg)
  PROVE  MSG_ReadString(msg) = SelectSeq(Front(msg), LAMBDA c : c # Skipped)
<1> DEFINE n == Len(msg)
           I == {i \in 1..n : msg[i] = NUL}
<1>1. n \in Nat /\ n >= 1 /\ msg[n] = NUL /\ \A i \in 1..(n - 1) : msg[i] # NUL
  BY DEF Ended
<1>2. I = {n}
  <2> HIDE DEF n
  <2> QED BY <1>1
<1>3. SelectInSeq(msg, LAMBDA c : c = NUL) = n
  <2>1. Min({n}) = n
    <3> HIDE DEF n
    <3> QED BY <1>1 DEF Min
  <2>2. SelectInSeq(msg, LAMBDA c : c = NUL) = IF I # {} THEN Min(I) ELSE 0
    BY DEF SelectInSeq
  <2> HIDE DEF I, n
  <2> QED BY <1>2, <2>1, <2>2
<1>4. n # 0
  BY <1>1
<1> QED BY <1>3, <1>4 DEF MSG_ReadString, Front

-----------------------------------------------------------------------------
(* Both ends go through the same trees; the reader has as many bytes of    *)
(* the text as it has trees, and stands where the bits of these end.       *)
Agreed(trees, cut) ==
  /\ Sent(text, wire, trees, cut)
  /\ etree = trees[Len(text)] /\ dtree = trees[Len(plain)] /\ bitpos = cut[Len(plain)]

(* What has been expanded are the first bytes of the text.                 *)
Copied ==
  /\ plain \in Seq(Byte) /\ Len(plain) <= Len(text)
  /\ \A i \in 1..Len(plain) : plain[i] = text[i]

(* The text has no NUL before its end, which is there once it is sent.     *)
Stages ==
  /\ text \in Seq(Byte) /\ stage \in {"encrypt", "decrypt", "read"}
  /\ stage = "encrypt" => plain = <<>> /\ \A i \in 1..Len(text) : text[i] # NUL
  /\ stage # "encrypt" => Ended(text)
  /\ stage = "read" => Len(plain) = Len(text)

(* The inductive invariant.  That the two trees are equal where the two    *)
(* sides stand is not enough: the decoder is behind, so that the trees it  *)
(* will have are those the encoder had, with the bits each of them gave.   *)
Alternation == (\E trees, cut : Agreed(trees, cut)) /\ Copied /\ Stages

(* A packet that begins has them.                                          *)
LEMMA AgreedFirst ==
  ASSUME HuffmanAssumption, text = <<>>, wire = <<>>, plain = <<>>, bitpos = 0,
         etree = Huff_PrepareTree, dtree = Huff_PrepareTree
  PROVE  (\E trees, cut : Agreed(trees, cut)) /\ Copied
<1> DEFINE trees == [i \in {0} |-> Huff_PrepareTree]
           cut == [i \in {0} |-> 0]
           none == <<>>
<1>1. trees[0] = Huff_PrepareTree /\ cut[0] = 0
  OBVIOUS
<1>2. Stable(Huff_PrepareTree, 1)
  BY PreparedStable
<1>3. none \in Seq(Byte) /\ none \in Seq({0, 1}) /\ Len(none) = 0
  OBVIOUS
<1>4. text = none /\ wire = none /\ plain = none
  OBVIOUS
<1> HIDE DEF trees, cut, none
<1>5. Sent(none, none, trees, cut)
  BY <1>1, <1>2, <1>3 DEF Sent
<1>6. Agreed(trees, cut)
  BY <1>1, <1>3, <1>4, <1>5 DEF Agreed
<1> QED BY <1>3, <1>4, <1>6 DEF Copied

(* It holds at first, ...                                                  *)
LEMMA AlternationInit ==
  ASSUME HuffmanAssumption, Init PROVE Alternation
<1>1. (\E trees, cut : Agreed(trees, cut)) /\ Copied
  BY AgreedFirst DEF Init
<1>2. Stages
  BY DEF Init, Stages
<1> QED BY <1>1, <1>2 DEF Alternation

(* ... and again when the next packet begins.                              *)
LEMMA AlternationNextPacket ==
  ASSUME HuffmanAssumption, Alternation, NextPacket PROVE Alternation'
<1>1. (\E trees, cut : Agreed(trees, cut)') /\ Copied'
  <2> DEFINE trees == [i \in {0} |-> Huff_PrepareTree]
             cut == [i \in {0} |-> 0]
             none == <<>>
  <2>1. trees[0] = Huff_PrepareTree /\ cut[0] = 0
    OBVIOUS
  <2>2. Stable(Huff_PrepareTree, 1)
    BY PreparedStable
  <2>3. none \in Seq(Byte) /\ none \in Seq({0, 1}) /\ Len(none) = 0
    OBVIOUS
  <2>4. /\ text' = none /\ wire' = none /\ plain' = none /\ bitpos' = 0
        /\ etree' = Huff_PrepareTree /\ dtree' = Huff_PrepareTree
    BY DEF NextPacket
  <2> HIDE DEF trees, cut, none
  <2>5. Sent(none, none, trees, cut)
    BY <2>1, <2>2, <2>3 DEF Sent
  <2>6. Agreed(trees, cut)'
    BY <2>1, <2>3, <2>4, <2>5 DEF Agreed
  <2> QED BY <2>3, <2>4, <2>6 DEF Copied
<1>2. Stages'
  BY DEF NextPacket, Stages
<1> QED BY <1>1, <1>2 DEF Alternation

(* The encoder adds a tree and a cut of the wire; those the decoder uses   *)
(* stay what they are.                                                     *)
LEMMA AlternationEncrypt ==
  ASSUME HuffmanAssumption, Alternation, NEW c \in Byte, EncryptByte(c) PROVE Alternation'
<1>1. PICK trees, cut : Agreed(trees, cut)
  BY DEF Alternation
<1> DEFINE n == Len(text)
           more == wire \o Huff_EmitByteDynamic(trees[n], c)
           u == Huff_AddReference(trees[n], c)
           trees2 == Longer(trees, n, u)
           end == Len(more)
           cut2 == Longer(cut, n, end)
           text2 == Append(text, c)
<1>2. /\ Sent(text, wire, trees, cut) /\ etree = trees[n]
      /\ dtree = trees[Len(plain)] /\ bitpos = cut[Len(plain)]
  BY <1>1 DEF Agreed
<1>3. Sent(text2, more, trees2, cut2)
  BY <1>2, SentLonger
<1>4. /\ text' = text2 /\ wire' = more /\ etree' = u
      /\ dtree' = dtree /\ bitpos' = bitpos /\ plain' = plain
      /\ stage = "encrypt" /\ stage' = IF c = NUL THEN "decrypt" ELSE stage
  BY <1>2 DEF EncryptByte
<1>5. plain = <<>> /\ (\A i \in 1..n : text[i] # NUL) /\ text \in Seq(Byte)
  BY <1>4 DEF Alternation, Stages
<1>6. /\ n \in Nat /\ Len(plain) = 0 /\ Len(text2) = n + 1 /\ text2 \in Seq(Byte)
      /\ text2[n + 1] = c /\ \A i \in 1..n : text2[i] = text[i]
  BY <1>5
<1>7. trees2[n + 1] = u /\ trees2[0] = trees[0] /\ cut2[0] = cut[0]
  <2> HIDE DEF u, n, end
  <2> QED BY <1>6 DEF Longer
<1> HIDE DEF n, more, u, trees2, end, cut2, text2
<1>8. PICK longer, cuts : longer = trees2 /\ cuts = cut2
  OBVIOUS
<1>9. Agreed(longer, cuts)'
  <2>1. Sent(text', wire', longer, cuts)
    BY <1>3, <1>4, <1>8
  <2>2. Len(text') = n + 1 /\ Len(plain') = 0
    BY <1>4, <1>6
  <2>3. etree' = longer[n + 1] /\ dtree' = longer[0] /\ bitpos' = cuts[0]
    BY <1>2, <1>4, <1>6, <1>7, <1>8 DEF u
  <2> QED BY <2>1, <2>2, <2>3 DEF Agreed
<1>10. Copied'
  BY <1>4, <1>5, <1>6 DEF Copied
<1>11. Stages'
  <2>1. CASE c = NUL
    <3>1. \A i \in 1..(Len(text2) - 1) : text2[i] # NUL
      BY <1>5, <1>6
    <3>2. Ended(text2)
      BY <1>6, <2>1, <3>1 DEF Ended
    <3>3. stage' = "decrypt"
      BY <1>4, <2>1
    <3> QED BY <1>4, <1>6, <3>2, <3>3 DEF Stages
  <2>2. CASE c # NUL
    <3>1. \A i \in 1..Len(text2) : text2[i] # NUL
      <4>1. \A i \in 1..Len(text2) : i = n + 1 \/ i \in 1..n
        BY <1>6
      <4> QED BY <1>5, <1>6, <2>2, <4>1
    <3>2. stage' = "encrypt"
      BY <1>4, <2>2
    <3> QED BY <1>4, <1>5, <1>6, <3>1, <3>2 DEF Stages
  <2> QED BY <2>1, <2>2
<1> QED BY <1>9, <1>10, <1>11 DEF Alternation

(* The decoder reads the byte its tree has sent, for its tree is the one   *)
(* that sent it, and adds it to that tree as the encoder did.              *)
LEMMA AlternationDecrypt ==
  ASSUME HuffmanAssumption, Alternation, DecryptByte PROVE Alternation'
<1>1. PICK trees, cut : Agreed(trees, cut)
  BY DEF Alternation
<1> DEFINE k == Len(plain)
           i == k + 1
           byte == text[i]
           code == Huff_EmitByteDynamic(trees[k], byte)
<1>2. /\ Sent(text, wire, trees, cut) /\ etree = trees[Len(text)]
      /\ dtree = trees[k] /\ bitpos = cut[k]
  BY <1>1 DEF Agreed
<1>3. /\ stage = "decrypt" /\ k < Len(text)
      /\ stage' = stage /\ text' = text /\ etree' = etree /\ wire' = wire
  BY DEF DecryptByte
<1>4. /\ text \in Seq(Byte) /\ plain \in Seq(Byte) /\ k \in Nat /\ Len(text) \in Nat
      /\ \A j \in 1..k : plain[j] = text[j]
  BY DEF Alternation, Stages, Copied
<1>5. i \in 1..Len(text) /\ i - 1 = k /\ byte \in Byte /\ k \in 0..Len(text)
  BY <1>3, <1>4
<1> HIDE DEF byte, k
<1>6. SentByte(text, wire, trees, cut, i) /\ \E N \in Nat : Stable(trees[k], N)
  BY <1>2, <1>5 DEF Sent
<1>7. trees[i] = Huff_AddReference(trees[k], byte) /\ Carries(wire, cut[k], cut[i], code)
  <2> HIDE DEF i
  <2> QED BY <1>5, <1>6 DEF SentByte, byte
<1> HIDE DEF code
<1>8. PICK N \in Nat : Stable(trees[k], N)
  BY <1>6
<1>9. Reads(dtree, wire, bitpos, byte, Len(code)) /\ cut[i] = bitpos + Len(code)
  <2>1. Reads(trees[k], wire, cut[k], byte, Len(code))
    BY <1>5, <1>7, <1>8, ByteDecodes DEF code
  <2>2. cut[i] = cut[k] + Len(code)
    BY <1>7 DEF Carries
  <2> QED BY <1>2, <2>1, <2>2
<1>10. /\ plain' = Append(plain, byte) /\ bitpos' = cut[i]
       /\ dtree' = Huff_AddReference(dtree, byte)
  <2> HIDE DEF i
  <2> QED BY <1>9 DEF DecryptByte, Reads
<1>11. /\ Len(plain') = i /\ plain' \in Seq(Byte) /\ plain'[i] = byte
       /\ \A j \in 1..k : plain'[j] = plain[j]
  BY <1>4, <1>5, <1>10 DEF k
<1> HIDE DEF i
<1>12. Agreed(trees, cut)'
  BY <1>2, <1>3, <1>7, <1>10, <1>11 DEF Agreed
<1>13. Copied'
  <2>1. ASSUME NEW j \in 1..i PROVE plain'[j] = text[j]
    <3>1. j = i \/ j \in 1..k
      BY <1>4, <1>5 DEF i
    <3> QED BY <1>4, <1>11, <3>1 DEF byte
  <2>2. i <= Len(text)
    BY <1>5
  <2> QED BY <1>3, <1>11, <2>1, <2>2 DEF Copied
<1>14. Stages'
  BY <1>3 DEF Alternation, Stages
<1> QED BY <1>12, <1>13, <1>14 DEF Alternation

(* The end of the packet changes nothing but the stage.                    *)
LEMMA AlternationDone ==
  ASSUME Alternation, DecryptDone PROVE Alternation'
<1>1. PICK trees, cut : Agreed(trees, cut)
  BY DEF Alternation
<1>2. Agreed(trees, cut)' /\ Copied' /\ Stages'
  BY <1>1 DEF Alternation, DecryptDone, Agreed, Copied, Stages
<1> QED BY <1>2 DEF Alternation

(* The trees of both ends go the same way, byte by byte.                   *)
LEMMA AlternationInvariant ==
  ASSUME HuffmanAssumption PROVE Spec => []Alternation
<1>1. Init => Alternation
  BY AlternationInit
<1>2. ASSUME Alternation, [Next]_vars PROVE Alternation'
  <2>1. ASSUME NEW c \in Byte, EncryptByte(c) PROVE Alternation'
    BY <1>2, <2>1, AlternationEncrypt
  <2>2. CASE DecryptByte
    BY <1>2, <2>2, AlternationDecrypt
  <2>3. CASE DecryptDone
    BY <1>2, <2>3, AlternationDone
  <2>4. CASE NextPacket
    BY <1>2, <2>4, AlternationNextPacket
  <2>5. CASE UNCHANGED vars
    <3>1. PICK trees, cut : Agreed(trees, cut)
      BY <1>2 DEF Alternation
    <3>2. Agreed(trees, cut)' /\ Copied' /\ Stages'
      BY <1>2, <2>5, <3>1 DEF Alternation, vars, Agreed, Copied, Stages
    <3> QED BY <3>2 DEF Alternation
  <2> QED BY <1>2, <2>1, <2>2, <2>3, <2>4, <2>5 DEF Next
<1> QED BY <1>1, <1>2, PTL DEF Spec

-----------------------------------------------------------------------------
(* The bytes expanded are the first of those compressed, and the string    *)
(* that is read is the one printed, but for bytes 255 (Huff_EncryptPacket, *)
(* Huff_DecryptPacket, MSG_ReadString), for every string, of any length.   *)
THEOREM StringArrivesInvariant == Spec => []StringArrives
<1>1. Spec => []Alternation
  BY AlternationInvariant, HuffmanAssumption
<1>2. ASSUME Alternation PROVE StringArrives
  <2>1. /\ plain \in Seq(Byte) /\ text \in Seq(Byte) /\ Len(plain) <= Len(text)
        /\ \A i \in 1..Len(plain) : plain[i] = text[i]
    BY <1>2 DEF Alternation, Copied, Stages
  <2>2. IsPrefix(plain, text)
    <3>1. SubSeq(plain, 1, Len(plain)) = SubSeq(text, 1, Len(plain))
      BY <2>1
    <3> QED BY <2>1, <3>1 DEF IsPrefix
  <2>3. ASSUME stage = "read"
        PROVE  MSG_ReadString(plain) = SelectSeq(Front(text), LAMBDA c : c # Skipped)
    <3>1. Ended(text) /\ Len(plain) = Len(text)
      BY <1>2, <2>3 DEF Alternation, Stages
    <3>2. plain = text
      BY <2>1, <3>1
    <3> QED BY <3>1, <3>2, ReadWhole
  <2> QED BY <2>2, <2>3 DEF StringArrives
<1> QED BY <1>1, <1>2, PTL

(* The test of the end of the packet never stops the loop before the       *)
(* length says so (Huff_DecryptPacket).                                    *)
NeverShort ==
  stage = "decrypt" /\ Len(plain) < Len(text) => 2 + bitpos \div Width <= InLen

(* The decoder never gives up before the length says so, for every string  *)
(* (Huff_DecryptPacket).                                                   *)
THEOREM NeverShortInvariant == Spec => []NeverShort
<1>1. Spec => []Alternation
  BY AlternationInvariant, HuffmanAssumption
<1>2. ASSUME Alternation PROVE NeverShort
  <2>1. PICK trees, cut : Agreed(trees, cut)
    BY <1>2 DEF Alternation
  <2>2. bitpos \in 0..Len(wire)
    <3>1. /\ \A i \in 0..Len(text) : cut[i] \in 0..Len(wire)
          /\ bitpos = cut[Len(plain)]
      BY <2>1 DEF Agreed, Sent
    <3>2. Len(plain) \in 0..Len(text)
      BY <1>2 DEF Alternation, Copied, Stages
    <3> QED BY <3>1, <3>2
  <2>3. Len(wire) \in Nat /\ Width \in Nat \ {0}
    BY <2>1, HuffmanAssumption DEF Agreed, Sent, HuffmanAssumption
  <2> DEFINE b == bitpos
             e == Len(wire)
  <2>4. b \div Width <= e \div Width
    BY <2>2, <2>3
  <2>5. b \div Width \in Int /\ e \div Width \in Int
    BY <2>2, <2>3
  <2> QED BY <2>4, <2>5 DEF NeverShort, InLen
<1> QED BY <1>1, <1>2, PTL

-----------------------------------------------------------------------------
(* The i-th node of the list is the one with place i.                      *)
InPlaces(list, N, pos) ==
  /\ list \in [1..N -> 1..N]
  /\ \A i \in 1..N : pos[list[i]] = i
  /\ \A n \in 1..N : pos[n] \in 1..N /\ list[pos[n]] = n

(* Going along next from the first node gives the nodes in their order.    *)
LEMMA ListPlaces ==
  ASSUME NEW N \in Nat, NEW t, NEW pos, InList(t, N, pos), 1 \in 1..N, pos[1] = 1
  PROVE  InPlaces(Along(t.next, First, N - 1), N, pos)
<1> DEFINE list == Along(t.next, First, N - 1)
           f == t.next
           S == 0..N
           size == N - 1
<1>1. \A n \in 1..N : /\ pos[n] \in 1..N
                      /\ \A m \in 1..N : pos[m] = pos[n] => m = n
                      /\ f[n] \in 0..N
                      /\ f[n] = 0 <=> pos[n] = N
                      /\ f[n] # 0 => pos[f[n]] = pos[n] + 1
  BY DEF InList, Order, Nil
<1>2. Follows(list, f, 1, size, S)
  <2>1. 1 \in S /\ 0 \in S /\ size \in Nat /\ \A m \in S : m # 0 => f[m] \in S
    BY <1>1
  <2> HIDE DEF S, f, size
  <2>2. Follows(Along(f, 1, size), f, 1, size, S)
    BY <2>1, AlongIs
  <2> QED BY <2>2 DEF f, size, First
<1> HIDE DEF list, f
<1>3. /\ list \in [1..N -> 0..N] /\ list[1] = 1
      /\ \A i \in 1..(N - 1) : list[i + 1] = IF list[i] = 0 THEN 0 ELSE f[list[i]]
  BY <1>2 DEF Follows
<1> DEFINE T == {k \in 0..(N - 1) : list[k + 1] # 0 /\ pos[list[k + 1]] = k + 1}
<1>4. 0 \in T
  BY <1>3
<1>5. ASSUME NEW k \in 1..(N - 1), k - 1 \in T PROVE k \in T
  <2> DEFINE m == list[k]
             q == list[k + 1]
  <2>1. m # 0 /\ pos[m] = k /\ m \in 1..N
    BY <1>3, <1>5
  <2>2. q = f[m]
    BY <1>3, <2>1
  <2>3. q # 0 /\ pos[q] = k + 1
    <3> HIDE DEF m, q
    <3> QED BY <1>1, <2>1, <2>2
  <2> QED BY <2>3
<1>6. \A k \in 0..(N - 1) : k \in T
  <2>1. N - 1 \in Nat
    OBVIOUS
  <2> HIDE DEF T
  <2> QED BY <1>4, <1>5, <2>1, InductionTo
<1>7. ASSUME NEW i \in 1..N PROVE list[i] \in 1..N /\ pos[list[i]] = i
  <2>1. i - 1 \in T /\ (i - 1) + 1 = i
    BY <1>6
  <2>2. list[i] # 0 /\ pos[list[i]] = i
    BY <2>1
  <2> QED BY <1>3, <2>2
<1>8. ASSUME NEW n \in 1..N PROVE pos[n] \in 1..N /\ list[pos[n]] = n
  <2>1. pos[n] \in 1..N
    BY <1>1
  <2>2. list[pos[n]] \in 1..N /\ pos[list[pos[n]]] = pos[n]
    BY <1>7, <2>1
  <2> QED BY <1>1, <2>1, <2>2
<1>9. list \in [1..N -> 1..N]
  BY <1>3, <1>7
<1> QED BY <1>7, <1>8, <1>9 DEF InPlaces, list

(* The free cells are those with a rank, and the list has them all.        *)
LEMMA ChainCells ==
  ASSUME NEW L \in Nat, NEW head, NEW cells \in Seq(Nat), Len(cells) = L,
         NEW free, NEW S, NEW rank, NEW R, Chain(head, cells, free, S, rank, R)
  PROVE  ToSet(Along(cells, free, L)) \ {0} = {c \in 1..L : rank[c] # 0}
<1> DEFINE w == Along(cells, free, L)
           F == {c \in 1..L : rank[c] # 0}
           Z == {0} \cup F
<1>1. /\ R \in Nat /\ free \in 0..L
      /\ free = 0 <=> R = 0
      /\ free # 0 => rank[free] = R
      /\ \A c \in 1..L :
           /\ rank[c] \in 0..R
           /\ \A d \in 1..L : rank[c] = rank[d] /\ rank[c] # 0 => c = d
           /\ rank[c] = 1 => cells[c] = 0
           /\ rank[c] > 1 => cells[c] \in 1..L /\ rank[cells[c]] = rank[c] - 1
  BY DEF Chain, Nil
<1>2. free \in Z
  BY <1>1
<1>3. \A m \in Z : m # 0 => cells[m] \in Z
  <2>1. SUFFICES ASSUME NEW m \in F PROVE cells[m] \in Z
    OBVIOUS
  <2>2. rank[m] \in 0..R /\ rank[m] # 0 /\ m \in 1..L
    BY <1>1
  <2>3. CASE rank[m] = 1
    BY <1>1, <2>2, <2>3
  <2>4. CASE rank[m] > 1
    <3> DEFINE c == cells[m]
    <3>1. c \in 1..L /\ rank[c] = rank[m] - 1
      BY <1>1, <2>2, <2>4
    <3>2. rank[c] # 0
      BY <2>2, <2>4, <3>1
    <3> QED BY <3>1, <3>2
  <2>5. rank[m] = 1 \/ rank[m] > 1
    BY <1>1, <2>2
  <2> QED BY <2>3, <2>4, <2>5
<1>4. Follows(w, cells, free, L, Z)
  <2>1. 0 \in Z
    OBVIOUS
  <2> HIDE DEF Z
  <2> QED BY <1>2, <1>3, <2>1, AlongIs
<1> HIDE DEF w
<1>5. /\ w \in [1..(L + 1) -> Z] /\ w[1] = free
      /\ \A i \in 1..L : w[i + 1] = IF w[i] = 0 THEN 0 ELSE cells[w[i]]
  BY <1>4 DEF Follows
(* After k steps the rank is k less.                                       *)
<1> DEFINE T == {k \in 0..L : k < R => w[k + 1] # 0 /\ rank[w[k + 1]] = R - k}
<1>6. 0 \in T
  BY <1>1, <1>5
<1>7. ASSUME NEW k \in 1..L, k - 1 \in T PROVE k \in T
  <2>1. SUFFICES ASSUME k < R PROVE w[k + 1] # 0 /\ rank[w[k + 1]] = R - k
    OBVIOUS
  <2> DEFINE m == w[k]
             q == w[k + 1]
  <2>2. m # 0 /\ rank[m] = R - (k - 1)
    BY <1>1, <1>7, <2>1
  <2>3. m \in 1..L
    BY <1>5, <2>2
  <2>4. q = cells[m]
    BY <1>5, <2>2
  <2>5. rank[m] > 1 /\ rank[m] - 1 = R - k
    BY <1>1, <2>1, <2>2
  <2> HIDE DEF m, q
  <2>6. q \in 1..L /\ rank[q] = R - k
    BY <1>1, <2>3, <2>4, <2>5
  <2> QED BY <2>6 DEF q
<1>8. \A k \in 0..L : k < R => w[k + 1] # 0 /\ rank[w[k + 1]] = R - k
  <2>1. \A k \in 0..L : k \in T
    <3> HIDE DEF T
    <3> QED BY <1>6, <1>7, InductionTo
  <2> QED BY <2>1
<1>9. R <= L
  <2>1. SUFFICES ASSUME R > L PROVE FALSE
    BY <1>1
  <2> DEFINE A == 1..(L + 1)
             B == 1..L
  <2>2. \A i \in A : w[i] \in B /\ rank[w[i]] = R - (i - 1)
    <3>1. SUFFICES ASSUME NEW i \in A PROVE w[i] \in B /\ rank[w[i]] = R - (i - 1)
      OBVIOUS
    <3>2. i - 1 \in 0..L /\ (i - 1) + 1 = i /\ i - 1 < R
      BY <1>1, <2>1
    <3>3. w[i] # 0 /\ rank[w[i]] = R - (i - 1)
      BY <1>8, <3>2
    <3> QED BY <1>5, <3>3
  <2>3. w \in [A -> B]
    BY <1>5, <2>2
  <2>4. IsFiniteSet(A) /\ IsFiniteSet(B) /\ Cardinality(B) < Cardinality(A)
    <3>1. 1 \in Int /\ L \in Int /\ L + 1 \in Int
      OBVIOUS
    <3>2. IsFiniteSet(1..L) /\ Cardinality(1..L) = IF 1 > L THEN 0 ELSE L - 1 + 1
      BY <3>1, FS_Interval
    <3>3. IsFiniteSet(1..(L + 1)) /\ Cardinality(1..(L + 1)) = IF 1 > L + 1 THEN 0 ELSE (L + 1) - 1 + 1
      BY <3>1, FS_Interval
    <3> QED BY <3>2, <3>3
  <2>5. PICK x, y \in A : x # y /\ w[x] = w[y]
    <3> HIDE DEF A, B
    <3> QED BY <2>3, <2>4, FS_PigeonHole
  <2>6. R - (x - 1) = R - (y - 1)
    BY <2>2, <2>5
  <2> QED BY <1>1, <2>5, <2>6
<1>10. \A c \in F : \E i \in 1..(L + 1) : w[i] = c
  <2>1. SUFFICES ASSUME NEW c \in F PROVE \E i \in 1..(L + 1) : w[i] = c
    OBVIOUS
  <2> DEFINE k == R - rank[c]
  <2>2. c \in 1..L /\ rank[c] \in 1..R
    BY <1>1
  <2>3. k \in 0..L /\ k < R /\ R - k = rank[c] /\ k + 1 \in 1..(L + 1)
    <3> DEFINE r == rank[c]
    <3> HIDE DEF r
    <3>1. r \in 1..R /\ R \in Nat /\ R <= L
      BY <1>1, <1>9, <2>2 DEF r
    <3>2. R - r \in 0..L /\ R - r < R /\ R - (R - r) = r /\ (R - r) + 1 \in 1..(L + 1)
      BY <3>1
    <3> QED BY <3>2 DEF r
  <2>4. w[k + 1] # 0 /\ rank[w[k + 1]] = rank[c]
    <3> HIDE DEF k
    <3> QED BY <1>8, <2>3
  <2>5. w[k + 1] \in 1..L
    BY <1>5, <2>3, <2>4
  <2>6. w[k + 1] = c
    BY <1>1, <2>2, <2>4, <2>5
  <2> QED BY <2>3, <2>6
<1>11. ToSet(w) = {w[i] : i \in 1..(L + 1)}
  BY <1>5 DEF ToSet
<1>12. ToSet(w) \ {0} = F
  <2>1. \A x \in ToSet(w) \ {0} : x \in F
    BY <1>5, <1>11
  <2>2. \A c \in F : c \in ToSet(w) /\ c # 0
    BY <1>10, <1>11
  <2> HIDE DEF F
  <2> QED BY <2>1, <2>2
<1> QED BY <1>12 DEF w

(* A tree between two bytes is in order.                                   *)
LEMMA StableInOrder ==
  ASSUME HuffmanAssumption, NEW N \in Nat, NEW t, Stable(t, N)
  PROVE  InOrder(t)
<1>1. PICK pos : Growing(t, N, pos, Nil)
  BY DEF Stable
<1> DEFINE list == Along(t.next, First, N - 1)
           L == Len(t.cells)
           free == ToSet(Along(t.cells, t.free, L)) \ {0}
           used == {t.head[n] : n \in 2..N}
<1>2. /\ t \in TreeOf(N) /\ InList(t, N, pos) /\ Sorted(t.freq, pos, N)
      /\ Holds(t.head, t.cells, t.freq, 2..N, pos)
  BY <1>1 DEF Growing, Listed, InCells
<1>3. PICK rank, R : Chain(t.head, t.cells, t.free, 2..N, rank, R)
  BY <1>1 DEF Growing, Listed, InCells
<1>4. 1 \in 1..N /\ pos[1] = 1
  BY <1>1, GrowingPlaced DEF Placed
<1>5. Len(t.symbol) = N
  <2>1. t.symbol \in [1..N -> Nat]
    BY <1>2 DEF TreeOf
  <2> QED BY <2>1
<1>6. InPlaces(list, N, pos)
  BY <1>2, <1>4, ListPlaces
<1>7. t.cells \in Seq(Nat) /\ L \in Nat
  BY <1>2 DEF TreeOf
<1>8. free = {c \in 1..L : rank[c] # 0}
  BY <1>3, <1>7, ChainCells
<1> HIDE DEF list, free, L
<1>9. /\ list \in [1..N -> 1..N]
      /\ \A i \in 1..N : pos[list[i]] = i
      /\ \A n \in 1..N : pos[n] \in 1..N /\ list[pos[n]] = n
  BY <1>6 DEF InPlaces
<1>10. ToSet(list) = 1..N
  <2>1. ToSet(list) = {list[i] : i \in 1..N}
    BY <1>9 DEF ToSet
  <2> QED BY <1>9, <2>1
<1>11. ASSUME NEW i \in 2..N
       PROVE  /\ t.prev[list[i]] = list[i - 1]
              /\ t.freq[list[i - 1]] <= t.freq[list[i]]
  <2> DEFINE n == list[i]
             m == list[i - 1]
  <2>1. n \in 1..N /\ m \in 1..N /\ pos[n] = i /\ pos[m] = i - 1
    BY <1>9
  <2> HIDE DEF n, m
  <2>2. t.prev[n] \in 1..N /\ pos[t.prev[n]] = i - 1
    BY <1>2, <2>1 DEF InList, Order, Nil
  <2>3. t.prev[n] = m
    BY <1>2, <2>1, <2>2 DEF InList, Order
  <2>4. t.freq[m] <= t.freq[n]
    BY <1>2, <2>1 DEF Sorted
  <2> QED BY <2>3, <2>4 DEF n, m
<1>12. \A n \in 2..N : /\ t.head[n] \in 1..L
                       /\ Cell(t, n) \in 2..N /\ t.freq[Cell(t, n)] = t.freq[n]
                       /\ \A m \in 2..N : t.freq[m] = t.freq[n] =>
                            t.head[m] = t.head[n] /\ pos[m] <= pos[Cell(t, n)]
  BY <1>2 DEF Holds, Cell, L
<1>13. ASSUME NEW i \in 2..N
       PROVE  \E j \in i..N : /\ list[j] = Cell(t, list[i])
                              /\ t.freq[list[j]] = t.freq[list[i]]
                              /\ j < N => t.freq[list[j + 1]] # t.freq[list[j]]
  <2> DEFINE n == list[i]
             c == Cell(t, n)
             j == pos[c]
  <2>1. n \in 2..N /\ pos[n] = i
    <3>1. n \in 1..N /\ pos[n] = i
      BY <1>9
    <3> QED BY <1>4, <3>1
  <2> HIDE DEF n
  <2>2. c \in 2..N /\ t.freq[c] = t.freq[n] /\ pos[n] <= pos[c]
    BY <1>12, <2>1
  <2> HIDE DEF c
  <2>3. j \in i..N /\ list[j] = c
    <3>1. c \in 1..N
      BY <2>2
    <3>2. pos[c] \in 1..N /\ list[pos[c]] = c
      BY <1>9, <3>1
    <3>3. i <= pos[c]
      BY <2>1, <2>2
    <3> QED BY <3>2, <3>3
  <2>4. ASSUME j < N PROVE t.freq[list[j + 1]] # t.freq[list[j]]
    <3> DEFINE m == list[j + 1]
    <3>1. j + 1 \in 1..N /\ j + 1 # 1
      BY <2>3, <2>4
    <3>2. m \in 1..N /\ pos[m] = j + 1
      <4> HIDE DEF j
      <4> QED BY <1>9, <3>1
    <3>3. m \in 2..N
      BY <1>4, <3>1, <3>2
    <3>4. ~ (pos[m] <= pos[c])
      BY <2>3, <3>2
    <3> HIDE DEF m
    <3>5. t.freq[m] # t.freq[n]
      BY <1>12, <2>1, <3>3, <3>4 DEF c
    <3> QED BY <2>2, <2>3, <3>5 DEF m
  <2> QED BY <2>2, <2>3, <2>4 DEF n, c
<1>14. ASSUME NEW m \in 2..N, NEW n \in 2..N
       PROVE  t.freq[m] = t.freq[n] <=> t.head[m] = t.head[n]
  <2>1. t.freq[m] = t.freq[n] => t.head[m] = t.head[n]
    BY <1>12
  <2>2. ASSUME t.head[m] = t.head[n] PROVE t.freq[m] = t.freq[n]
    <3>1. Cell(t, m) = Cell(t, n)
      BY <2>2 DEF Cell
    <3> QED BY <1>12, <3>1
  <2> QED BY <2>1, <2>2
<1>15. used \cap free = {} /\ used \cup free = DOMAIN t.cells
  <2>1. DOMAIN t.cells = 1..L
    BY <1>7 DEF L
  <2>2. \A c \in 1..L : rank[c] = 0 <=> \E n \in 2..N : t.head[n] = c
    BY <1>3 DEF Chain, L
  <2>3. \A c \in 1..L : c \in used <=> rank[c] = 0
    BY <2>2
  <2>4. \A c \in used : c \in 1..L
    BY <1>12
  <2> HIDE DEF used
  <2> QED BY <1>8, <2>1, <2>3, <2>4
<1> HIDE DEF used
<1> QED
  <2>1. list = Along(t.next, First, N - 1) /\ used = {t.head[n] : n \in 2..N}
        /\ free = ToSet(Along(t.cells, t.free, Len(t.cells))) \ {Nil}
    BY DEF list, used, free, L, Nil
  <2> QED BY <1>5, <1>10, <1>11, <1>13, <1>14, <1>15, <2>1 DEF InOrder

(* The lists of both trees are in order after each byte (Huff_AddReference, *)
(* Huff_IncrementFreq_r).                                                  *)
THEOREM TreesInOrderInvariant == Spec => []TreesInOrder
<1>1. Spec => []Alternation
  BY AlternationInvariant, HuffmanAssumption
<1>2. ASSUME Alternation PROVE TreesInOrder
  <2>1. PICK trees, cut : Agreed(trees, cut)
    BY <1>2 DEF Alternation
  <2>2. /\ etree = trees[Len(text)] /\ dtree = trees[Len(plain)]
        /\ \A i \in 0..Len(text) : \E N \in Nat : Stable(trees[i], N)
    BY <2>1 DEF Agreed, Sent
  <2>3. Len(plain) \in 0..Len(text) /\ Len(text) \in 0..Len(text)
    BY <1>2 DEF Alternation, Copied, Stages
  <2>4. (\E N \in Nat : Stable(etree, N)) /\ \E N \in Nat : Stable(dtree, N)
    BY <2>2, <2>3
  <2> QED BY <2>4, StableInOrder, HuffmanAssumption DEF TreesInOrder
<1> QED BY <1>1, <1>2, PTL

-----------------------------------------------------------------------------
(* The table of challenges.                                                *)
USE TableAssumption

TableInv == TypeOK /\ OneSlotPerAddress /\ UnusedAreOldest

SlotType == [adr : Client \cup {NoAddr}, challenge : ChallengeValue,
             time : 0..now, proto : Protos \cup {"qw"}]

-----------------------------------------------------------------------------
(* The indices are the MaxChallenges numbers from 0.                       *)
LEMMA Indices ==
  /\ Index \subseteq Nat
  /\ MaxChallenges \notin Index
  /\ 0 \in Index
  /\ IsFiniteSet(Index) /\ Cardinality(Index) = MaxChallenges
<1>1. Index \subseteq Nat /\ MaxChallenges \notin Index /\ 0 \in Index
  BY DEF Index
<1>2. 0 \in Int /\ MaxChallenges - 1 \in Int /\ ~ 0 > MaxChallenges - 1
  OBVIOUS
<1>3. /\ IsFiniteSet(0..(MaxChallenges - 1))
      /\ Cardinality(0..(MaxChallenges - 1)) = (MaxChallenges - 1) - 0 + 1
  BY <1>2, FS_Interval
<1> QED
  BY <1>1, <1>3 DEF Index

(* The scan for an address finds the address's slot if it has one.         *)
LEMMA Scan ==
  ASSUME OneSlotPerAddress, NEW a \in Client
  PROVE  /\ \A i \in Index : slots[i].adr = a => FindChallengeForAddr(a) = i
         /\ FindChallengeForAddr(a) < MaxChallenges
              => /\ FindChallengeForAddr(a) \in Index
                 /\ slots[FindChallengeForAddr(a)].adr = a
         /\ FindChallengeForAddr(a) = MaxChallenges
              => \A i \in Index : slots[i].adr # a
<1> DEFINE found == {i \in Index : slots[i].adr = a}
<1>1. CASE found = {}
  BY <1>1 DEF FindChallengeForAddr
<1>2. CASE found # {}
  <2>1. PICK i \in found : TRUE
    BY <1>2
  <2>2. found = {i}
    BY <2>1 DEF OneSlotPerAddress
  <2>3. FindChallengeForAddr(a) = CHOOSE k \in {i} : \A j \in {i} : k <= j
    BY <2>2 DEF FindChallengeForAddr
  <2>4. i <= i
    BY <2>1, Indices
  <2>5. FindChallengeForAddr(a) = i
    BY <2>3, <2>4
  <2> QED
    BY <2>1, <2>2, <2>5, Indices
<1> QED
  BY <1>1, <1>2

-----------------------------------------------------------------------------
(* The zeroed array satisfies the invariant.                               *)
LEMMA Initially == TableInit => TableInv
  BY DEF TableInit, TableInv, TypeOK, OneSlotPerAddress, UnusedAreOldest, ChallengeValue,
         NoChallenge

(* What a request of an address with a slot does to the array.             *)
LEMMA Known ==
  ASSUME TableInv, NEW a \in Client, NEW proto \in Protos,
         NEW forced \in SUBSET ChallengeValue, KnownAddress(a, proto, forced)
  PROVE  \E i \in Index, n \in ChallengeValue :
           /\ slots[i].adr = a
           /\ n \in IF forced = {} THEN {slots[i].challenge} ELSE forced
           /\ slots' = [slots EXCEPT ![i] =
                          [adr |-> a, challenge |-> n,
                           time |-> slots[i].time, proto |-> proto]]
           /\ UNCHANGED now
<1> DEFINE i == FindChallengeForAddr(a)
<1>1. i \in Index /\ slots[i].adr = a
  BY Scan DEF KnownAddress, TableInv
<1>2. PICK n \in IF forced = {} THEN {slots[i].challenge} ELSE forced :
        slots' = [slots EXCEPT ![i] = [adr |-> a, challenge |-> n,
                                       time |-> slots[i].time, proto |-> proto]]
  BY DEF KnownAddress
<1>3. n \in ChallengeValue
  BY <1>1, <1>2 DEF TableInv, TypeOK
<1> QED
  BY <1>1, <1>2, <1>3 DEF KnownAddress

(* What a request of an address without a slot does to the array.          *)
LEMMA New ==
  ASSUME TableInv, NEW a \in Client, NEW proto \in Protos,
         NEW forced \in SUBSET ChallengeValue, NewAddress(a, proto, forced)
  PROVE  \E i \in Index, n \in ChallengeValue :
           /\ \A j \in Index : slots[j].adr # a
           /\ IsOldest(i)
           /\ n \in IF forced = {} THEN Challenge ELSE forced
           /\ slots' = [slots EXCEPT ![i] =
                          [adr |-> a, challenge |-> n,
                           time |-> now, proto |-> proto]]
           /\ UNCHANGED now
<1>1. \A j \in Index : slots[j].adr # a
  BY Scan DEF NewAddress, TableInv
<1> QED
  BY <1>1 DEF NewAddress, ChallengeValue

(* Every step keeps the invariant.                                         *)
LEMMA Inductive == TableInv /\ [TableNext]_tableVars => TableInv'
<1> SUFFICES ASSUME TableInv, [TableNext]_tableVars PROVE TableInv'
  OBVIOUS
<1>0. slots \in [Index -> SlotType] /\ now \in Nat \ {0}
  BY DEF TableInv, TypeOK, SlotType
<1>1. ASSUME NEW a \in Client, NEW proto \in Protos,
             NEW forced \in SUBSET ChallengeValue, KnownAddress(a, proto, forced)
      PROVE  TableInv'
  <2>1. PICK i \in Index, n \in ChallengeValue :
          /\ slots[i].adr = a
          /\ slots' = [slots EXCEPT ![i] =
                         [adr |-> a, challenge |-> n,
                          time |-> slots[i].time, proto |-> proto]]
          /\ UNCHANGED now
    BY <1>1, Known
  <2>2. TypeOK'
    BY <1>0, <2>1 DEF TableInv, TypeOK, SlotType
  <2>3. OneSlotPerAddress'
    BY <1>0, <2>1 DEF TableInv, OneSlotPerAddress, SlotType
  <2>4. UnusedAreOldest'
    BY <1>0, <2>1 DEF TableInv, UnusedAreOldest, SlotType
  <2> QED
    BY <2>2, <2>3, <2>4 DEF TableInv
<1>2. ASSUME NEW a \in Client, NEW proto \in Protos,
             NEW forced \in SUBSET ChallengeValue, NewAddress(a, proto, forced)
      PROVE  TableInv'
  <2>1. PICK i \in Index, n \in ChallengeValue :
          /\ \A j \in Index : slots[j].adr # a
          /\ slots' = [slots EXCEPT ![i] =
                         [adr |-> a, challenge |-> n,
                          time |-> now, proto |-> proto]]
          /\ UNCHANGED now
    BY <1>2, New
  <2>2. TypeOK'
    <3>1. slots' \in [Index -> SlotType]
      BY <1>0, <2>1 DEF SlotType
    <3> QED
      BY <1>0, <2>1, <3>1 DEF TypeOK, SlotType
  <2>3. OneSlotPerAddress'
    BY <1>0, <2>1 DEF TableInv, OneSlotPerAddress, SlotType
  <2>4. UnusedAreOldest'
    BY <1>0, <2>1 DEF TableInv, UnusedAreOldest, SlotType
  <2> QED
    BY <2>2, <2>3, <2>4 DEF TableInv
<1>3. CASE Tick
  <2>1. TypeOK'
    <3>1. now' \in Nat \ {0} /\ 0..now \subseteq 0..now'
      BY <1>0, <1>3 DEF Tick
    <3>2. slots' \in [Index -> SlotType]
      BY <1>0, <1>3 DEF Tick
    <3> QED
      BY <1>3, <3>1, <3>2 DEF Tick, TableInv, TypeOK, SlotType
  <2> QED
    BY <1>3, <2>1 DEF Tick, TableInv, OneSlotPerAddress, UnusedAreOldest
<1>4. CASE UNCHANGED tableVars
  BY <1>4 DEF tableVars, TableInv, TypeOK, OneSlotPerAddress, UnusedAreOldest
<1>5. ASSUME NEW a \in Client, NEW proto \in Protos, SVC_GetChallenge(a, proto)
      PROVE  TableInv'
  BY <1>1, <1>2, <1>5 DEF SVC_GetChallenge
<1> QED
  BY <1>3, <1>4, <1>5 DEF TableNext

(* The invariant holds in every state.                                     *)
THEOREM Invariance == TableSpec => []TableInv
  BY Initially, Inductive, PTL DEF TableSpec

(* Type correctness; in particular the search always leaves an index of    *)
(* the array in `oldest' (SVC_GetChallenge).                               *)
THEOREM TypeCorrect == TableSpec => []TypeOK
<1>1. TableInv => TypeOK
  BY DEF TableInv
<1> QED
  BY <1>1, Invariance, PTL

(* An address never owns two slots (SVC_GetChallenge, FindChallengeForAddr). *)
THEOREM OneSlot == TableSpec => []OneSlotPerAddress
<1>1. TableInv => OneSlotPerAddress
  BY DEF TableInv
<1> QED
  BY <1>1, Invariance, PTL

-----------------------------------------------------------------------------
(* What the search leaves in `oldest' while the clock is below 0x7fffffff, *)
(* and, at any time, that a slot in use is only taken in a full table.     *)
LEMMA Oldest ==
  ASSUME TableInv, NEW i \in Index, IsOldest(i)
  PROVE  /\ slots[i].adr # NoAddr => \A j \in Index : slots[j].adr # NoAddr
         /\ now < OldestTime => \A j \in Index : slots[i].time <= slots[j].time
<1> DEFINE past == {j \in Index : slots[j].time < OldestTime}
<1>1. \A j \in Index : slots[j].time \in 0..now
  BY DEF TableInv, TypeOK
<1>2. now \in Nat
  BY DEF TableInv, TypeOK
<1>3. ASSUME NEW j \in Index, slots[j].adr = NoAddr
      PROVE  slots[i].time = 0
  <2>1. slots[j].time = 0 /\ j \in past
    BY <1>3 DEF TableInv, UnusedAreOldest
  <2>2. slots[i].time <= 0
    BY <2>1, <1>1 DEF IsOldest
  <2> QED
    BY <2>2, <1>1
<1>4. ASSUME now < OldestTime, NEW j \in Index
      PROVE  slots[i].time <= slots[j].time
  <2>1. j \in past
    BY <1>1, <1>2, <1>4
  <2> QED
    BY <1>1, <2>1 DEF IsOldest
<1> QED
  BY <1>3, <1>4 DEF TableInv, UnusedAreOldest

(* The table has a slot to spare exactly as long as it has fewer owners    *)
(* than slots.                                                             *)
LEMMA Spare ==
  ASSUME TableInv
  PROVE  Cardinality(Owned) < MaxChallenges
           <=> \E i \in Index : slots[i].adr = NoAddr
<1> DEFINE used == {i \in Index : slots[i].adr # NoAddr}
           f == [i \in used |-> slots[i].adr]
<1>1. /\ used \subseteq Index
      /\ IsFiniteSet(used) /\ Cardinality(used) \in Nat
      /\ Cardinality(used) <= MaxChallenges
      /\ Cardinality(used) = MaxChallenges => used = Index
  <2>1. used \in SUBSET Index
    OBVIOUS
  <2> QED
    BY <2>1, Indices, FS_Subset, FS_CardinalityType
<1>2. f \in Surjection(used, Owned)
  BY DEF Owned, Surjection
<1>3. f \in Injection(used, Owned)
  <2>1. f \in [used -> Owned]
    BY DEF Owned
  <2>2. ASSUME NEW i \in used, NEW j \in used, f[i] = f[j]
        PROVE  i = j
    BY <2>2 DEF TableInv, OneSlotPerAddress
  <2> QED
    BY <2>1, <2>2 DEF Injection, IsInjective
<1>4. Cardinality(Owned) = Cardinality(used)
  BY <1>1, <1>2, <1>3, FS_Surjection
<1>5. CASE used = Index
  BY <1>4, <1>5, Indices
<1>6. CASE used # Index
  BY <1>1, <1>4, <1>6
<1> QED
  BY <1>5, <1>6

(* The instance counts its owners as this module does.                     *)
LEMMA SameCount == ASSUME NEW S PROVE Store!Cardinality(S) = Cardinality(S)
  BY DEF Store!Cardinality, Cardinality

(* StoreOf maps the owner of a slot to what is in the slot.                *)
StoreIsSlots ==
  /\ DOMAIN StoreOf = Owned
  /\ StoreOf = [a \in Owned |-> StoreOf[a]]
  /\ \A i \in Index :
       slots[i].adr # NoAddr =>
         StoreOf[slots[i].adr] = [challenge |-> slots[i].challenge,
                                  proto     |-> slots[i].proto]

(* In the states of the array, StoreOf is what StoreIsSlots says.          *)
LEMMA StoreShape == TableInv => StoreIsSlots
<1> SUFFICES ASSUME TableInv PROVE StoreIsSlots
  OBVIOUS
<1>1. ASSUME NEW i \in Index, slots[i].adr # NoAddr
      PROVE  StoreOf[slots[i].adr] = [challenge |-> slots[i].challenge,
                                      proto     |-> slots[i].proto]
  <2>1. slots[i].adr \in Client /\ slots[i].adr \in Owned
    BY <1>1 DEF TableInv, TypeOK, Owned
  <2>2. FindChallengeForAddr(slots[i].adr) = i
    BY <2>1, Scan DEF TableInv
  <2> QED
    BY <2>1, <2>2 DEF StoreOf
<1> QED
  BY <1>1 DEF StoreIsSlots, StoreOf

(* And so it is after a step.                                              *)
LEMMA StoreShapeNext == TableInv' => StoreIsSlots'
  BY StoreShape, PTL

(* An answer to an address that has a slot is an answer of the store.      *)
LEMMA KnownAnswers ==
  ASSUME TableInv, TableInv', NEW a \in Client, NEW proto \in Protos,
         NEW forced \in SUBSET ChallengeValue, KnownAddress(a, proto, forced)
  PROVE  StoreOf' \in Store!Answers(StoreOf, a, proto, forced)
<1>1. PICK i \in Index, n \in ChallengeValue :
        /\ slots[i].adr = a
        /\ n \in IF forced = {} THEN {slots[i].challenge} ELSE forced
        /\ slots' = [slots EXCEPT ![i] =
                       [adr |-> a, challenge |-> n,
                        time |-> slots[i].time, proto |-> proto]]
  BY Known
<1>2. StoreIsSlots /\ StoreIsSlots'
  BY StoreShape, StoreShapeNext
<1>3. slots \in [Index -> SlotType] /\ a # NoAddr
  BY DEF TableInv, TypeOK, SlotType
<1>4. \A j \in Index : slots'[j].adr = slots[j].adr
  BY <1>1, <1>3
<1>5. Owned' = Owned /\ a \in Owned
  BY <1>1, <1>3, <1>4 DEF Owned
<1>6. StoreOf[a].challenge = slots[i].challenge
  <2>1. StoreOf[a] = [challenge |-> slots[i].challenge, proto |-> slots[i].proto]
    BY <1>1, <1>2, <1>3 DEF StoreIsSlots
  <2> QED
    BY <2>1
<1>7. ASSUME NEW b \in Owned
      PROVE  StoreOf'[b] = IF b = a THEN [challenge |-> n, proto |-> proto]
                                    ELSE StoreOf[b]
  <2>1. PICK j \in Index : slots[j].adr = b /\ b # NoAddr
    BY DEF Owned
  <2>2. StoreOf'[b] = [challenge |-> slots'[j].challenge, proto |-> slots'[j].proto]
    BY <1>2, <1>4, <2>1 DEF StoreIsSlots
  <2>3. CASE b = a
    <3>1. j = i
      BY <1>1, <1>3, <2>1, <2>3 DEF TableInv, OneSlotPerAddress
    <3> QED
      BY <1>1, <1>3, <2>2, <2>3, <3>1
  <2>4. CASE b # a
    <3>1. slots'[j] = slots[j]
      BY <1>1, <1>3, <2>1, <2>4
    <3> QED
      BY <1>2, <2>1, <2>2, <2>4, <3>1 DEF StoreIsSlots
  <2> QED
    BY <2>3, <2>4
<1>8. StoreOf' = [b \in Owned |-> IF b = a THEN [challenge |-> n, proto |-> proto]
                                           ELSE StoreOf[b]]
  BY <1>2, <1>5, <1>7 DEF StoreIsSlots
<1>9. Owned \in Store!Owners(StoreOf, a)
  BY <1>2, <1>5 DEF StoreIsSlots, Store!Owners
<1>10. n \in IF forced # {} THEN forced
             ELSE IF a \in DOMAIN StoreOf THEN {StoreOf[a].challenge}
             ELSE Challenge
  BY <1>1, <1>2, <1>5, <1>6 DEF StoreIsSlots
<1> QED
  BY <1>8, <1>9, <1>10 DEF Store!Answers

(* An answer to an address that has none is an answer of the store.        *)
LEMMA NewAnswers ==
  ASSUME TableInv, TableInv', NEW a \in Client, NEW proto \in Protos,
         NEW forced \in SUBSET ChallengeValue, NewAddress(a, proto, forced)
  PROVE  StoreOf' \in Store!Answers(StoreOf, a, proto, forced)
<1>1. PICK i \in Index, n \in ChallengeValue :
        /\ \A j \in Index : slots[j].adr # a
        /\ IsOldest(i)
        /\ n \in IF forced = {} THEN Challenge ELSE forced
        /\ slots' = [slots EXCEPT ![i] =
                       [adr |-> a, challenge |-> n,
                        time |-> now, proto |-> proto]]
  BY New
<1>2. StoreIsSlots /\ StoreIsSlots'
  BY StoreShape, StoreShapeNext
<1>3. slots \in [Index -> SlotType] /\ a # NoAddr
  BY DEF TableInv, TypeOK, SlotType
<1>4. a \notin Owned
  BY <1>1 DEF Owned
<1>5. slots'[i] = [adr |-> a, challenge |-> n, time |-> now, proto |-> proto]
  BY <1>1, <1>3
<1>6. \A j \in Index \ {i} : slots'[j] = slots[j] /\ slots'[j].adr # a
  BY <1>1, <1>3
<1>7. Owned' = (Owned \ {slots[i].adr}) \cup {a}
  <2>1. \A b : b \in Owned' <=> b # NoAddr /\ \E j \in Index : slots'[j].adr = b
    BY DEF Owned
  <2>2. \A b : b \in Owned <=> b # NoAddr /\ \E j \in Index : slots[j].adr = b
    BY DEF Owned
  <2>3. \A j \in Index : slots[j].adr = slots[i].adr /\ slots[i].adr # NoAddr => j = i
    BY DEF TableInv, OneSlotPerAddress
  <2>4. slots'[i].adr = a
    BY <1>5
  <2>5. \A j \in Index \ {i} : slots'[j].adr = slots[j].adr
    BY <1>6
  <2> QED
    BY <1>3, <2>1, <2>2, <2>3, <2>4, <2>5
<1>8. ASSUME NEW b \in Owned'
      PROVE  StoreOf'[b] = IF b = a THEN [challenge |-> n, proto |-> proto]
                                    ELSE StoreOf[b]
  <2>1. PICK j \in Index : slots'[j].adr = b /\ b # NoAddr
    BY DEF Owned
  <2>2. StoreOf'[b] = [challenge |-> slots'[j].challenge, proto |-> slots'[j].proto]
    BY <1>2, <2>1 DEF StoreIsSlots
  <2>3. CASE b = a
    BY <1>5, <1>6, <2>1, <2>2, <2>3
  <2>4. CASE b # a
    BY <1>2, <1>5, <1>6, <2>1, <2>2, <2>4 DEF StoreIsSlots
  <2> QED
    BY <2>3, <2>4
<1>9. StoreOf' = [b \in Owned' |-> IF b = a THEN [challenge |-> n, proto |-> proto]
                                            ELSE StoreOf[b]]
  BY <1>2, <1>8 DEF StoreIsSlots
<1>10. Owned' \in Store!Owners(StoreOf, a)
  <2>0. DOMAIN StoreOf = Owned
    BY <1>2 DEF StoreIsSlots
  <2>1. CASE slots[i].adr = NoAddr
    <3>1. Cardinality(Owned) < MaxChallenges
      BY <2>1, Spare
    <3>2. Owned' = Owned \cup {a}
      BY <1>7, <2>1 DEF Owned
    <3> QED
      BY <2>0, <1>4, <3>1, <3>2, SameCount DEF Store!Owners
  <2>2. CASE slots[i].adr # NoAddr
    <3>1. ~ Cardinality(Owned) < MaxChallenges
      BY <1>1, <2>2, Oldest, Spare
    <3>2. slots[i].adr \in Owned
      BY <2>2 DEF Owned
    <3> QED
      BY <2>0, <1>4, <1>7, <3>1, <3>2, SameCount DEF Store!Owners
  <2> QED
    BY <2>1, <2>2
<1>11. n \in IF forced # {} THEN forced
             ELSE IF a \in DOMAIN StoreOf THEN {StoreOf[a].challenge}
             ELSE Challenge
  BY <1>1, <1>2, <1>4 DEF StoreIsSlots
<1> QED
  BY <1>9, <1>10, <1>11 DEF Store!Answers

(* Every step of the array is a step of the store, or leaves it alone.     *)
LEMMA StoreStep ==
  TableInv /\ TableInv' /\ [TableNext]_tableVars => [Store!StoreNext]_StoreOf
<1> SUFFICES ASSUME TableInv, TableInv', [TableNext]_tableVars
             PROVE  [Store!StoreNext]_StoreOf
  OBVIOUS
<1>1. ASSUME NEW a \in Client, NEW proto \in Protos, SVC_GetChallenge(a, proto)
      PROVE  Store!StoreNext
  <2>1. PICK forced \in {{}} \cup {{n} : n \in ChallengeValue} :
          /\ proto = "qw" => forced = {}
          /\ KnownAddress(a, proto, forced) \/ NewAddress(a, proto, forced)
    BY <1>1 DEF SVC_GetChallenge
  <2>2. forced \in SUBSET ChallengeValue
    BY <2>1
  <2>3. StoreOf' \in Store!Answers(StoreOf, a, proto, forced)
    BY <2>1, <2>2, KnownAnswers, NewAnswers
  <2>4. Store!Ask(a, proto)
    BY <2>1, <2>3 DEF Store!Ask, Store!ChallengeValue, Store!NoChallenge,
                      ChallengeValue, NoChallenge
  <2> QED
    BY <2>4 DEF Store!StoreNext
<1>2. CASE UNCHANGED slots
  BY <1>2 DEF StoreOf, Owned, FindChallengeForAddr
<1>3. CASE Tick
  BY <1>2, <1>3 DEF Tick
<1>4. CASE UNCHANGED tableVars
  BY <1>2, <1>4 DEF tableVars
<1> QED
  BY <1>1, <1>3, <1>4 DEF TableNext

(* The array starts as the empty store.                                    *)
LEMMA StoreStart == TableInit => Store!StoreInit
<1> SUFFICES ASSUME TableInit PROVE Store!StoreInit
  OBVIOUS
<1>1. Owned = {}
  BY DEF TableInit, Owned
<1> QED
  BY <1>1 DEF StoreOf, Store!StoreInit

(* The array keeps the promise of ChallengeStore: an address that has a    *)
(* slot keeps slot and number, a new one displaces at most one other, and  *)
(* only when the table is full (SVC_GetChallenge).                         *)
THEOREM Implements == TableSpec => ImplementsStore
<1>1. ImplementsStore <=> Store!StoreInit /\ [][Store!StoreNext]_StoreOf
  BY DEF ImplementsStore, Store!StoreSpec
<1> QED
  BY <1>1, StoreStart, StoreStep, Invariance, PTL DEF TableSpec

-----------------------------------------------------------------------------
(* How long an address keeps its challenge.                                *)
(*                                                                         *)
(* The slots besides i that are no older, and those of this second.        *)
NotOlder(i) == {j \in Index \ {i} : slots[j].time >= slots[i].time}

OfThisSecond == {j \in Index : slots[j].time = now}

(* The inductive invariant: what was counted are at least the slots that   *)
(* would have to be taken first.                                           *)
HistoryInv ==
  /\ second \in 0..MaxChallenges /\ later \in [Client -> 0..MaxChallenges]
  /\ Cardinality(OfThisSecond) <= second
  /\ \A i \in Index :
       slots[i].adr # NoAddr => Cardinality(NotOlder(i)) <= later[slots[i].adr]
  /\ KeptForATableful

(* A set of slots with one more counted is counted by one more.            *)
LEMMA CountedToo ==
  ASSUME NEW S \in SUBSET Index, NEW T \in SUBSET Index, NEW k \in Index,
         T \subseteq S \cup {k}, NEW n \in 0..MaxChallenges, Cardinality(S) <= n
  PROVE  Cardinality(T) <= More(n) /\ More(n) \in 0..MaxChallenges
<1>1. IsFiniteSet(S) /\ IsFiniteSet(T) /\ IsFiniteSet(S \cup {k})
  <2>1. S \cup {k} \in SUBSET Index
    OBVIOUS
  <2> QED
    BY <2>1, Indices, FS_Subset
<1>2. /\ Cardinality(S) \in Nat /\ Cardinality(T) \in Nat
      /\ Cardinality(S \cup {k}) \in Nat
  BY <1>1, FS_CardinalityType
<1>3. Cardinality(T) <= Cardinality(Index) /\ Cardinality(Index) = MaxChallenges
  BY Indices, FS_Subset
<1>4. Cardinality(T) <= Cardinality(S \cup {k})
  BY <1>1, FS_Subset
<1>5. Cardinality(S \cup {k}) <= Cardinality(S) + 1
  BY <1>1, <1>2, FS_AddElement
<1> QED
  BY <1>2, <1>3, <1>4, <1>5 DEF More

(* A part of a set of slots is counted by the same number.                 *)
LEMMA CountedStill ==
  ASSUME NEW S \in SUBSET Index, NEW T \in SUBSET S, NEW n \in Nat,
         Cardinality(S) <= n
  PROVE  Cardinality(T) <= n
<1>1. IsFiniteSet(S) /\ IsFiniteSet(T) /\ Cardinality(T) <= Cardinality(S)
  BY Indices, FS_Subset
<1> QED
  BY <1>1, FS_CardinalityType

(* The slots besides one are all but one.                                  *)
LEMMA AllOthers ==
  ASSUME NEW k \in Index
  PROVE  Cardinality(Index \ {k}) = MaxChallenges - 1
  BY Indices, FS_RemoveElement

(* A request of a known address counts nothing and takes nothing.          *)
LEMMA HistoryKnown ==
  ASSUME TableInv, HistoryInv, NEW a \in Client, NEW proto \in Protos,
         NEW forced \in SUBSET ChallengeValue, KnownAddress(a, proto, forced),
         UNCHANGED historyVars
  PROVE  HistoryInv'
<1>0. slots \in [Index -> SlotType]
  BY DEF TableInv, TypeOK, SlotType
<1>1. PICK k \in Index, n \in ChallengeValue :
        /\ slots[k].adr = a
        /\ slots' = [slots EXCEPT ![k] = [adr |-> a, challenge |-> n,
                                          time |-> slots[k].time, proto |-> proto]]
        /\ UNCHANGED now
  BY Known
<1>2. \A j \in Index : slots'[j].adr = slots[j].adr /\ slots'[j].time = slots[j].time
  BY <1>0, <1>1
<1>3. /\ OfThisSecond' = OfThisSecond /\ Owned' = Owned
      /\ \A i \in Index : NotOlder(i)' = NotOlder(i)
  BY <1>1, <1>2 DEF OfThisSecond, Owned, NotOlder
<1> QED
  BY <1>2, <1>3 DEF HistoryInv, KeptForATableful, historyVars

(* A new address is counted, and takes a slot than which none is older.    *)
LEMMA HistoryNew ==
  ASSUME TableInv, HistoryInv, now < OldestTime, NEW a \in Client,
         NEW proto \in Protos, NEW forced \in SUBSET ChallengeValue,
         NewAddress(a, proto, forced), Asked(a)
  PROVE  HistoryInv'
<1>0. slots \in [Index -> SlotType] /\ now \in Nat
  BY DEF TableInv, TypeOK, SlotType
<1>1. PICK k \in Index, n \in ChallengeValue :
        /\ \A j \in Index : slots[j].adr # a
        /\ IsOldest(k)
        /\ slots' = [slots EXCEPT ![k] = [adr |-> a, challenge |-> n,
                                          time |-> now, proto |-> proto]]
        /\ UNCHANGED now
  BY New
<1>2. second' = More(second) /\ later' = Counted(a)
  BY DEF NewAddress, Asked
<1>3. /\ slots'[k].adr = a /\ slots'[k].time = now
      /\ \A j \in Index \ {k} : slots'[j] = slots[j]
      /\ \A j \in Index : slots[j].time \in 0..now /\ slots[j].adr \in Client \cup {NoAddr}
  BY <1>0, <1>1 DEF SlotType
<1>4. /\ second \in 0..MaxChallenges
      /\ \A b \in Client : later[b] \in 0..MaxChallenges
      /\ OfThisSecond \in SUBSET Index /\ Cardinality(OfThisSecond) <= second
  BY DEF HistoryInv, OfThisSecond
<1>5. Cardinality(OfThisSecond') <= second' /\ second' \in 0..MaxChallenges
  <2>1. OfThisSecond' \in SUBSET Index /\ OfThisSecond' \subseteq OfThisSecond \cup {k}
    BY <1>1, <1>3 DEF OfThisSecond
  <2> QED
    BY <1>2, <1>4, <2>1, CountedToo
<1>6. later' \in [Client -> 0..MaxChallenges]
  BY <1>2, <1>4 DEF Counted, More
<1>7. ASSUME NEW i \in Index, slots'[i].adr # NoAddr
      PROVE  Cardinality(NotOlder(i)') <= later'[slots'[i].adr]
  <2>1. CASE i = k
    <3>1. NotOlder(i)' \subseteq OfThisSecond
      BY <1>0, <1>3, <2>1 DEF NotOlder, OfThisSecond
    <3>2. later'[slots'[i].adr] = second
      BY <1>2, <1>3, <2>1 DEF Counted
    <3> QED
      BY <1>4, <3>1, <3>2, CountedStill
  <2>2. CASE i # k
    <3> DEFINE b == slots[i].adr
    <3>1. slots'[i].adr = b /\ b \in Client /\ b # a
      BY <1>1, <1>3, <1>7, <2>2
    <3>2. later'[b] = More(later[b])
      BY <1>2, <3>1 DEF Counted
    <3>3. NotOlder(i) \in SUBSET Index /\ Cardinality(NotOlder(i)) <= later[b]
      BY <1>7, <3>1 DEF HistoryInv, NotOlder
    <3>4. NotOlder(i)' \in SUBSET Index /\ NotOlder(i)' \subseteq NotOlder(i) \cup {k}
      BY <1>3, <2>2 DEF NotOlder
    <3>5. later[b] \in 0..MaxChallenges
      BY <1>4, <3>1
    <3> QED
      BY <3>1, <3>2, <3>3, <3>4, <3>5, CountedToo
  <2> QED
    BY <2>1, <2>2
<1>8. ASSUME NEW b \in Client, later'[b] < MaxChallenges
      PROVE  b \in Owned'
  <2>1. CASE b = a
    BY <1>1, <1>3, <2>1 DEF Owned
  <2>2. CASE b # a
    <3>1. later'[b] = More(later[b])
      BY <1>2, <2>2 DEF Counted
    <3>2. later[b] < MaxChallenges - 1
      BY <1>4, <1>8, <3>1 DEF More
    <3>3. b \in Owned
      BY <1>4, <3>2 DEF HistoryInv, KeptForATableful
    <3>4. PICK i \in Index : slots[i].adr = b
      BY <3>3 DEF Owned
    <3>5. i # k
      <4>1. SUFFICES ASSUME i = k PROVE FALSE
        OBVIOUS
      <4>2. \A j \in Index : slots[k].time <= slots[j].time
        BY <1>1, Oldest
      <4>3. NotOlder(k) = Index \ {k}
        BY <1>3, <4>2 DEF NotOlder
      <4>4. Cardinality(NotOlder(k)) <= later[b]
        BY <3>4, <4>1 DEF HistoryInv
      <4> QED
        BY <1>4, <3>2, <4>3, <4>4, AllOthers
    <3> QED
      BY <1>3, <3>4, <3>5 DEF Owned
  <2> QED
    BY <2>1, <2>2
<1> QED
  BY <1>5, <1>6, <1>7, <1>8 DEF HistoryInv, KeptForATableful

(* No slot is of a second that begins.                                     *)
LEMMA HistoryTick ==
  ASSUME TableInv, HistoryInv, Tick, second' = 0, later' = later
  PROVE  HistoryInv'
<1>1. slots' = slots /\ now' = now + 1
  BY DEF Tick
<1>2. \A j \in Index : slots[j].time \in 0..now
  BY DEF TableInv, TypeOK
<1>3. OfThisSecond' = {}
  BY <1>1, <1>2 DEF OfThisSecond, TableInv, TypeOK
<1>4. Cardinality(OfThisSecond') = 0
  BY <1>3, FS_EmptySet
<1>5. Owned' = Owned /\ \A i \in Index : NotOlder(i)' = NotOlder(i)
  BY <1>1 DEF Owned, NotOlder
<1> QED
  BY <1>1, <1>4, <1>5 DEF HistoryInv, KeptForATableful

(* The history starts with nothing to lose.                                *)
LEMMA HistoryStart == HistoryInit => HistoryInv
<1> SUFFICES ASSUME HistoryInit PROVE HistoryInv
  OBVIOUS
<1>1. \A i \in Index : slots[i].adr = NoAddr /\ slots[i].time = 0
  BY DEF HistoryInit, TableInit
<1>2. OfThisSecond = {}
  BY <1>1 DEF OfThisSecond, HistoryInit, TableInit
<1>3. Cardinality(OfThisSecond) = 0
  BY <1>2, FS_EmptySet
<1> QED
  BY <1>1, <1>3 DEF HistoryInv, KeptForATableful, HistoryInit

(* Until the clock reaches 0x7fffffff an address keeps its challenge until *)
(* as many others as there are slots have come, counted from the beginning *)
(* of the second in which it got the challenge (SVC_GetChallenge).         *)
THEOREM KeptLongEnough ==
  ASSUME Start < OldestTime, MaxTime < OldestTime
  PROVE  HistorySpec => []KeptForATableful
<1> DEFINE early == now < OldestTime
           I == TableInv /\ early /\ HistoryInv
<1>1. HistoryInit => I
  BY Initially, HistoryStart DEF HistoryInit, TableInit
<1>2. I /\ [HistoryNext]_countedVars => I'
  <2> SUFFICES ASSUME I, [HistoryNext]_countedVars PROVE I'
    OBVIOUS
  <2>1. [TableNext]_tableVars
    BY DEF HistoryNext, TableNext, countedVars
  <2>2. TableInv'
    BY <2>1, Inductive
  <2>3. early'
    <3>1. now \in Nat
      BY DEF TableInv, TypeOK
    <3> QED
      BY <2>1, <3>1 DEF TableNext, SVC_GetChallenge, KnownAddress, NewAddress, Tick,
                        tableVars
  <2>4. ASSUME NEW a \in Client, NEW proto \in Protos,
               SVC_GetChallenge(a, proto), Asked(a)
        PROVE  HistoryInv'
    <3>1. PICK forced \in SUBSET ChallengeValue :
            KnownAddress(a, proto, forced) \/ NewAddress(a, proto, forced)
      BY <2>4 DEF SVC_GetChallenge
    <3>2. CASE KnownAddress(a, proto, forced)
      <4>1. UNCHANGED historyVars
        BY <2>4, <3>2, Indices, Scan DEF KnownAddress, Asked, TableInv
      <4> QED
        BY <3>2, <4>1, HistoryKnown
    <3>3. CASE NewAddress(a, proto, forced)
      BY <2>4, <3>3, HistoryNew
    <3> QED
      BY <3>1, <3>2, <3>3
  <2>5. ASSUME Tick, second' = 0, UNCHANGED later
        PROVE  HistoryInv'
    BY <2>5, HistoryTick
  <2>6. ASSUME UNCHANGED countedVars
        PROVE  HistoryInv'
    <3>1. slots' = slots /\ now' = now /\ second' = second /\ later' = later
      BY <2>6 DEF countedVars, tableVars, historyVars
    <3>2. OfThisSecond' = OfThisSecond /\ Owned' = Owned
      BY <3>1 DEF OfThisSecond, Owned
    <3>3. \A i \in Index : NotOlder(i)' = NotOlder(i)
      BY <3>1 DEF NotOlder
    <3> QED
      BY <3>1, <3>2, <3>3 DEF HistoryInv, KeptForATableful
  <2> QED
    BY <2>2, <2>3, <2>4, <2>5, <2>6 DEF HistoryNext
<1>3. I => KeptForATableful
  BY DEF HistoryInv
<1> QED
  BY <1>1, <1>2, <1>3, PTL DEF HistorySpec
=============================================================================
