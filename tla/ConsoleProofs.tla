---------------------------- MODULE ConsoleProofs ----------------------------
(***************************************************************************)
(* Proofs about Console, for any addresses, sizes of the arrays, commands, *)
(* configuration files and lines.                                          *)
(***************************************************************************)
EXTENDS Console, ListProofs

(* The least element, which `the first spot' and `the first filter' name.  *)
LEMMA First ==
  ASSUME NEW n \in Nat, NEW T, T \subseteq 1..n, T # {}
  PROVE  LET i == CHOOSE i \in T : \A j \in T : i <= j
         IN  i \in T /\ i \in 1..n /\ \A j \in T : i <= j
<1>1. T \subseteq Nat
  OBVIOUS
<1>2. \E i \in T : \A j \in T : i <= j
  BY <1>1, LeastNumber
<1> QED BY <1>2

(* What the buffer may hold, with what each command is given.              *)
LEMMA PendingFields ==
  ASSUME NEW c \in Pending
  PROVE  /\ c.op \in {"whitelistadd", "whitelistremove"} => c.addr \in Host
         /\ c.op = "addip" => c \in AddIPs
         /\ c.op \in {"removeip", "banip"} => c.key \in Key
         /\ c.op = "banip" => c.time \in Nat
         /\ c.op = "banremove" => c.id \in Nat
         /\ c.op = "alias" => c \in Command /\ c.text \in Seq(Command) /\ Len(c.text) <= MaxBuf
         /\ c.op = "if" => c \in Command /\ c.then \in Seq(Command) /\ c.else \in Seq(Command)
<1>1. CASE c \in Command
  BY <1>1, CommandAssumption
<1>2. CASE c \in AddIPs
  <2>1. c.op = "addip"
    BY <1>2 DEF AddIPs
  <2> QED BY <1>2, <2>1
<1>3. CASE c \in {Plain("writeip"), Exec("cfg"), Exec("listip")}
  <2>1. c.op \in {"writeip", "exec"}
    BY <1>3 DEF Plain, Exec
  <2> QED BY <2>1
<1> QED BY <1>1, <1>2, <1>3 DEF Pending

(* A list of commands is one of what the buffer may hold.                  *)
LEMMA TextsPend ==
  /\ \A text \in Seq(Command) : text \in Seq(Pending)
  /\ \A text \in Seq(AddIPs) : text \in Seq(Pending)
  /\ \A c \in Pending : <<c>> \in Seq(Pending)
<1>1. Command \subseteq Pending /\ AddIPs \subseteq Pending
  BY DEF Pending
<1> HIDE DEF Pending
<1> QED BY <1>1

(* Text put into the buffer does not make it longer than its array.        *)
LEMMA TextFits ==
  ASSUME NEW b \in Seq(Pending), Len(b) <= MaxBuf, NEW text \in Seq(Pending)
  PROVE  /\ Cbuf_InsertText(b, text) \in Seq(Pending)
         /\ Len(Cbuf_InsertText(b, text)) <= MaxBuf
         /\ Cbuf_AddText(b, text) \in Seq(Pending)
         /\ Len(Cbuf_AddText(b, text)) <= MaxBuf
<1>1. MaxBuf \in Nat /\ Len(b) \in Nat /\ Len(text) \in Nat
  BY ConsoleAssumption
<1>2. /\ text \o b \in Seq(Pending) /\ Len(text \o b) = Len(text) + Len(b)
      /\ b \o text \in Seq(Pending) /\ Len(b \o text) = Len(b) + Len(text)
  BY ConcatProperties
<1> QED BY <1>1, <1>2 DEF Cbuf_InsertText, Cbuf_AddText

LEMMA PendingMembers ==
  /\ Plain("writeip") \in Pending /\ Exec("cfg") \in Pending /\ Exec("listip") \in Pending
  /\ AddIPs \subseteq Pending
  BY DEF Pending

(* The two commands that banip queues.                                     *)
LEMMA AddIPTypes ==
  ASSUME NEW k \in Key, NEW type \in Types, NEW time \in Nat,
         NEW from \in {"now", "epoch"}
  PROVE  AddIP(k, type, time, from) \in AddIPs
  BY DEF AddIP, AddIPs

-----------------------------------------------------------------------------
Filters == [key : Key, type : Types, until : Nat]

(* A filter that addip makes from a command.                               *)
LEMMA FilterTypes ==
  ASSUME NEW c \in AddIPs, now \in Nat
  PROVE  /\ Filter(c.key, c.type, Until(c)) \in Filters
         /\ c.key \in Key /\ c.type \in Types /\ c.time \in Nat
<1>1. c.key \in Key /\ c.type \in Types /\ c.time \in Nat
  BY DEF AddIPs
<1>2. Until(c) \in Nat
  BY <1>1 DEF Until
<1> QED BY <1>1, <1>2 DEF Filter, Filters

(* writeip writes commands that can be executed, no more than there are    *)
(* filters, the safe ones first, each with its end; and every ban.         *)
OrderedFile(f) ==
  /\ f \in Seq(AddIPs) /\ Len(f) <= MaxFilters
  /\ \A i \in 1..Len(f) : f[i].from = "epoch"
  /\ \A i, j \in 1..Len(f) : i < j /\ f[i].type = "ban" => f[j].type = "ban"

BanOnFile(f, text) ==
  f.type = "ban" => \E j \in 1..Len(text) : text[j] = AddIP(f.key, "ban", f.until, "epoch")

(* The lines of one type.                                                  *)
LinesOf(type) ==
  LET fs == Kept(filters, OfType(type))
  IN  [i \in DOMAIN fs |-> AddIP(fs[i].key, type, fs[i].until, "epoch")]

LEMMA LinesOfType ==
  ASSUME filters \in Seq(Filters), NEW type \in Types
  PROVE  /\ LinesOf(type) \in Seq(AddIPs)
         /\ Len(LinesOf(type)) = Cardinality({i \in 1..Len(filters) : filters[i].type = type})
         /\ \A i \in 1..Len(LinesOf(type)) :
              LinesOf(type)[i].type = type /\ LinesOf(type)[i].from = "epoch"
         /\ \A i \in 1..Len(filters) :
              filters[i].type = type =>
                \E j \in 1..Len(LinesOf(type)) :
                  LinesOf(type)[j] = AddIP(filters[i].key, type, filters[i].until, "epoch")
<1> DEFINE T == OfType(type)
           fs == Kept(filters, T)
           N == Len(filters)
<1>1. N \in Nat /\ DOMAIN filters = 1..N /\ \A i \in 1..N : filters[i] \in Filters
  OBVIOUS
<1>2. \A i \in 1..N : filters[i] \in T <=> filters[i].type = type
  BY <1>1 DEF OfType
<1> HIDE DEF T
<1>3. fs \in Seq(Filters) /\ \E m : PicksTo(m, fs, filters, T, N)
  BY KeptPicks
<1>4. PICK m : PicksTo(m, fs, filters, T, N)
  BY <1>3
<1>5. Len(fs) = Cardinality({i \in 1..N : filters[i].type = type})
  <2>1. Len(fs) = Cardinality({i \in 1..N : filters[i] \in T})
    BY KeptLength
  <2>2. {i \in 1..N : filters[i] \in T} = {i \in 1..N : filters[i].type = type}
    BY <1>2
  <2> QED BY <2>1, <2>2
<1> DEFINE lines == LinesOf(type)
<1>6. lines = [i \in DOMAIN fs |-> AddIP(fs[i].key, type, fs[i].until, "epoch")]
  BY DEF LinesOf, T
<1> HIDE DEF fs, lines
<1>7. DOMAIN fs = 1..Len(fs) /\ Len(fs) \in Nat /\ \A i \in 1..Len(fs) : fs[i] \in Filters
  BY <1>3
<1>8. \A i \in 1..Len(fs) : lines[i] \in AddIPs
  <2>1. \A i \in 1..Len(fs) : fs[i].key \in Key /\ fs[i].until \in Nat
    BY <1>7 DEF Filters
  <2> QED BY <1>6, <1>7, <2>1, AddIPTypes
<1>9. lines \in Seq(AddIPs) /\ Len(lines) = Len(fs)
  <2>1. lines = [i \in 1..Len(fs) |-> lines[i]]
    BY <1>6, <1>7
  <2> QED BY <2>1, <1>7, <1>8
<1>10. \A i \in 1..Len(lines) : lines[i].type = type /\ lines[i].from = "epoch"
  BY <1>6, <1>7, <1>9 DEF AddIP
<1>11. ASSUME NEW i \in 1..N, filters[i].type = type
       PROVE  \E j \in 1..Len(lines) :
                lines[j] = AddIP(filters[i].key, type, filters[i].until, "epoch")
  <2>1. filters[i] \in T
    BY <1>2, <1>11
  <2>2. PICK j \in 1..Len(fs) : m[j] = i
    BY <1>4, <2>1 DEF PicksTo
  <2>3. fs[j] = filters[i]
    BY <1>4, <2>2 DEF PicksTo
  <2> QED BY <1>6, <1>7, <1>9, <2>2, <2>3
<1> QED BY <1>5, <1>9, <1>10, <1>11 DEF lines

LEMMA WrittenFile ==
  ASSUME filters \in Seq(Filters), Len(filters) <= MaxFilters
  PROVE  /\ OrderedFile(Written)
         /\ \A i \in 1..Len(filters) : BanOnFile(filters[i], Written)
<1> DEFINE s == LinesOf("safe")
           b == LinesOf("ban")
           N == Len(filters)
           Of(type) == {i \in 1..N : filters[i].type = type}
<1>1. N \in Nat /\ \A i \in 1..N : filters[i] \in Filters
  OBVIOUS
<1>2. Written = s \o b
  BY DEF Written, LinesOf
<1>3. /\ s \in Seq(AddIPs) /\ Len(s) = Cardinality(Of("safe"))
      /\ \A i \in 1..Len(s) : s[i].type = "safe" /\ s[i].from = "epoch"
  BY LinesOfType DEF Types
<1>4. /\ b \in Seq(AddIPs) /\ Len(b) = Cardinality(Of("ban"))
      /\ \A i \in 1..Len(b) : b[i].type = "ban" /\ b[i].from = "epoch"
      /\ \A i \in 1..N :
           filters[i].type = "ban" =>
             \E j \in 1..Len(b) : b[j] = AddIP(filters[i].key, "ban", filters[i].until, "epoch")
  BY LinesOfType DEF Types
<1>5. Cardinality(Of("safe")) + Cardinality(Of("ban")) <= N
  <2>1. IsFiniteSet(1..N) /\ Cardinality(1..N) = N
    <3>1. 1 \in Int /\ N \in Int
      BY <1>1
    <3>2. IsFiniteSet(1..N) /\ Cardinality(1..N) = IF 1 > N THEN 0 ELSE N - 1 + 1
      BY <3>1, FS_Interval
    <3> QED BY <3>2, <1>1
  <2> DEFINE P == Of("safe")
             Q == Of("ban")
  <2>2. P \subseteq 1..N /\ Q \subseteq 1..N /\ P \cap Q = {}
    OBVIOUS
  <2> HIDE DEF P, Q, N
  <2>3. IsFiniteSet(P) /\ IsFiniteSet(Q) /\ IsFiniteSet(P \cup Q)
        /\ Cardinality(P \cup Q) <= N
    <3>1. P \in SUBSET (1..N) /\ Q \in SUBSET (1..N) /\ P \cup Q \in SUBSET (1..N)
      BY <2>2
    <3> QED BY <3>1, <2>1, FS_Subset
  <2>4. Cardinality(P \cup Q)
          = Cardinality(P) + Cardinality(Q) - Cardinality(P \cap Q)
    BY <2>3, FS_Union
  <2>5. Cardinality(P \cap Q) = 0
    BY <2>2, FS_EmptySet
  <2>6. Cardinality(P) \in Nat /\ Cardinality(Q) \in Nat
    BY <2>3, FS_CardinalityType
  <2>7. Cardinality(P) + Cardinality(Q) <= N
    BY <1>1, <2>3, <2>4, <2>5, <2>6
  <2> QED BY <2>7 DEF P, Q
<1> DEFINE w == s \o b
<1> HIDE DEF s, b, Of
<1>5a. w \in Seq(AddIPs) /\ Joins(w, s, b)
  <2>1. s \in Seq(AddIPs) /\ b \in Seq(AddIPs)
    BY <1>3, <1>4
  <2> QED BY <2>1, ConcatElements
<1> HIDE DEF w
<1>6. /\ w \in Seq(AddIPs) /\ Len(s) \in Nat /\ Len(b) \in Nat
      /\ Len(w) = Len(s) + Len(b)
      /\ \A i \in 1..Len(s) : w[i] = s[i]
      /\ \A i \in 1..Len(b) : w[Len(s) + i] = b[i]
  BY <1>5a DEF Joins
<1>7. /\ \A i \in 1..Len(w) : i \in 1..Len(s) \/ i - Len(s) \in 1..Len(b)
      /\ \A i \in 1..Len(w) : i - Len(s) \in 1..Len(b) => w[i] = b[i - Len(s)]
  BY <1>5a DEF Joins
<1>8. \A i \in 1..Len(w) : i \in 1..Len(s) => w[i] = s[i]
  BY <1>6
<1>9. \A i \in 1..Len(w) : w[i].from = "epoch"
  BY <1>3, <1>4, <1>7, <1>8
<1>10. ASSUME NEW i \in 1..Len(w), NEW j \in 1..Len(w), i < j, w[i].type = "ban"
       PROVE  w[j].type = "ban"
  <2>1. ~(i \in 1..Len(s))
    BY <1>3, <1>8, <1>10
  <2>2. ~(j \in 1..Len(s))
    BY <2>1, <1>10, <1>6, <1>7
  <2> QED BY <2>2, <1>4, <1>7
<1>11. Len(w) <= MaxFilters
  BY <1>1, <1>3, <1>4, <1>5, <1>6, ConsoleAssumption
<1>12. OrderedFile(w)
  BY <1>6, <1>9, <1>10, <1>11 DEF OrderedFile
<1>13. ASSUME NEW i \in 1..N, filters[i].type = "ban"
       PROVE  \E j \in 1..Len(w) : w[j] = AddIP(filters[i].key, "ban", filters[i].until, "epoch")
  <2>1. PICK j \in 1..Len(b) : b[j] = AddIP(filters[i].key, "ban", filters[i].until, "epoch")
    BY <1>4, <1>13
  <2>2. Len(s) + j \in 1..Len(w)
    BY <1>6
  <2> QED BY <2>1, <2>2, <1>6
<1> QED BY <1>2, <1>12, <1>13 DEF BanOnFile, w

-----------------------------------------------------------------------------
(* Every element of the first list is one of the second.                   *)
Among(fs, gs) == \A i \in 1..Len(fs) : \E j \in 1..Len(gs) : fs[i] = gs[j]

(* gs is fs with the filter f: in the place of another of its key, or      *)
(* behind the last.                                                        *)
Adds(gs, fs, f) ==
  /\ gs \in Seq(Filters) /\ Len(gs) <= MaxFilters /\ Len(gs) <= Len(fs) + 1
  /\ \A i \in 1..Len(gs) : gs[i] = f \/ \E j \in 1..Len(fs) : gs[i] = fs[j]
  /\ FreeSpot \notin Key =>
       \A j \in 1..Len(fs) : fs[j].key = f.key \/ \E i \in 1..Len(gs) : gs[i] = fs[j]
  /\ Len(fs) < MaxFilters => \E i \in 1..Len(gs) : gs[i] = f

LEMMA FilterAdded ==
  ASSUME filters \in Seq(Filters), Len(filters) <= MaxFilters, now \in Nat,
         SV_AddIP_f, Head(buf) \in AddIPs
  PROVE  Adds(filters', filters, Filter(Head(buf).key, Head(buf).type, Until(Head(buf))))
<1> DEFINE c == Head(buf)
           f == Filter(c.key, c.type, Until(c))
           spots == Spots(c.key)
           N == Len(filters)
           p == CHOOSE i \in spots : \A j \in spots : i <= j
<1>0. SUFFICES Adds(filters', filters, f)
  OBVIOUS
<1>1. f \in Filters /\ c.key \in Key /\ f.key = c.key
  BY FilterTypes DEF Filter
<1>2. N \in Nat /\ DOMAIN filters = 1..N /\ \A i \in 1..N : filters[i] \in Filters
  OBVIOUS
<1>3. filters' = IF spots # {} THEN [filters EXCEPT ![p] = f]
                 ELSE IF N < MaxFilters THEN Append(filters, f) ELSE filters
  BY DEF SV_AddIP_f
<1>4. spots \subseteq 1..N /\ \A i \in spots : filters[i].key \in {FreeSpot, c.key}
  BY <1>2 DEF Spots
<1>5. \A i \in 1..N : filters[i].key \in Key
  BY <1>2 DEF Filters
<1> HIDE DEF f, c, spots, p
<1>6. CASE spots # {}
  <2>1. p \in 1..N /\ p \in spots
    BY <1>2, <1>4, <1>6, First DEF p
  <2>2. filters' = [filters EXCEPT ![p] = f]
    BY <1>3, <1>6
  <2>3. /\ filters' \in Seq(Filters) /\ Len(filters') = N
        /\ filters'[p] = f /\ \A i \in 1..N : i # p => filters'[i] = filters[i]
    BY <2>1, <2>2, <1>1, <1>2
  <2>4. \A i \in 1..N : filters'[i] = f \/ \E j \in 1..N : filters'[i] = filters[j]
    BY <2>3
  <2>5. FreeSpot \notin Key =>
          \A j \in 1..N : filters[j].key = f.key \/ \E i \in 1..N : filters'[i] = filters[j]
    <3>1. SUFFICES ASSUME FreeSpot \notin Key, NEW j \in 1..N, filters[j].key # f.key
                   PROVE  \E i \in 1..N : filters'[i] = filters[j]
      OBVIOUS
    <3>2. filters[p].key = c.key
      BY <2>1, <1>4, <1>5, <3>1
    <3>3. j # p
      BY <3>1, <3>2, <1>1
    <3> QED BY <3>3, <2>3
  <2> HIDE DEF N
  <2>6. N <= N + 1
    BY <1>2
  <2> QED BY <2>1, <2>3, <2>4, <2>5, <2>6 DEF Adds, N
<1>7. CASE spots = {} /\ N < MaxFilters
  <2>1. filters' = Append(filters, f)
    BY <1>3, <1>7
  <2>2. /\ filters' \in Seq(Filters) /\ Len(filters') = N + 1
        /\ filters'[N + 1] = f /\ \A i \in 1..N : filters'[i] = filters[i]
    BY <2>1, <1>1, <1>2
  <2>3. N + 1 \in 1..(N + 1) /\ 1..N \subseteq 1..(N + 1) /\ N + 1 <= MaxFilters
        /\ \A i \in 1..(N + 1) : i = N + 1 \/ i \in 1..N
    BY <1>2, <1>7, ConsoleAssumption
  <2> HIDE DEF N
  <2>4. \A i \in 1..(N + 1) : filters'[i] = f \/ \E j \in 1..N : filters'[i] = filters[j]
    BY <2>2, <2>3
  <2>5. \A j \in 1..N : \E i \in 1..(N + 1) : filters'[i] = filters[j]
    BY <2>2, <2>3
  <2>6. \E i \in 1..(N + 1) : filters'[i] = f
    BY <2>2, <2>3
  <2>7. N + 1 <= N + 1
    BY <1>2
  <2> QED BY <2>2, <2>3, <2>4, <2>5, <2>6, <2>7 DEF Adds, N
<1>8. CASE spots = {} /\ ~(N < MaxFilters)
  <2>1. filters' = filters
    BY <1>3, <1>8
  <2>2. N <= N + 1
    BY <1>2
  <2> QED BY <2>1, <2>2, <1>8 DEF Adds
<1> QED BY <1>6, <1>7, <1>8

(* Filters that are left when some go.                                     *)
LEMMA FilterRemoved ==
  ASSUME NEW fs \in Seq(Filters), NEW p \in 1..Len(fs)
  PROVE  /\ RemoveAt(fs, p) \in Seq(Filters) /\ Len(RemoveAt(fs, p)) <= Len(fs)
         /\ Among(RemoveAt(fs, p), fs)
<1> DEFINE gs == RemoveAt(fs, p)
           N == Len(fs)
<1>1. /\ gs \in Seq(Filters) /\ Len(gs) = N - 1
      /\ \A i \in 1..(p - 1) : gs[i] = fs[i]
      /\ \A i \in p..(N - 1) : gs[i] = fs[i + 1]
  BY RemoveAtElements
<1> HIDE DEF gs
<1>2. N \in Nat /\ p \in 1..N
  OBVIOUS
<1> HIDE DEF N
<1>3. ASSUME NEW i \in 1..Len(gs) PROVE \E j \in 1..N : gs[i] = fs[j]
  <2>1. CASE i \in 1..(p - 1)
    <3>1. i \in 1..N /\ gs[i] = fs[i]
      BY <2>1, <1>1, <1>2
    <3> QED BY <3>1
  <2>2. CASE i \in p..(N - 1)
    <3>1. i + 1 \in 1..N /\ gs[i] = fs[i + 1]
      BY <2>2, <1>1, <1>2
    <3> QED BY <3>1
  <2>3. i \in 1..(p - 1) \/ i \in p..(N - 1)
    BY <1>1, <1>2
  <2> QED BY <2>1, <2>2, <2>3
<1>4. Len(gs) <= N
  BY <1>1, <1>2
<1> QED BY <1>1, <1>3, <1>4 DEF Among, gs, N

LEMMA FiltersKept ==
  ASSUME NEW fs \in Seq(Filters), NEW T
  PROVE  /\ Kept(fs, T) \in Seq(Filters) /\ Len(Kept(fs, T)) <= Len(fs)
         /\ Among(Kept(fs, T), fs)
<1>1. Kept(fs, T) \in Seq(Filters) /\ Len(Kept(fs, T)) <= Len(fs)
  BY KeptPicks, KeptLength
<1>2. PICK m : PicksTo(m, Kept(fs, T), fs, T, Len(fs))
  BY KeptPicks
<1> DEFINE gs == Kept(fs, T)
<1> HIDE DEF gs
<1>3. ASSUME NEW i \in 1..Len(gs) PROVE \E j \in 1..Len(fs) : gs[i] = fs[j]
  BY <1>2 DEF PicksTo, gs
<1>4. Among(gs, fs)
  BY <1>3 DEF Among
<1> QED BY <1>1, <1>4 DEF gs

-----------------------------------------------------------------------------
(* Types.                                                                  *)
BufOK == buf \in Seq(Pending) /\ Len(buf) <= MaxBuf

LoopOK ==
  /\ stage \in Executing \cup {"top", "network", "clean", "down"}
  /\ reload \in BOOLEAN /\ wanttoexit \in BOOLEAN
  /\ cfg \in Configs /\ loaded \in Configs \cup {<<>>} /\ now \in 1..MaxTime

WhitelistOK ==
  whitelist \subseteq Host /\ IsFiniteSet(whitelist) /\ Cardinality(whitelist) <= MaxWhitelist

FiltersOK == filters \in Seq(Filters) /\ Len(filters) <= MaxFilters

FileOK == OrderedFile(file)

AliasesOK ==
  \A name \in DOMAIN aliases :
    /\ aliases[name] \in Seq(Command) /\ Len(aliases[name]) <= MaxBuf
    /\ \E c \in Command : c.op = "alias" /\ c.name = name /\ c.text = aliases[name]

IInv == BufOK /\ LoopOK /\ WhitelistOK /\ FiltersOK /\ FileOK /\ AliasesOK

(* The command that runs, and what is left in the buffer.                  *)
LEMMA Running ==
  ASSUME BufOK, buf # <<>>
  PROVE  /\ Head(buf) \in Pending /\ Tail(buf) \in Seq(Pending)
         /\ Len(Tail(buf)) <= MaxBuf /\ Len(Tail(buf)) = Len(buf) - 1
<1>1. buf \in Seq(Pending) /\ Len(buf) <= MaxBuf
  BY DEF BufOK
<1> HIDE DEF Pending
<1>2. /\ Head(buf) \in Pending /\ Tail(buf) \in Seq(Pending)
      /\ Len(buf) \in Nat /\ Len(Tail(buf)) = Len(buf) - 1
  BY <1>1, TailElements
<1> QED BY <1>1, <1>2, ConsoleAssumption

LEMMA TypesStart == Init => IInv
<1> SUFFICES ASSUME Init PROVE IInv
  OBVIOUS
<1>1. BufOK
  BY ConsoleAssumption DEF Init, BufOK
<1>2. LoopOK
  <2>1. now \in 1..MaxTime
    BY ConsoleAssumption DEF Init
  <2>2. cfg \in Configs /\ loaded \in Configs \cup {<<>>}
    BY DEF Init
  <2>3. /\ stage \in Executing \cup {"top", "network", "clean", "down"}
        /\ reload \in BOOLEAN /\ wanttoexit \in BOOLEAN
    BY DEF Init
  <2> QED BY <2>1, <2>2, <2>3 DEF LoopOK
<1>3. WhitelistOK
  BY FS_EmptySet, ConsoleAssumption DEF Init, WhitelistOK
<1>4. FiltersOK /\ FileOK
  BY ConsoleAssumption DEF Init, FiltersOK, FileOK, OrderedFile
<1>5. AliasesOK
  BY DEF Init, AliasesOK
<1> QED BY <1>1, <1>2, <1>3, <1>4, <1>5 DEF IInv

(* The buffer.                                                             *)
LEMMA ReturnsTypes ==
  ASSUME NEW rest \in Seq(Pending), Len(rest) <= MaxBuf, stage \in Executing,
         reload \in BOOLEAN, Returns(rest)
  PROVE  /\ BufOK' /\ reload' \in BOOLEAN
         /\ stage' = NextStage(stage)
         /\ stage' \in {"bans", "cmdline", "top", "commands", "network"}
<1>1. <<Exec("listip")>> \in Seq(Pending)
  BY PendingMembers, TextsPend
<1>2. BufOK'
  BY <1>1, TextFits DEF Returns, BufOK
<1> QED BY <1>2 DEF Returns, NextStage, Executing

LEMMA QueuedTypes ==
  ASSUME NEW b \in Seq(Pending), Len(b) <= MaxBuf, NEW k \in Key, NEW d \in Nat
  PROVE  Queued(b, k, d) \in Seq(Pending) /\ Len(Queued(b, k, d)) <= MaxBuf
<1> DEFINE c == AddIP(k, "ban", d, IF d = 0 THEN "epoch" ELSE "now")
           w == <<Plain("writeip")>>
           b1 == Cbuf_AddText(b, <<c>>)
<1>1. c \in AddIPs
  <2>1. (IF d = 0 THEN "epoch" ELSE "now") \in {"now", "epoch"} /\ "ban" \in Types
    BY DEF Types
  <2> QED BY <2>1, AddIPTypes
<1>2. <<c>> \in Seq(Pending) /\ w \in Seq(Pending)
  BY <1>1, PendingMembers, TextsPend
<1> HIDE DEF c, w
<1>3. b1 \in Seq(Pending) /\ Len(b1) <= MaxBuf
  BY <1>2, TextFits
<1> HIDE DEF b1
<1>4. Cbuf_AddText(b1, w) \in Seq(Pending) /\ Len(Cbuf_AddText(b1, w)) <= MaxBuf
  BY <1>2, <1>3, TextFits
<1> QED BY <1>4 DEF Queued, b1, c, w

LEMMA BufStep ==
  ASSUME IInv, Next
  PROVE  BufOK'
<1>1. BufOK /\ stage \in Executing \cup {"top", "network", "clean", "down"}
      /\ reload \in BOOLEAN
  BY DEF IInv, LoopOK
<1>2. buf \in Seq(Pending) /\ Len(buf) <= MaxBuf
  BY <1>1 DEF BufOK
<1>3. ASSUME buf # <<>>
      PROVE  /\ Head(buf) \in Pending /\ Tail(buf) \in Seq(Pending)
             /\ Len(Tail(buf)) <= MaxBuf
  BY <1>1, <1>3, Running
<1>4. CASE buf # <<>> /\ buf' = Tail(buf)
  BY <1>3, <1>4 DEF BufOK
<1>5. CASE buf' = buf
  BY <1>2, <1>5 DEF BufOK
<1>6. CASE buf' = <<>>
  BY <1>6, ConsoleAssumption DEF BufOK
<1>7. ASSUME buf # <<>>, NEW text \in Seq(Pending),
             buf' = Cbuf_InsertText(Tail(buf), text) \/ buf' = Cbuf_AddText(Tail(buf), text)
      PROVE  BufOK'
  BY <1>3, <1>7, TextFits DEF BufOK
<1>8. ASSUME NEW text \in Seq(Pending), buf' = Cbuf_InsertText(buf, text)
      PROVE  BufOK'
  BY <1>2, <1>8, TextFits DEF BufOK
<1>9. CASE Execute
  <2>1. CASE ExecuteDone
    BY <2>1, <1>1, <1>2, ReturnsTypes DEF ExecuteDone
  <2>2. CASE Cmd_Wait_f
    BY <2>2, <1>1, <1>3, ReturnsTypes DEF Cmd_Wait_f, Runs, HasText
  <2>3. CASE Cmd_Exec_f
    <3>1. file \in Seq(Pending) /\ cfg \in Seq(Pending)
      BY TextsPend, CommandAssumption DEF IInv, LoopOK, FileOK, OrderedFile
    <3> QED BY <2>3, <3>1, <1>7 DEF Cmd_Exec_f, Runs, HasText
  <2>4. CASE Cmd_If_f
    <3>1. PICK text \in {Head(buf).then, Head(buf).else} :
            buf' = Cbuf_InsertText(Tail(buf), text)
      BY <2>4 DEF Cmd_If_f
    <3>2. buf # <<>> /\ Head(buf).op = "if"
      BY <2>4 DEF Cmd_If_f, Runs, HasText
    <3>3. text \in Seq(Pending)
      BY <3>1, <3>2, <1>3, PendingFields, TextsPend
    <3> QED BY <3>1, <3>2, <3>3, <1>7
  <2>5. CASE RunAlias
    <3>1. aliases[Head(buf).op] \in Seq(Pending)
      BY <2>5, TextsPend DEF RunAlias, IInv, AliasesOK
    <3> QED BY <2>5, <3>1, <1>7 DEF RunAlias, HasText
  <2>6. CASE SV_Cmd_Banip_f
    <3>1. buf # <<>> /\ Head(buf).op = "banip"
      BY <2>6 DEF SV_Cmd_Banip_f, Runs, HasText
    <3>2. Head(buf).key \in Key /\ Head(buf).time \in Nat
      BY <3>1, <1>3, PendingFields
    <3>3. CASE SV_CanAddBan(Head(buf).key)
      <4>1. buf' = Queued(Tail(buf), Head(buf).key, Head(buf).time)
        BY <2>6, <3>3 DEF SV_Cmd_Banip_f
      <4> QED BY <4>1, <3>1, <3>2, <1>3, QueuedTypes DEF BufOK
    <3>4. CASE ~SV_CanAddBan(Head(buf).key)
      BY <2>6, <3>1, <3>4, <1>4 DEF SV_Cmd_Banip_f
    <3> QED BY <3>3, <3>4
  <2>7. CASE SV_Cmd_Banremove_f
    <3>1. <<Plain("writeip")>> \in Seq(Pending)
      BY PendingMembers, TextsPend
    <3>2. buf # <<>> /\ (buf' = Tail(buf) \/ buf' = Cbuf_AddText(Tail(buf), <<Plain("writeip")>>))
      BY <2>7 DEF SV_Cmd_Banremove_f, Runs, HasText
    <3> QED BY <3>1, <3>2, <1>4, <1>7
  <2>8. CASE \/ Cmd_Quit_f \/ AliasCommand \/ Ignored \/ WhitelistCommand
             \/ SV_AddIP_f \/ SV_RemoveIP_f \/ SV_WriteIP_f
    BY <2>8, <1>4 DEF Cmd_Quit_f, AliasCommand, Ignored, WhitelistCommand, SV_AddIP_f,
                      SV_RemoveIP_f, SV_WriteIP_f, Runs, HasText
  <2> QED BY <1>9, <2>1, <2>2, <2>3, <2>4, <2>5, <2>6, <2>7, <2>8 DEF Execute
<1>10. CASE Reload
  BY <1>10, <1>8, PendingMembers, TextsPend DEF Reload
<1>11. CASE \E line \in Lines : Typed(line)
  BY <1>11, <1>8, TextsPend, CommandAssumption DEF Typed
<1>12. CASE Exits \/ Killed
  BY <1>12, <1>6 DEF Exits, Killed, Gone
<1>13. CASE Starts
  <2>1. <<>> \in Seq(Pending) /\ Len(<<>>) <= MaxBuf
    BY ConsoleAssumption
  <2>2. <<Exec("cfg")>> \in Seq(Pending)
    BY PendingMembers, TextsPend
  <2> QED BY <1>13, <2>1, <2>2, TextFits DEF Starts, BufOK
<1>14. CASE \/ NoReload \/ NothingTyped \/ SV_CleanBansIPList \/ sighup_handler
            \/ (\E c \in Configs : EditCfg(c)) \/ Tick
  BY <1>14, <1>5 DEF NoReload, NothingTyped, SV_CleanBansIPList, sighup_handler, EditCfg, Tick
<1> QED BY <1>9, <1>10, <1>11, <1>12, <1>13, <1>14 DEF Next

LEMMA LoopStep ==
  ASSUME IInv, Next
  PROVE  LoopOK'
<1> USE DEF LoopOK
<1>1. LoopOK
  BY DEF IInv
<1>2. now' \in 1..MaxTime
  <2>1. CASE Tick
    BY <2>1, <1>1, ConsoleAssumption DEF Tick
  <2>2. CASE ~Tick
    BY <2>2, <1>1 DEF Next, Execute, ExecuteDone, Cmd_Wait_f, Cmd_Exec_f, Cmd_Quit_f, Cmd_If_f,
         AliasCommand, RunAlias, Ignored, WhitelistCommand, SV_AddIP_f, SV_RemoveIP_f,
         SV_WriteIP_f, SV_Cmd_Banip_f, SV_Cmd_Banremove_f, Reload, NoReload, NothingTyped,
         SV_CleanBansIPList, Typed, sighup_handler, Exits, Killed, Starts, EditCfg, world
  <2> QED BY <2>1, <2>2
<1>3. cfg' \in Configs /\ loaded' \in Configs \cup {<<>>}
  <2>1. CASE \E c \in Configs : EditCfg(c)
    BY <2>1, <1>1 DEF EditCfg, script
  <2>2. CASE Exits \/ Killed
    BY <2>2, <1>1 DEF Exits, Killed, Gone, world
  <2>3. CASE Cmd_Exec_f
    BY <2>3, <1>1 DEF Cmd_Exec_f, world
  <2>4. CASE /\ ~(\E c \in Configs : EditCfg(c)) /\ ~Exits /\ ~Killed /\ ~Cmd_Exec_f
    BY <2>4, <1>1 DEF Next, Execute, ExecuteDone, Cmd_Wait_f, Cmd_Quit_f, Cmd_If_f,
         AliasCommand, RunAlias, Ignored, WhitelistCommand, SV_AddIP_f, SV_RemoveIP_f,
         SV_WriteIP_f, SV_Cmd_Banip_f, SV_Cmd_Banremove_f, Reload, NoReload, NothingTyped,
         SV_CleanBansIPList, Typed, sighup_handler, Starts, Tick, world, script
  <2> QED BY <2>1, <2>2, <2>3, <2>4
<1>4. /\ stage' \in Executing \cup {"top", "network", "clean", "down"}
      /\ reload' \in BOOLEAN /\ wanttoexit' \in BOOLEAN
  <2>1. CASE ExecuteDone \/ Cmd_Wait_f
    BY <2>1, <1>1 DEF ExecuteDone, Cmd_Wait_f, Runs, HasText, Returns, NextStage, Executing
  <2>2. CASE Execute /\ ~ExecuteDone /\ ~Cmd_Wait_f
    BY <2>2, <1>1 DEF Execute, Cmd_Exec_f, Cmd_Quit_f, Cmd_If_f,
         AliasCommand, RunAlias, Ignored, WhitelistCommand, SV_AddIP_f, SV_RemoveIP_f,
         SV_WriteIP_f, SV_Cmd_Banip_f, SV_Cmd_Banremove_f, loop
  <2>3. CASE ~Execute
    BY <2>3, <1>1 DEF Next, Reload, NoReload, NothingTyped, SV_CleanBansIPList, Typed,
         sighup_handler, Exits, Killed, Gone, Starts, EditCfg, Tick, loop, Executing
  <2> QED BY <2>1, <2>2, <2>3
<1> QED BY <1>2, <1>3, <1>4

LEMMA WhitelistStep ==
  ASSUME IInv, Next
  PROVE  WhitelistOK'
<1>1. whitelist \subseteq Host /\ IsFiniteSet(whitelist) /\ Cardinality(whitelist) <= MaxWhitelist
  BY DEF IInv, WhitelistOK
<1>2. CASE whitelist' = whitelist
  BY <1>1, <1>2 DEF WhitelistOK
<1>3. CASE whitelist' = {}
  BY <1>3, FS_EmptySet, ConsoleAssumption DEF WhitelistOK
<1>4. CASE WhitelistCommand
  <2> DEFINE c == Head(buf)
  <2>1. c.op \in {"whitelistadd", "whitelistremove", "whitelistpurge"} /\ c \in Pending
    BY <1>4, Running DEF WhitelistCommand, Runs, HasText, IInv
  <2>2. whitelist' = Whitelisted(whitelist, c)
    BY <1>4 DEF WhitelistCommand
  <2>3. c.op \in {"whitelistadd", "whitelistremove"} => c.addr \in Host
    BY <2>1, PendingFields
  <2> HIDE DEF c
  <2>4. CASE c.op = "whitelistadd" /\ Cardinality(whitelist) < MaxWhitelist
    <3>1. whitelist' = whitelist \cup {c.addr}
      BY <2>2, <2>4 DEF Whitelisted
    <3>2. IsFiniteSet(whitelist') /\ (Cardinality(whitelist') = Cardinality(whitelist)
                                     \/ Cardinality(whitelist') = Cardinality(whitelist) + 1)
      BY <3>1, <1>1, FS_AddElement
    <3>3. Cardinality(whitelist) \in Nat
      BY <1>1, FS_CardinalityType
    <3>4. Cardinality(whitelist') <= MaxWhitelist
      BY <3>2, <3>3, <2>4, ConsoleAssumption
    <3> QED BY <3>1, <3>2, <3>4, <1>1, <2>3, <2>4 DEF WhitelistOK
  <2>5. CASE c.op = "whitelistremove"
    <3>1. whitelist' = whitelist \ {c.addr}
      BY <2>2, <2>5 DEF Whitelisted
    <3>2. whitelist' \in SUBSET whitelist
      BY <3>1
    <3>3. /\ IsFiniteSet(whitelist') /\ Cardinality(whitelist') \in Nat
          /\ Cardinality(whitelist) \in Nat /\ Cardinality(whitelist') <= Cardinality(whitelist)
      BY <3>2, <1>1, FS_Subset, FS_CardinalityType
    <3>4. Cardinality(whitelist') <= MaxWhitelist
      BY <3>3, <1>1, ConsoleAssumption
    <3> QED BY <3>2, <3>3, <3>4, <1>1 DEF WhitelistOK
  <2>6. CASE c.op = "whitelistpurge"
    BY <2>2, <2>6, <1>3 DEF Whitelisted
  <2>7. CASE c.op = "whitelistadd" /\ ~(Cardinality(whitelist) < MaxWhitelist)
    BY <2>2, <2>7, <1>2 DEF Whitelisted
  <2> QED BY <2>1, <2>4, <2>5, <2>6, <2>7
<1>5. CASE Execute /\ ~WhitelistCommand
  BY <1>5, <1>2 DEF Execute, ExecuteDone, Cmd_Wait_f, Cmd_Exec_f, Cmd_Quit_f, Cmd_If_f,
       AliasCommand, RunAlias, Ignored, SV_AddIP_f, SV_RemoveIP_f,
       SV_WriteIP_f, SV_Cmd_Banip_f, SV_Cmd_Banremove_f
<1>6. CASE ~Execute
  BY <1>6, <1>2, <1>3 DEF Next, Reload, NoReload, NothingTyped, SV_CleanBansIPList, Typed,
       sighup_handler, Exits, Killed, Gone, Starts, EditCfg, Tick
<1> QED BY <1>4, <1>5, <1>6

(* What a step does to the filters: nothing, some go, or the addip of the  *)
(* command that runs.                                                      *)
LEMMA FiltersStep ==
  ASSUME IInv, Next
  PROVE  /\ FiltersOK'
         /\ \/ Gone
            \/ Among(filters', filters) /\ ~SV_AddIP_f
            \/ /\ SV_AddIP_f /\ Head(buf) \in AddIPs
               /\ Adds(filters', filters, Filter(Head(buf).key, Head(buf).type, Until(Head(buf))))
<1>1. filters \in Seq(Filters) /\ Len(filters) <= MaxFilters
  BY DEF IInv, FiltersOK
<1>1a. Len(filters) \in Nat /\ DOMAIN filters = 1..Len(filters)
  BY <1>1
<1>2. ASSUME filters' \in Seq(Filters), Len(filters') <= Len(filters) PROVE FiltersOK'
  <2>1. Len(filters') \in Nat
    BY <1>2
  <2> QED BY <1>1, <1>1a, <1>2, <2>1, ConsoleAssumption DEF FiltersOK
<1>3. CASE SV_AddIP_f
  <2>1. Head(buf) \in AddIPs
    BY <1>3, Running, PendingFields DEF SV_AddIP_f, Runs, HasText, IInv
  <2>2. now \in Nat
    BY ConsoleAssumption DEF IInv, LoopOK
  <2>3. Adds(filters', filters, Filter(Head(buf).key, Head(buf).type, Until(Head(buf))))
    BY <1>1, <1>3, <2>1, <2>2, FilterAdded
  <2>4. FiltersOK'
    BY <2>3 DEF Adds, FiltersOK
  <2> QED BY <1>3, <2>1, <2>3, <2>4
<1>4. CASE filters' = filters /\ ~SV_AddIP_f
  <2>1. Among(filters', filters)
    BY <1>4 DEF Among
  <2> QED BY <1>1, <1>4, <2>1 DEF FiltersOK
<1>5. ASSUME NEW p \in 1..Len(filters), filters' = RemoveAt(filters, p), ~SV_AddIP_f
      PROVE  FiltersOK' /\ Among(filters', filters)
  BY <1>1, <1>2, <1>5, FilterRemoved
<1>6. CASE SV_RemoveIP_f
  <2> DEFINE found == {i \in DOMAIN filters : filters[i].key = Head(buf).key}
  <2>1. ~SV_AddIP_f
    BY <1>6 DEF SV_RemoveIP_f, SV_AddIP_f, Runs
  <2>2. filters' = IF found = {} THEN filters
                   ELSE RemoveAt(filters, CHOOSE i \in found : \A j \in found : i <= j)
    BY <1>6 DEF SV_RemoveIP_f
  <2>3. found \subseteq 1..Len(filters)
    BY <1>1a
  <2> HIDE DEF found
  <2>4. CASE found = {}
    BY <2>1, <2>2, <2>4, <1>4
  <2>5. CASE found # {}
    <3>1. (CHOOSE i \in found : \A j \in found : i <= j) \in 1..Len(filters)
      BY <1>1a, <2>3, <2>5, First
    <3> QED BY <2>1, <2>2, <2>5, <3>1, <1>5
  <2> QED BY <2>4, <2>5
<1>7. CASE SV_Cmd_Banremove_f
  <2>1. ~SV_AddIP_f
    BY <1>7 DEF SV_Cmd_Banremove_f, SV_AddIP_f, Runs
  <2>2. CASE filters' = filters
    BY <2>1, <2>2, <1>4
  <2>3. CASE filters' # filters
    <3>1. Head(buf).id + 1 \in 1..Len(filters) /\ filters' = RemoveAt(filters, Head(buf).id + 1)
      BY <1>7, <1>1a, <2>3 DEF SV_Cmd_Banremove_f
    <3> QED BY <2>1, <3>1, <1>5
  <2> QED BY <2>2, <2>3
<1>8. CASE SV_CleanBansIPList
  <2>1. ~SV_AddIP_f
    BY <1>8 DEF SV_CleanBansIPList, SV_AddIP_f, Runs, HasText, Executing
  <2>2. filters' = Kept(filters, InForce)
    BY <1>8 DEF SV_CleanBansIPList
  <2> QED BY <1>1, <1>2, <2>1, <2>2, FiltersKept
<1>9. CASE Execute /\ ~SV_AddIP_f /\ ~SV_RemoveIP_f /\ ~SV_Cmd_Banremove_f
  <2>1. filters' = filters
    BY <1>9 DEF Execute, ExecuteDone, Cmd_Wait_f, Cmd_Exec_f, Cmd_Quit_f, Cmd_If_f,
         AliasCommand, RunAlias, Ignored, WhitelistCommand, SV_WriteIP_f, SV_Cmd_Banip_f, bans
  <2> QED BY <1>9, <2>1, <1>4
<1>10. CASE Exits \/ Killed
  <2>1. Gone
    BY <1>10 DEF Exits, Killed
  <2>2. FiltersOK'
    BY <2>1, ConsoleAssumption DEF Gone, FiltersOK
  <2> QED BY <2>1, <2>2
<1>11. CASE ~Execute /\ ~SV_CleanBansIPList /\ ~Exits /\ ~Killed
  <2>1. filters' = filters
    BY <1>11 DEF Next, Reload, NoReload, NothingTyped, Typed, sighup_handler, Starts,
         EditCfg, Tick, bans
  <2>2. ~SV_AddIP_f
    BY <1>11 DEF Execute
  <2> QED BY <2>1, <2>2, <1>4
<1> QED BY <1>3, <1>6, <1>7, <1>8, <1>9, <1>10, <1>11

(* A first part of an ordered file is an ordered file.                     *)
LEMMA FirstPart ==
  ASSUME NEW f, OrderedFile(f), NEW n \in 0..Len(f)
  PROVE  OrderedFile(SubSeq(f, 1, n))
<1> DEFINE g == SubSeq(f, 1, n)
<1>1. f \in Seq(AddIPs) /\ Len(f) \in Nat /\ Len(f) <= MaxFilters
  BY DEF OrderedFile
<1>2. g \in Seq(AddIPs) /\ Len(g) = n /\ \A i \in 1..n : g[i] = f[i]
  BY <1>1
<1>3. 1..n \subseteq 1..Len(f) /\ n <= MaxFilters
  BY <1>1, ConsoleAssumption
<1> HIDE DEF g
<1> QED BY <1>2, <1>3 DEF OrderedFile, g

(* What a step does to the file: nothing, or the writeip that runs writes  *)
(* it, or a part of it before a kill.                                      *)
LEMMA FileStep ==
  ASSUME IInv, Next
  PROVE  FileOK' /\ (file' = file \/ SV_WriteIP_f \/ Gone)
<1>1. OrderedFile(file)
  BY DEF IInv, FileOK
<1>2. OrderedFile(Written)
  BY WrittenFile DEF IInv, FiltersOK
<1>3. CASE file' = file
  BY <1>1, <1>3 DEF FileOK
<1>4. CASE SV_WriteIP_f
  BY <1>2, <1>4 DEF SV_WriteIP_f, FileOK
<1>5. CASE Killed
  <2>1. CASE file' = file
    BY <2>1, <1>3
  <2>2. CASE file' # file
    <3>1. PICK n \in 0..Len(Written) : file' = SubSeq(Written, 1, n)
      BY <1>5, <2>2 DEF Killed
    <3>2. FileOK'
      BY <1>2, <3>1, FirstPart DEF FileOK
    <3> QED BY <1>5, <3>2 DEF Killed
  <2> QED BY <2>1, <2>2
<1>6. CASE Execute /\ ~SV_WriteIP_f
  <2>1. file' = file
    BY <1>6 DEF Execute, ExecuteDone, Cmd_Wait_f, Cmd_Exec_f, Cmd_Quit_f, Cmd_If_f,
         AliasCommand, RunAlias, Ignored, WhitelistCommand, SV_AddIP_f, SV_RemoveIP_f,
         SV_Cmd_Banip_f, SV_Cmd_Banremove_f, bans
  <2> QED BY <2>1, <1>3
<1>7. CASE ~Execute /\ ~Killed
  <2>1. file' = file
    BY <1>7 DEF Next, Reload, NoReload, NothingTyped, SV_CleanBansIPList, Typed,
         sighup_handler, Exits, Starts, EditCfg, Tick, bans
  <2> QED BY <2>1, <1>3
<1> QED BY <1>4, <1>5, <1>6, <1>7

LEMMA AliasesStep ==
  ASSUME IInv, Next
  PROVE  AliasesOK'
<1>1. AliasesOK
  BY DEF IInv
<1>2. CASE aliases' = aliases
  BY <1>1, <1>2 DEF AliasesOK
<1>3. CASE aliases' = <<>>
  BY <1>3 DEF AliasesOK
<1>4. CASE AliasCommand
  <2> DEFINE c == Head(buf)
  <2>1. c \in Pending /\ c.op \in {"alias", "unalias", "unaliasall"}
    BY <1>4, Running DEF AliasCommand, Runs, HasText, IInv
  <2>2. aliases' = Aliased(aliases, c)
    BY <1>4 DEF AliasCommand
  <2>3. c.op = "alias" => c \in Command /\ c.text \in Seq(Command) /\ Len(c.text) <= MaxBuf
    BY <2>1, PendingFields
  <2> HIDE DEF c
  <2>4. CASE c.op = "alias"
    <3>1. aliases' = [name \in DOMAIN aliases \cup {c.name} |->
                        IF name = c.name THEN c.text ELSE aliases[name]]
      BY <2>2, <2>4 DEF Aliased
    <3>2. \A name \in DOMAIN aliases' :
            \/ name = c.name /\ aliases'[name] = c.text
            \/ name \in DOMAIN aliases /\ aliases'[name] = aliases[name]
      BY <3>1
    <3> QED BY <3>2, <2>3, <2>4, <1>1 DEF AliasesOK
  <2>5. CASE c.op = "unalias"
    <3>1. aliases' = Restrict(aliases, DOMAIN aliases \ {c.name})
      BY <2>2, <2>5 DEF Aliased
    <3>2. \A name \in DOMAIN aliases' :
            name \in DOMAIN aliases /\ aliases'[name] = aliases[name]
      BY <3>1 DEF Restrict
    <3> QED BY <3>2, <1>1 DEF AliasesOK
  <2>6. CASE c.op = "unaliasall"
    BY <2>2, <2>6, <1>3 DEF Aliased
  <2> QED BY <2>1, <2>4, <2>5, <2>6
<1>5. CASE Execute /\ ~AliasCommand
  BY <1>5, <1>2 DEF Execute, ExecuteDone, Cmd_Wait_f, Cmd_Exec_f, Cmd_Quit_f, Cmd_If_f,
       RunAlias, Ignored, WhitelistCommand, SV_AddIP_f, SV_RemoveIP_f,
       SV_WriteIP_f, SV_Cmd_Banip_f, SV_Cmd_Banremove_f, script
<1>6. CASE ~Execute
  BY <1>6, <1>2, <1>3 DEF Next, Reload, NoReload, NothingTyped, SV_CleanBansIPList, Typed,
       sighup_handler, Exits, Killed, Gone, Starts, EditCfg, Tick, script
<1> QED BY <1>4, <1>5, <1>6

LEMMA TypesStep == IInv /\ [Next]_vars => IInv'
<1> SUFFICES ASSUME IInv, [Next]_vars PROVE IInv'
  OBVIOUS
<1>1. CASE Next
  <2>1. BufOK' /\ LoopOK' /\ WhitelistOK' /\ FiltersOK' /\ FileOK' /\ AliasesOK'
    BY <1>1, BufStep, LoopStep, WhitelistStep, FiltersStep, FileStep, AliasesStep
  <2> QED BY <2>1 DEF IInv
<1>2. CASE UNCHANGED vars
  BY <1>2 DEF vars, IInv, BufOK, LoopOK, WhitelistOK, FiltersOK, FileOK, OrderedFile, AliasesOK
<1> QED BY <1>1, <1>2

(* The variables have their types, and neither the buffer nor the          *)
(* whitelist nor the filters outgrow their arrays (cmd.c, whitelist.c,     *)
(* ban.c).                                                                 *)
THEOREM ConsoleTypes == Spec => []TypeOK
<1>1. IInv => TypeOK
  BY DEF IInv, TypeOK, BufOK, LoopOK, WhitelistOK, FiltersOK, Filters, FileOK, OrderedFile,
         AliasesOK
<1>2. Spec => []IInv
  BY TypesStart, TypesStep, PTL DEF Spec
<1> QED BY <1>1, <1>2, PTL

-----------------------------------------------------------------------------
(* Bans reach the file.                                                    *)

IsBan(c) == c.op = "addip" /\ c.type = "ban"

IsList(c) == c.op = "exec" /\ c.name = "listip"

(* The administrator bans by banip: neither his files nor his lines have   *)
(* an addip of a ban, and only the program executes the file of filters.   *)
NoBansByHand ==
  \A c \in Command : /\ c.op = "exec" => c.name # "listip"
                     /\ c.op = "addip" => c.type = "safe"

(* There is room for the two commands that banip queues.                   *)
RoomToQueue == Runs("banip") => Len(buf) < MaxBuf

(* The i-th command adds a ban, and no writeip comes after it.             *)
Unwritten(b, i) == IsBan(b[i]) /\ \A j \in (i + 1)..Len(b) : b[j].op # "writeip"

CalmFrom(b, n) == \A i \in n..Len(b) : ~Unwritten(b, i) /\ ~IsList(b[i])

LinesThenCalm(b, n) ==
  /\ \A i \in 1..n : \E m \in 1..Len(file) : b[i] = file[m]
  /\ CalmFrom(b, n + 1)

(* A ban that no writeip follows is a line of the file, and these lines    *)
(* come first, while Ban_Init executes the file.                           *)
QueueInv ==
  \/ CalmFrom(buf, 1)
  \/ stage = "bans" /\ \E n \in 1..Len(buf) : LinesThenCalm(buf, n)
  \/ stage = "bans" /\ buf # <<>> /\ IsList(Head(buf)) /\ CalmFrom(Tail(buf), 1)

WritesYet(b) == \E j \in 1..Len(b) : b[j].op = "writeip"

AllFiled(fs, text) == \A i \in 1..Len(fs) : BanOnFile(fs[i], text)

FiledInv ==
  /\ stage \in {"start", "down"} => filters = <<>>
  /\ WritesYet(buf) \/ AllFiled(filters, file)

(* Text without bans, put into the buffer.                                 *)
Tame(text) == \A i \in 1..Len(text) : ~IsBan(text[i]) /\ ~IsList(text[i])

LEMMA CalmTail ==
  ASSUME NEW b \in Seq(Pending), b # <<>>, NEW n \in 1..Len(b), CalmFrom(b, n + 1)
  PROVE  CalmFrom(Tail(b), n)
<1> DEFINE t == Tail(b)
<1> HIDE DEF Pending
<1>1. /\ t \in Seq(Pending) /\ Len(b) \in Nat /\ Len(t) = Len(b) - 1
      /\ \A i \in 1..(Len(b) - 1) : t[i] = b[i + 1]
  BY TailElements
<1> HIDE DEF t
<1>2. ASSUME NEW i \in n..Len(t) PROVE ~Unwritten(t, i) /\ ~IsList(t[i])
  <2>1. i \in 1..(Len(b) - 1) /\ i + 1 \in (n + 1)..Len(b) /\ t[i] = b[i + 1]
    BY <1>1
  <2>2. ~Unwritten(b, i + 1) /\ ~IsList(b[i + 1])
    BY <2>1 DEF CalmFrom
  <2>3. ASSUME Unwritten(t, i) PROVE FALSE
    <3>1. ASSUME NEW j \in (i + 1 + 1)..Len(b) PROVE b[j].op # "writeip"
      <4> DEFINE k == j - 1
      <4>1. k \in (i + 1)..Len(t) /\ k \in 1..(Len(b) - 1) /\ k + 1 = j
        BY <1>1, <2>1
      <4> HIDE DEF k
      <4>2. t[k].op # "writeip" /\ t[k] = b[j]
        BY <4>1, <1>1, <2>3 DEF Unwritten
      <4> QED BY <4>2
    <3> QED BY <3>1, <2>1, <2>2, <2>3 DEF Unwritten
  <2> QED BY <2>1, <2>2, <2>3
<1> QED BY <1>2 DEF CalmFrom, t

LEMMA CalmJoins ==
  ASSUME NEW s \in Seq(Pending), NEW t \in Seq(Pending), Tame(s)
  PROVE  /\ CalmFrom(t, 1) => CalmFrom(s \o t, 1)
         /\ CalmFrom(t, 1) => CalmFrom(t \o s, 1)
<1> HIDE DEF Pending
<1>1. ASSUME CalmFrom(t, 1) PROVE CalmFrom(s \o t, 1)
  <2> DEFINE u == s \o t
  <2>1. Joins(u, s, t)
    BY ConcatElements
  <2> HIDE DEF u
  <2>2. /\ Len(s) \in Nat /\ Len(t) \in Nat /\ Len(u) = Len(s) + Len(t)
        /\ \A i \in 1..Len(s) : u[i] = s[i]
        /\ \A i \in 1..Len(t) : u[Len(s) + i] = t[i]
        /\ \A i \in 1..Len(u) : i \in 1..Len(s) \/ i - Len(s) \in 1..Len(t)
        /\ \A i \in 1..Len(u) : i - Len(s) \in 1..Len(t) => u[i] = t[i - Len(s)]
    BY <2>1 DEF Joins
  <2>3. ASSUME NEW i \in 1..Len(u) PROVE ~Unwritten(u, i) /\ ~IsList(u[i])
    <3>1. CASE i \in 1..Len(s)
      BY <2>2, <3>1 DEF Unwritten, Tame
    <3>2. CASE i - Len(s) \in 1..Len(t)
      <4> DEFINE k == i - Len(s)
      <4>1. u[i] = t[k] /\ k \in 1..Len(t) /\ i = Len(s) + k
        BY <2>2, <3>2
      <4>2. ~Unwritten(t, k) /\ ~IsList(t[k])
        BY <4>1, <1>1 DEF CalmFrom
      <4> HIDE DEF k
      <4>3. CASE IsBan(t[k])
        <5>1. PICK j \in (k + 1)..Len(t) : t[j].op = "writeip"
          BY <4>2, <4>3 DEF Unwritten
        <5>2. /\ Len(s) + j \in (i + 1)..Len(u) /\ j \in 1..Len(t)
          BY <5>1, <4>1, <2>2
        <5>3. u[Len(s) + j].op = "writeip"
          BY <5>1, <5>2, <2>2
        <5> QED BY <5>2, <5>3, <4>1, <4>2 DEF Unwritten
      <4>4. CASE ~IsBan(t[k])
        BY <4>1, <4>2, <4>4 DEF Unwritten
      <4> QED BY <4>3, <4>4
    <3> QED BY <3>1, <3>2, <2>2
  <2> QED BY <2>3 DEF CalmFrom, u
<1>2. ASSUME CalmFrom(t, 1) PROVE CalmFrom(t \o s, 1)
  <2> DEFINE u == t \o s
  <2>1. Joins(u, t, s)
    BY ConcatElements
  <2> HIDE DEF u
  <2>2. /\ Len(s) \in Nat /\ Len(t) \in Nat /\ Len(u) = Len(t) + Len(s)
        /\ \A i \in 1..Len(t) : u[i] = t[i]
        /\ \A i \in 1..Len(u) : i \in 1..Len(t) \/ i - Len(t) \in 1..Len(s)
        /\ \A i \in 1..Len(u) : i - Len(t) \in 1..Len(s) => u[i] = s[i - Len(t)]
    BY <2>1 DEF Joins
  <2>3. ASSUME NEW i \in 1..Len(u) PROVE ~Unwritten(u, i) /\ ~IsList(u[i])
    <3>1. CASE i \in 1..Len(t)
      <4>1. u[i] = t[i] /\ ~Unwritten(t, i) /\ ~IsList(t[i])
        BY <2>2, <3>1, <1>2 DEF CalmFrom
      <4>2. CASE IsBan(t[i])
        <5>1. PICK j \in (i + 1)..Len(t) : t[j].op = "writeip"
          BY <4>1, <4>2 DEF Unwritten
        <5>2. j \in (i + 1)..Len(u) /\ j \in 1..Len(t)
          BY <5>1, <3>1, <2>2
        <5>3. u[j].op = "writeip"
          BY <5>1, <5>2, <2>2
        <5> QED BY <5>2, <5>3, <4>1 DEF Unwritten
      <4>3. CASE ~IsBan(t[i])
        BY <4>1, <4>3 DEF Unwritten
      <4> QED BY <4>2, <4>3
    <3>2. CASE i - Len(t) \in 1..Len(s)
      BY <2>2, <3>2 DEF Unwritten, Tame
    <3> QED BY <3>1, <3>2, <2>2
  <2> QED BY <2>3 DEF CalmFrom, u
<1> QED BY <1>1, <1>2

(* A writeip that is not at the head stays in the buffer.                  *)
LEMMA WriteStays ==
  ASSUME NEW s \in Seq(Pending), NEW t \in Seq(Pending), WritesYet(t)
  PROVE  WritesYet(s \o t) /\ WritesYet(t \o s)
<1> HIDE DEF Pending
<1>1. PICK j \in 1..Len(t) : t[j].op = "writeip"
  BY DEF WritesYet
<1> DEFINE u == s \o t
           v == t \o s
<1>2. Joins(u, s, t) /\ Joins(v, t, s)
  BY ConcatElements
<1> HIDE DEF u, v
<1>3. Len(s) + j \in 1..Len(u) /\ u[Len(s) + j] = t[j]
  BY <1>2, <1>1 DEF Joins
<1>4. j \in 1..Len(v) /\ v[j] = t[j]
  BY <1>2, <1>1 DEF Joins
<1> QED BY <1>1, <1>3, <1>4 DEF WritesYet, u, v

LEMMA WriteInTail ==
  ASSUME NEW b \in Seq(Pending), b # <<>>, WritesYet(b), Head(b).op # "writeip"
  PROVE  WritesYet(Tail(b))
<1> HIDE DEF Pending
<1> DEFINE t == Tail(b)
<1>1. /\ Head(b) = b[1] /\ Len(b) \in Nat /\ Len(t) = Len(b) - 1
      /\ \A i \in 1..(Len(b) - 1) : t[i] = b[i + 1]
  BY TailElements
<1> HIDE DEF t
<1>2. PICK j \in 1..Len(b) : b[j].op = "writeip"
  BY DEF WritesYet
<1> DEFINE k == j - 1
<1>3. k \in 1..(Len(b) - 1) /\ k + 1 = j
  BY <1>1, <1>2
<1> HIDE DEF k
<1>4. k \in 1..Len(t) /\ t[k].op = "writeip"
  BY <1>1, <1>2, <1>3
<1> QED BY <1>4 DEF WritesYet, t

(* Text without bans leaves the rest as it is, whether it fits or not.     *)
LEMMA CalmText ==
  ASSUME NEW s \in Seq(Pending), NEW t \in Seq(Pending), Tame(s)
  PROVE  /\ CalmFrom(t, 1) => CalmFrom(Cbuf_InsertText(t, s), 1) /\ CalmFrom(Cbuf_AddText(t, s), 1)
         /\ WritesYet(t) => WritesYet(Cbuf_InsertText(t, s)) /\ WritesYet(Cbuf_AddText(t, s))
<1>1. CalmFrom(t, 1) => CalmFrom(s \o t, 1) /\ CalmFrom(t \o s, 1)
  BY CalmJoins
<1>2. WritesYet(t) => WritesYet(s \o t) /\ WritesYet(t \o s)
  BY WriteStays
<1> QED BY <1>1, <1>2 DEF Cbuf_InsertText, Cbuf_AddText

(* The addip that banip queues has its writeip behind it.                  *)
LEMMA CalmQueued ==
  ASSUME NEW b \in Seq(Pending), Len(b) + 2 <= MaxBuf, CalmFrom(b, 1),
         NEW k \in Key, NEW d \in Nat
  PROVE  /\ CalmFrom(Queued(b, k, d), 1)
         /\ WritesYet(b) => WritesYet(Queued(b, k, d))
<1> DEFINE c == AddIP(k, "ban", d, IF d = 0 THEN "epoch" ELSE "now")
           w == Plain("writeip")
           b1 == b \o <<c>>
           u == b1 \o <<w>>
<1>1. c \in Pending /\ w \in Pending /\ w.op = "writeip" /\ c.op = "addip"
  <2>1. (IF d = 0 THEN "epoch" ELSE "now") \in {"now", "epoch"} /\ "ban" \in Types
    BY DEF Types
  <2>2. c \in AddIPs
    BY <2>1, AddIPTypes
  <2>3. w.op = "writeip" /\ c.op = "addip"
    BY DEF Plain, AddIP
  <2> QED BY <2>2, <2>3, PendingMembers
<1> HIDE DEF c, w, Pending
<1>2. MaxBuf \in Nat /\ Len(b) \in Nat
  BY ConsoleAssumption
<1>3. Len(b1) = Len(b) + 1 /\ b1 \in Seq(Pending) /\ Len(<<c>>) = 1 /\ Len(<<w>>) = 1
  BY <1>1
<1>4. Queued(b, k, d) = b1 \o <<w>>
  <2>1. Cbuf_AddText(b, <<c>>) = b1
    BY <1>2, <1>3 DEF Cbuf_AddText
  <2> HIDE DEF b1
  <2>2. Cbuf_AddText(b1, <<w>>) = b1 \o <<w>>
    BY <1>2, <1>3 DEF Cbuf_AddText
  <2> QED BY <2>1, <2>2 DEF Queued, c, w
<1>5. <<c>> \in Seq(Pending) /\ <<w>> \in Seq(Pending) /\ <<c>>[1] = c /\ <<w>>[1] = w
  BY <1>1
<1>6. Joins(b1, b, <<c>>)
  BY <1>5, ConcatElements
<1>7. Joins(u, b1, <<w>>)
  <2> HIDE DEF b1
  <2> QED BY <1>3, <1>5, ConcatElements
<1> HIDE DEF u, b1
<1>8. /\ Len(u) = Len(b) + 2 /\ u[Len(b) + 1] = c /\ u[Len(b) + 2] = w
      /\ \A i \in 1..Len(b) : u[i] = b[i]
  <2>1. /\ Len(b1) = Len(b) + 1 /\ b1[Len(b) + 1] = c /\ \A i \in 1..Len(b) : b1[i] = b[i]
    BY <1>2, <1>3, <1>5, <1>6 DEF Joins
  <2>2. /\ Len(u) = Len(b1) + 1 /\ u[Len(b1) + 1] = w /\ \A i \in 1..Len(b1) : u[i] = b1[i]
    BY <1>3, <1>5, <1>7 DEF Joins
  <2>3. Len(b) + 1 \in 1..Len(b1) /\ \A i \in 1..Len(b) : i \in 1..Len(b1)
    BY <1>2, <2>1
  <2>4. Len(b1) + 1 = Len(b) + 2
    BY <1>2, <2>1
  <2> QED BY <2>1, <2>2, <2>3, <2>4
<1>9. ASSUME NEW i \in 1..Len(u) PROVE ~Unwritten(u, i) /\ ~IsList(u[i])
  <2> DEFINE last == Len(b) + 2
  <2>0. last \in 1..Len(u) /\ u[last].op = "writeip"
    BY <1>1, <1>2, <1>8
  <2> HIDE DEF last
  <2>1. CASE i \in 1..Len(b)
    <3>1. last \in (i + 1)..Len(u)
      BY <1>2, <2>1, <1>8 DEF last
    <3>2. ~IsList(u[i])
      BY <2>1, <1>8 DEF CalmFrom
    <3> QED BY <3>1, <3>2, <2>0 DEF Unwritten
  <2>2. CASE i = Len(b) + 1
    <3>1. last \in (i + 1)..Len(u)
      BY <1>2, <2>2, <1>8 DEF last
    <3>2. ~IsList(u[i])
      BY <2>2, <1>1, <1>8 DEF IsList
    <3> QED BY <3>1, <3>2, <2>0 DEF Unwritten
  <2>3. CASE i = Len(b) + 2
    BY <2>3, <1>1, <1>8 DEF IsList, IsBan, Unwritten
  <2> QED BY <2>1, <2>2, <2>3, <1>2, <1>8
<1>10. CalmFrom(u, 1)
  BY <1>9 DEF CalmFrom
<1>11. WritesYet(b) => WritesYet(u)
  BY <1>3, <1>5, WriteStays DEF u, b1
<1> QED BY <1>4, <1>10, <1>11 DEF u

(* What the administrator writes is tame.                                  *)
LEMMA TameTexts ==
  ASSUME NoBansByHand
  PROVE  /\ \A text \in Seq(Command) : Tame(text)
         /\ Tame(<<Plain("writeip")>>) /\ Tame(<<Exec("cfg")>>)
<1>1. \A c \in Command : ~IsBan(c) /\ ~IsList(c)
  BY DEF NoBansByHand, IsBan, IsList
<1>2. \A text \in Seq(Command) : \A i \in 1..Len(text) : text[i] \in Command
  OBVIOUS
<1>3. Tame(<<Plain("writeip")>>) /\ Tame(<<Exec("cfg")>>)
  BY DEF Tame, IsBan, IsList, Plain, Exec
<1> QED BY <1>1, <1>2, <1>3 DEF Tame

(* The lines of the file, one executed, or put into the buffer.            *)
LEMMA LinesTail ==
  ASSUME NEW b \in Seq(Pending), NEW n \in 1..Len(b), LinesThenCalm(b, n)
  PROVE  CalmFrom(Tail(b), 1) \/ \E m \in 1..Len(Tail(b)) : LinesThenCalm(Tail(b), m)
<1> HIDE DEF Pending
<1>1. b # <<>> /\ Len(b) \in Nat /\ n \in Nat
  OBVIOUS
<1>2. CalmFrom(Tail(b), n)
  BY <1>1, CalmTail DEF LinesThenCalm
<1> DEFINE t == Tail(b)
<1>3. /\ Len(t) = Len(b) - 1 /\ \A i \in 1..(Len(b) - 1) : t[i] = b[i + 1]
  BY <1>1, TailElements
<1> HIDE DEF t
<1>4. CASE n = 1
  BY <1>2, <1>4
<1>5. CASE n > 1
  <2> DEFINE m == n - 1
  <2>1. m \in 1..Len(t) /\ m + 1 = n
    BY <1>1, <1>3, <1>5
  <2> HIDE DEF m
  <2>2. ASSUME NEW i \in 1..m PROVE \E l \in 1..Len(file) : t[i] = file[l]
    <3>1. i \in 1..(Len(b) - 1) /\ i + 1 \in 1..n /\ t[i] = b[i + 1]
      BY <1>1, <1>3, <2>1
    <3> QED BY <3>1 DEF LinesThenCalm
  <2>3. LinesThenCalm(t, m)
    BY <2>1, <2>2, <1>2 DEF LinesThenCalm, t
  <2> QED BY <2>1, <2>3 DEF t
<1> QED BY <1>1, <1>4, <1>5

LEMMA LinesInserted ==
  ASSUME NEW b \in Seq(Pending), CalmFrom(b, 1), file \in Seq(AddIPs)
  PROVE  LET u == Cbuf_InsertText(b, file)
         IN  CalmFrom(u, 1) \/ \E n \in 1..Len(u) : LinesThenCalm(u, n)
<1> DEFINE u == file \o b
           n == Len(file)
<1>1. file \in Seq(Pending) /\ n \in Nat /\ Len(b) \in Nat
  BY TextsPend
<1> HIDE DEF Pending
<1>2. CASE n = 0
  <2>1. Tame(file)
    BY <1>1, <1>2 DEF Tame
  <2> QED BY <1>1, <2>1, CalmText
<1>3. CASE n > 0
  <2>1. Joins(u, file, b)
    BY <1>1, ConcatElements
  <2> HIDE DEF u
  <2>2. /\ Len(u) = n + Len(b) /\ \A i \in 1..n : u[i] = file[i]
        /\ \A i \in 1..Len(b) : u[n + i] = b[i]
        /\ \A i \in 1..Len(u) : i - n \in 1..Len(b) => u[i] = b[i - n]
    BY <2>1 DEF Joins
  <2>3. n \in 1..Len(u)
    BY <1>1, <1>3, <2>2
  <2>4. ASSUME NEW i \in (n + 1)..Len(u) PROVE ~Unwritten(u, i) /\ ~IsList(u[i])
    <3> DEFINE k == i - n
    <3>1. k \in 1..Len(b) /\ i = n + k /\ i \in 1..Len(u)
      BY <1>1, <2>2
    <3>2. u[i] = b[k]
      BY <2>2, <3>1
    <3>3. ~Unwritten(b, k) /\ ~IsList(b[k])
      BY <3>1 DEF CalmFrom
    <3> HIDE DEF k, n
    <3>4. CASE IsBan(b[k])
      <4>1. PICK j \in (k + 1)..Len(b) : b[j].op = "writeip"
        BY <3>3, <3>4 DEF Unwritten
      <4>2. n + j \in (i + 1)..Len(u) /\ j \in 1..Len(b)
        BY <4>1, <3>1, <2>2, <1>1
      <4>3. u[n + j].op = "writeip"
        BY <4>1, <4>2, <2>2
      <4> QED BY <4>2, <4>3, <3>2, <3>3 DEF Unwritten
    <3>5. CASE ~IsBan(b[k])
      BY <3>2, <3>3, <3>5 DEF Unwritten
    <3> QED BY <3>4, <3>5
  <2>5. LinesThenCalm(u, n)
    BY <2>2, <2>4 DEF LinesThenCalm, CalmFrom
  <2> QED BY <2>3, <2>5 DEF Cbuf_InsertText, u
<1> QED BY <1>1, <1>2, <1>3

(* What runs, and what it leaves, when the head is not a line.             *)
LEMMA CalmRest ==
  ASSUME BufOK, FileOK, QueueInv, buf # <<>>, Head(buf).op # "addip" \/ stage # "bans"
  PROVE  /\ CalmFrom(Tail(buf), 1)
         /\ ~IsList(Head(buf)) => CalmFrom(buf, 1)
         /\ IsList(Head(buf)) => stage = "bans"
<1>1. buf \in Seq(Pending) /\ file \in Seq(AddIPs)
  BY DEF BufOK, FileOK, OrderedFile
<1> HIDE DEF Pending
<1>2. Head(buf) = buf[1] /\ 1 \in 1..Len(buf)
  BY <1>1, TailElements
<1>3. ASSUME CalmFrom(buf, 1) PROVE CalmFrom(Tail(buf), 1) /\ ~IsList(Head(buf))
  <2>1. CalmFrom(buf, 1 + 1)
    BY <1>3 DEF CalmFrom
  <2>2. ~IsList(Head(buf))
    BY <1>2, <1>3 DEF CalmFrom
  <2> QED BY <1>1, <1>2, <2>1, <2>2, CalmTail
<1>4. ASSUME stage = "bans", NEW n \in 1..Len(buf), LinesThenCalm(buf, n) PROVE FALSE
  <2>1. PICK m \in 1..Len(file) : buf[1] = file[m]
    BY <1>4 DEF LinesThenCalm
  <2>2. file[m] \in AddIPs
    BY <1>1
  <2> QED BY <1>2, <1>4, <2>1, <2>2 DEF AddIPs
<1> QED BY <1>3, <1>4 DEF QueueInv

(* The bans that a step leaves on the file, unless it runs addip or        *)
(* writeip, or the process ends.                                           *)
LEMMA FiledStays ==
  ASSUME IInv, FiledInv, Next, ~SV_AddIP_f, ~SV_WriteIP_f, ~Gone
  PROVE  AllFiled(filters, file) => AllFiled(filters', file')
<1>1. Among(filters', filters) /\ file' = file
  BY FiltersStep, FileStep
<1>2. SUFFICES ASSUME AllFiled(filters, file), NEW i \in 1..Len(filters')
               PROVE  BanOnFile(filters'[i], file)
  BY <1>1 DEF AllFiled
<1>3. PICK j \in 1..Len(filters) : filters'[i] = filters[j]
  BY <1>1 DEF Among
<1> QED BY <1>2, <1>3 DEF AllFiled

(* A command put before the rest of the buffer is its head.                *)
LEMMA PutBefore ==
  ASSUME NEW b \in Seq(Pending), Len(b) < MaxBuf, NEW c \in Pending
  PROVE  LET u == Cbuf_InsertText(b, <<c>>)
         IN  u \in Seq(Pending) /\ u # <<>> /\ Head(u) = c /\ Tail(u) = b
<1> HIDE DEF Pending
<1>1. Len(b) \in Nat /\ MaxBuf \in Nat /\ Len(<<c>>) = 1
  BY ConsoleAssumption
<1>2. Cbuf_InsertText(b, <<c>>) = <<c>> \o b
  BY <1>1 DEF Cbuf_InsertText
<1>3. <<c>> \o b \in Seq(Pending) /\ Joins(<<c>> \o b, <<c>>, b)
  <2>1. <<c>> \in Seq(Pending)
    OBVIOUS
  <2> QED BY <2>1, ConcatElements
<1> DEFINE u == <<c>> \o b
<1> HIDE DEF u
<1>4. /\ u \in Seq(Pending) /\ Len(u) = 1 + Len(b) /\ u[1] = c
      /\ \A i \in 1..Len(b) : u[1 + i] = b[i]
  <2>1. 1 \in 1..Len(<<c>>) /\ <<c>>[1] = c
    BY <1>1
  <2> QED BY <1>1, <1>3, <2>1 DEF Joins, u
<1>5. u # <<>> /\ Head(u) = c
  BY <1>1, <1>4
<1>6. /\ Tail(u) \in Seq(Pending) /\ Len(Tail(u)) = Len(b)
      /\ \A i \in 1..Len(b) : Tail(u)[i] = u[i + 1]
  BY <1>1, <1>4, <1>5, TailElements
<1>7. \A i \in 1..Len(b) : Tail(u)[i] = b[i]
  BY <1>1, <1>4, <1>6
<1>8. Tail(u) = b
  BY <1>6, <1>7, SeqEqual
<1> QED BY <1>2, <1>4, <1>5, <1>8 DEF u

LEMMA EmptyAtStart ==
  ASSUME IInv, stage \in {"start", "down"} => filters = <<>>, Next
  PROVE  stage' \in {"start", "down"} => filters' = <<>>
<1>1. SUFFICES ASSUME stage' \in {"start", "down"}, ~Gone PROVE filters' = <<>>
  BY DEF Gone
<1>2. stage \in {"start", "down"} /\ ~SV_AddIP_f
  <2>1. CASE Execute
    <3>1. stage \in {"start", "down"}
      BY <1>1, <2>1 DEF Execute, ExecuteDone, Returns, NextStage, Executing, Cmd_Wait_f, Cmd_Exec_f,
         Cmd_Quit_f, Cmd_If_f, AliasCommand, RunAlias, Ignored, WhitelistCommand, SV_AddIP_f,
         SV_RemoveIP_f, SV_WriteIP_f, SV_Cmd_Banip_f, SV_Cmd_Banremove_f, loop, Runs, HasText
    <3>2. ~SV_AddIP_f
      BY <3>1 DEF SV_AddIP_f, Runs, HasText, Executing, Registered, FirstCommands
    <3> QED BY <3>1, <3>2
  <2>2. CASE ~Execute
    BY <1>1, <2>2 DEF Next, Execute, Reload, NoReload, NothingTyped, SV_CleanBansIPList, Typed,
       sighup_handler, Exits, Killed, Starts, EditCfg, Tick, loop
  <2> QED BY <2>1, <2>2
<1>3. Among(filters', filters) /\ filters = <<>> /\ FiltersOK'
  BY <1>1, <1>2, FiltersStep
<1>4. filters' \in Seq(Filters) /\ \A i \in 1..Len(filters') : FALSE
  BY <1>3 DEF Among, FiltersOK
<1> QED BY <1>4

(* Cbuf_Execute returns and leaves a rest in which every ban has its       *)
(* writeip.                                                                *)
LEMMA ReturnsCalm ==
  ASSUME NEW rest \in Seq(Pending), Len(rest) < MaxBuf, CalmFrom(rest, 1),
         stage \in Executing, Returns(rest)
  PROVE  QueueInv' /\ (WritesYet(rest) => WritesYet(buf'))
<1>1. CASE stage = "start"
  <2>1. /\ stage' = "bans" /\ buf' = Cbuf_InsertText(rest, <<Exec("listip")>>)
    BY <1>1 DEF Returns, NextStage
  <2>2. buf' # <<>> /\ Head(buf') = Exec("listip") /\ Tail(buf') = rest
    BY <2>1, PutBefore, PendingMembers
  <2>3. IsList(Head(buf'))
    BY <2>2 DEF IsList, Exec
  <2>4. <<Exec("listip")>> \in Seq(Pending)
    BY PendingMembers, TextsPend
  <2>5. WritesYet(rest) => WritesYet(buf')
    BY <2>1, <2>4, WriteStays DEF Cbuf_InsertText
  <2> QED BY <2>1, <2>2, <2>3, <2>5 DEF QueueInv
<1>2. CASE stage # "start"
  BY <1>2 DEF Returns, QueueInv
<1> QED BY <1>1, <1>2

(* A command other than addip that runs, or a name that stands for text.   *)
LEMMA QueueExecute ==
  ASSUME NoBansByHand, IInv, QueueInv, RoomToQueue, Execute, ~SV_AddIP_f
  PROVE  /\ QueueInv'
         /\ WritesYet(buf) /\ stage # "start" /\ ~SV_WriteIP_f => WritesYet(buf')
<1> DEFINE c == Head(buf)
           rest == Tail(buf)
           Keeps == WritesYet(buf) /\ stage # "start" /\ ~SV_WriteIP_f => WritesYet(buf')
<1>1. BufOK /\ FileOK /\ buf \in Seq(Pending) /\ Len(buf) <= MaxBuf /\ stage \in Executing
  BY DEF IInv, BufOK, Execute, ExecuteDone, Cmd_Wait_f, Cmd_Exec_f,
         Cmd_Quit_f, Cmd_If_f, AliasCommand, RunAlias, Ignored, WhitelistCommand, SV_AddIP_f,
         SV_RemoveIP_f, SV_WriteIP_f, SV_Cmd_Banip_f, SV_Cmd_Banremove_f, Runs, HasText
<1>2. CASE ExecuteDone
  <2>1. buf = <<>> /\ Returns(<<>>) /\ ~WritesYet(buf)
    BY <1>2 DEF ExecuteDone, WritesYet
  <2>2. <<>> \in Seq(Pending) /\ Len(<<>>) < MaxBuf /\ CalmFrom(<<>>, 1)
    BY ConsoleAssumption DEF CalmFrom
  <2> QED BY <1>1, <2>1, <2>2, ReturnsCalm
<1>3. CASE ~ExecuteDone
  <2>1. buf # <<>>
    BY <1>3 DEF Execute, Cmd_Wait_f, Cmd_Exec_f, Cmd_Quit_f, Cmd_If_f,
         AliasCommand, RunAlias, Ignored, WhitelistCommand, SV_AddIP_f, SV_RemoveIP_f,
         SV_WriteIP_f, SV_Cmd_Banip_f, SV_Cmd_Banremove_f, Runs, HasText
  <2>2. c \in Pending /\ rest \in Seq(Pending) /\ Len(rest) = Len(buf) - 1
    BY <1>1, <2>1, Running
  <2>3. c.op # "addip" \/ stage # "bans"
    BY <1>3 DEF Execute, Cmd_Wait_f, Cmd_Exec_f, Cmd_Quit_f, Cmd_If_f,
         AliasCommand, RunAlias, Ignored, WhitelistCommand, SV_RemoveIP_f,
         SV_WriteIP_f, SV_Cmd_Banip_f, SV_Cmd_Banremove_f, Runs, Registered, BanCommands
  <2>4. CalmFrom(rest, 1) /\ (IsList(c) => stage = "bans")
    BY <1>1, <2>1, <2>3, CalmRest
  <2>5. WritesYet(buf) /\ stage # "start" /\ ~SV_WriteIP_f => WritesYet(rest)
    <3>1. stage # "start" /\ ~SV_WriteIP_f => c.op # "writeip"
      BY <1>3 DEF Execute, Cmd_Wait_f, Cmd_Exec_f, Cmd_Quit_f, Cmd_If_f,
         AliasCommand, RunAlias, Ignored, WhitelistCommand, SV_RemoveIP_f,
         SV_Cmd_Banip_f, SV_Cmd_Banremove_f, Runs, Registered, BanCommands
    <3> QED BY <3>1, <1>1, <2>1, WriteInTail
  <2> HIDE DEF c, rest, Pending
  <2>6. CASE buf' = rest
    BY <2>4, <2>5, <2>6 DEF QueueInv
  <2>7. ASSUME NEW text \in Seq(Pending), Tame(text),
               buf' = Cbuf_InsertText(rest, text) \/ buf' = Cbuf_AddText(rest, text)
        PROVE  QueueInv' /\ Keeps
    BY <2>2, <2>4, <2>5, <2>7, CalmText DEF QueueInv
  <2>8. \A text \in Seq(Command) : text \in Seq(Pending) /\ Tame(text)
    BY TextsPend, TameTexts
  <2>9. <<Plain("writeip")>> \in Seq(Pending) /\ Tame(<<Plain("writeip")>>)
    BY TextsPend, TameTexts, PendingMembers
  <2>10. CASE Cmd_Wait_f
    <3>1. Len(rest) < MaxBuf
      BY <1>1, <2>2, ConsoleAssumption
    <3>2. Returns(rest)
      BY <2>10 DEF Cmd_Wait_f, rest
    <3> QED BY <1>1, <2>2, <2>4, <2>5, <3>1, <3>2, ReturnsCalm
  <2>11. CASE Cmd_Exec_f
    <3>1. c.op = "exec" /\ stage' = stage
          /\ buf' = Cbuf_InsertText(rest, IF c.name = "listip" THEN file ELSE cfg)
      BY <2>11 DEF Cmd_Exec_f, c, rest, Runs, loop
    <3>2. CASE c.name = "listip"
      <4>1. stage' = "bans"
        BY <2>4, <3>1, <3>2 DEF IsList
      <4>2. file \in Seq(AddIPs) /\ buf' = Cbuf_InsertText(rest, file) /\ file' = file
        BY <1>1, <2>11, <3>1, <3>2 DEF FileOK, OrderedFile, Cmd_Exec_f, bans
      <4>3. CalmFrom(buf', 1) \/ \E n \in 1..Len(buf') : LinesThenCalm(buf', n)
        BY <4>2, <2>2, <2>4, LinesInserted
      <4>4. QueueInv'
        <5>1. \A n : LinesThenCalm(buf', n) => LinesThenCalm(buf, n)'
          BY <4>2 DEF LinesThenCalm, CalmFrom, Unwritten
        <5> QED BY <4>1, <4>3, <5>1 DEF QueueInv
      <4>5. WritesYet(rest) => WritesYet(buf')
        <5>1. file \in Seq(Pending)
          BY <4>2, TextsPend
        <5> QED BY <4>2, <5>1, <2>2, WriteStays DEF Cbuf_InsertText
      <4> QED BY <4>4, <4>5, <2>5
    <3>3. CASE c.name # "listip"
      <4>1. cfg \in Seq(Command)
        BY CommandAssumption DEF IInv, LoopOK
      <4> QED BY <3>1, <3>3, <4>1, <2>7, <2>8
    <3> QED BY <3>2, <3>3
  <2>12. CASE Cmd_If_f
    <3>1. PICK text \in {c.then, c.else} : buf' = Cbuf_InsertText(rest, text)
      BY <2>12 DEF Cmd_If_f, c, rest
    <3>2. c.op = "if"
      BY <2>12 DEF Cmd_If_f, Runs, c
    <3>3. text \in Seq(Command)
      BY <3>1, <3>2, <2>2, PendingFields
    <3> QED BY <3>1, <3>3, <2>7, <2>8
  <2>13. CASE RunAlias
    <3>1. aliases[c.op] \in Seq(Command) /\ buf' = Cbuf_InsertText(rest, aliases[c.op])
      BY <2>13 DEF RunAlias, IInv, AliasesOK, c, rest
    <3> QED BY <3>1, <2>7, <2>8
  <2>14. CASE SV_Cmd_Banip_f
    <3>1. c.op = "banip"
      BY <2>14 DEF SV_Cmd_Banip_f, Runs, c
    <3>2. c.key \in Key /\ c.time \in Nat
      BY <3>1, <2>2, PendingFields
    <3>3. buf' = rest \/ buf' = Queued(rest, c.key, c.time)
      BY <2>14 DEF SV_Cmd_Banip_f, c, rest
    <3>4. Len(rest) + 2 <= MaxBuf
      <4>1. Len(buf) < MaxBuf
        BY <2>14 DEF RoomToQueue, SV_Cmd_Banip_f
      <4>2. Len(buf) \in Nat
        BY <1>1
      <4> QED BY <4>1, <4>2, <2>2, ConsoleAssumption
    <3>5. /\ CalmFrom(Queued(rest, c.key, c.time), 1)
          /\ WritesYet(rest) => WritesYet(Queued(rest, c.key, c.time))
      BY <3>2, <3>4, <2>2, <2>4, CalmQueued
    <3> QED BY <3>3, <3>5, <2>5, <2>6 DEF QueueInv
  <2>15. CASE SV_Cmd_Banremove_f
    BY <2>15, <2>6, <2>7, <2>9 DEF SV_Cmd_Banremove_f, rest
  <2>16. CASE \/ Cmd_Quit_f \/ AliasCommand \/ Ignored \/ WhitelistCommand
              \/ SV_RemoveIP_f \/ SV_WriteIP_f
    BY <2>16, <2>6 DEF Cmd_Quit_f, AliasCommand, Ignored, WhitelistCommand,
                       SV_RemoveIP_f, SV_WriteIP_f, rest
  <2> QED BY <1>3, <2>10, <2>11, <2>12, <2>13, <2>14, <2>15, <2>16 DEF Execute
<1> QED BY <1>2, <1>3

(* addip runs: a ban it makes is written later, or is a line of the file.  *)
LEMMA QueueAddIP ==
  ASSUME IInv, QueueInv, FiledInv, Next, SV_AddIP_f
  PROVE  QueueInv' /\ FiledInv'
<1> DEFINE c == Head(buf)
           rest == Tail(buf)
           f == Filter(c.key, c.type, Until(c))
<1>1. /\ BufOK /\ FileOK /\ buf \in Seq(Pending) /\ buf # <<>> /\ file \in Seq(AddIPs)
      /\ rest \in Seq(Pending) /\ Len(rest) = Len(buf) - 1 /\ c = buf[1]
      /\ \A i \in 1..(Len(buf) - 1) : rest[i] = buf[i + 1]
  <2>1. /\ BufOK /\ FileOK /\ buf \in Seq(Pending) /\ buf # <<>> /\ file \in Seq(AddIPs)
    BY DEF IInv, BufOK, FileOK, OrderedFile, SV_AddIP_f, Runs, HasText
  <2> HIDE DEF Pending
  <2> QED BY <2>1, TailElements
<1>2. /\ buf' = rest /\ stage' = stage /\ file' = file /\ c.op = "addip"
      /\ stage \in Executing /\ stage # "start"
  BY DEF SV_AddIP_f, loop, Runs, HasText, Registered, FirstCommands
<1>3. c \in AddIPs /\ Adds(filters', filters, f)
  <2>1. ~Gone
    BY <1>2 DEF Gone, Executing
  <2> QED BY <2>1, FiltersStep
<1>4. Len(buf) \in Nat /\ 1 \in 1..Len(buf)
  BY <1>1
<1> HIDE DEF Pending
<1>5. ~IsList(c)
  BY <1>2 DEF IsList
<1>7. ASSUME stage = "bans", NEW n \in 1..Len(buf), LinesThenCalm(buf, n)
      PROVE  QueueInv' /\ \E m \in 1..Len(file) : c = file[m]
  <2>1. CalmFrom(rest, 1) \/ \E m \in 1..Len(rest) : LinesThenCalm(rest, m)
    BY <1>1, <1>7, LinesTail
  <2> HIDE DEF rest
  <2>2. \A m : LinesThenCalm(rest, m) => LinesThenCalm(buf, m)'
    BY <1>2 DEF LinesThenCalm, CalmFrom, Unwritten
  <2>3. QueueInv'
    BY <1>2, <1>7, <2>1, <2>2 DEF QueueInv
  <2>4. 1 \in 1..n
    OBVIOUS
  <2> QED BY <1>1, <1>7, <2>3, <2>4 DEF LinesThenCalm
<1>8. QueueInv'
  <2> HIDE DEF rest
  <2>1. CASE CalmFrom(buf, 1)
    <3>1. CalmFrom(buf, 1 + 1)
      BY <2>1 DEF CalmFrom
    <3>2. CalmFrom(rest, 1)
      BY <1>1, <1>4, <3>1, CalmTail DEF rest
    <3> QED BY <1>2, <3>2 DEF QueueInv
  <2> QED BY <2>1, <1>5, <1>7 DEF QueueInv
<1>9. f.type = "ban" => WritesYet(rest) \/ BanOnFile(f, file)
  <2>1. SUFFICES ASSUME f.type = "ban", ~WritesYet(rest) PROVE BanOnFile(f, file)
    OBVIOUS
  <2>2. IsBan(c)
    BY <1>2, <2>1 DEF IsBan, Filter
  <2>3. ~CalmFrom(buf, 1)
    <3>1. ASSUME CalmFrom(buf, 1) PROVE FALSE
      <4>1. ~Unwritten(buf, 1)
        BY <1>4, <3>1 DEF CalmFrom
      <4>2. PICK j \in 2..Len(buf) : buf[j].op = "writeip"
        BY <4>1, <2>2, <1>1 DEF Unwritten
      <4> DEFINE k == j - 1
      <4>3. k \in 1..(Len(buf) - 1) /\ k + 1 = j
        BY <1>4, <4>2
      <4> HIDE DEF k, rest
      <4> QED BY <1>1, <2>1, <4>2, <4>3 DEF WritesYet
    <3> QED BY <3>1
  <2>4. PICK m \in 1..Len(file) : c = file[m]
    BY <2>3, <1>5, <1>7 DEF QueueInv
  <2>5. file[m].from = "epoch"
    BY <1>1 DEF FileOK, OrderedFile
  <2>6. file[m] = AddIP(f.key, "ban", f.until, "epoch")
    BY <1>3, <2>2, <2>4, <2>5 DEF Filter, Until, AddIP, AddIPs, IsBan
  <2> QED BY <2>6 DEF BanOnFile
<1>10. WritesYet(buf) => WritesYet(rest)
  BY <1>1, <1>2, WriteInTail
<1>11. AllFiled(filters, file) => WritesYet(rest) \/ AllFiled(filters', file)
  <2>1. SUFFICES ASSUME AllFiled(filters, file), ~WritesYet(rest),
                        NEW i \in 1..Len(filters')
                 PROVE  BanOnFile(filters'[i], file)
    BY DEF AllFiled
  <2>2. filters'[i] = f \/ \E j \in 1..Len(filters) : filters'[i] = filters[j]
    BY <1>3 DEF Adds
  <2>3. BanOnFile(f, file)
    BY <1>9, <2>1 DEF BanOnFile
  <2> QED BY <2>1, <2>2, <2>3 DEF AllFiled
<1>12. FiledInv'
  <2> HIDE DEF rest, f
  <2>1. stage' \notin {"start", "down"}
    BY <1>2 DEF Executing
  <2> QED BY <1>2, <1>10, <1>11, <2>1 DEF FiledInv
<1> QED BY <1>8, <1>12

LEMMA QueueStep ==
  ASSUME NoBansByHand, IInv, QueueInv, FiledInv, RoomToQueue, [Next]_vars
  PROVE  QueueInv' /\ FiledInv'
<1>1. BufOK /\ FileOK /\ buf \in Seq(Pending)
  BY DEF IInv, BufOK
<1>2. CASE UNCHANGED vars
  BY <1>2 DEF vars, QueueInv, FiledInv, CalmFrom, Unwritten, LinesThenCalm, WritesYet,
              AllFiled, BanOnFile
<1>3. CASE Next /\ SV_AddIP_f
  BY <1>3, QueueAddIP
<1>4. CASE Gone
  BY <1>4 DEF Gone, QueueInv, FiledInv, CalmFrom, AllFiled
<1>5. CASE Next /\ ~SV_AddIP_f /\ ~Gone
  <2>1. stage' \in {"start", "down"} => filters' = <<>>
    BY <1>5, EmptyAtStart DEF FiledInv
  <2>2. SV_WriteIP_f => AllFiled(filters', file')
    <3>1. SUFFICES ASSUME SV_WriteIP_f PROVE AllFiled(filters', file')
      OBVIOUS
    <3>2. file' = Written /\ filters' = filters
      BY <3>1 DEF SV_WriteIP_f
    <3>3. \A i \in 1..Len(filters) : BanOnFile(filters[i], Written)
      BY WrittenFile DEF IInv, FiltersOK
    <3> QED BY <3>2, <3>3 DEF AllFiled
  <2>3. ~SV_WriteIP_f => (AllFiled(filters, file) => AllFiled(filters', file'))
    BY <1>5, FiledStays
  <2>4. CASE Execute
    <3>1. /\ QueueInv'
          /\ WritesYet(buf) /\ stage # "start" /\ ~SV_WriteIP_f => WritesYet(buf')
      BY <1>5, <2>4, QueueExecute
    <3>2. stage = "start" => AllFiled(filters, file)
      BY DEF FiledInv, AllFiled
    <3> QED BY <2>1, <2>2, <2>3, <3>1, <3>2 DEF FiledInv
  <2>5. ASSUME buf' = buf, stage' = stage \/ stage # "bans", file' = file
        PROVE  QueueInv' /\ (WritesYet(buf) => WritesYet(buf'))
    <3>1. CalmFrom(buf, 1) => CalmFrom(buf', 1)
      BY <2>5
    <3>2. \A n : LinesThenCalm(buf, n) => LinesThenCalm(buf, n)'
      BY <2>5 DEF LinesThenCalm, CalmFrom, Unwritten
    <3> QED BY <2>5, <3>1, <3>2 DEF QueueInv
  <2>6. ASSUME NEW text \in Seq(Pending), Tame(text), CalmFrom(buf, 1),
               buf' = Cbuf_InsertText(buf, text)
        PROVE  QueueInv' /\ (WritesYet(buf) => WritesYet(buf'))
    BY <2>6, <1>1, CalmText DEF QueueInv
  <2>7. stage # "bans" => CalmFrom(buf, 1)
    BY DEF QueueInv
  <2>8. ~Execute => ~SV_WriteIP_f
    BY DEF Execute
  <2>9. ~Execute /\ ~Starts => QueueInv' /\ (WritesYet(buf) => WritesYet(buf'))
    <3>1. CASE NoReload \/ NothingTyped \/ SV_CleanBansIPList \/ sighup_handler
               \/ (\E x \in Configs : EditCfg(x)) \/ Tick
      BY <3>1, <2>5 DEF NoReload, NothingTyped, SV_CleanBansIPList, sighup_handler, EditCfg,
                        Tick, loop, bans
    <3>2. CASE Reload
      <4>1. <<Exec("cfg")>> \in Seq(Pending) /\ Tame(<<Exec("cfg")>>)
        BY TextsPend, PendingMembers, TameTexts
      <4> QED BY <3>2, <4>1, <2>6, <2>7 DEF Reload
    <3>3. CASE \E line \in Lines : Typed(line)
      <4>1. PICK line \in Lines : Typed(line)
        BY <3>3
      <4>2. line \in Seq(Pending) /\ Tame(line)
        BY TextsPend, TameTexts, CommandAssumption
      <4> QED BY <4>1, <4>2, <2>6, <2>7 DEF Typed
    <3> QED BY <1>5, <3>1, <3>2, <3>3 DEF Next, Exits, Killed
  <2>10. Starts => QueueInv' /\ AllFiled(filters', file')
    <3>1. SUFFICES ASSUME Starts PROVE QueueInv' /\ AllFiled(filters', file')
      OBVIOUS
    <3>2. <<Exec("cfg")>> \in Seq(Pending) /\ Tame(<<Exec("cfg")>>)
      BY TextsPend, PendingMembers, TameTexts
    <3>3. <<>> \in Seq(Pending) /\ CalmFrom(<<>>, 1)
      BY DEF CalmFrom
    <3>4. CalmFrom(buf', 1)
      BY <3>1, <3>2, <3>3, CalmText DEF Starts
    <3>5. filters' = <<>>
      BY <3>1 DEF Starts, FiledInv, bans
    <3> QED BY <3>4, <3>5 DEF QueueInv, AllFiled
  <2> QED BY <2>1, <2>2, <2>3, <2>4, <2>8, <2>9, <2>10 DEF FiledInv
<1> QED BY <1>2, <1>3, <1>4, <1>5

(* Every ban made by banip gets to the file: once nothing is pending, each *)
(* ban in force is there with its end (ban.c:447-452), for any commands    *)
(* between, reloads, kills and restarts, as long as no ban is made by hand *)
(* and what banip queues fits into the buffer.                             *)
THEOREM BansReachTheFile ==
  ASSUME NoBansByHand
  PROVE  Spec /\ []RoomToQueue => []BansOnFile
<1> DEFINE Inv == IInv /\ QueueInv /\ FiledInv
<1>1. Init => Inv
  BY TypesStart DEF Init, QueueInv, FiledInv, CalmFrom, AllFiled
<1>2. Inv /\ RoomToQueue /\ [Next]_vars => Inv'
  BY TypesStep, QueueStep
<1>3. Inv => BansOnFile
  <2>1. SUFFICES ASSUME Inv, buf = <<>>, NEW i \in DOMAIN filters, filters[i].type = "ban"
                 PROVE  \E j \in DOMAIN file :
                          file[j] = AddIP(filters[i].key, "ban", filters[i].until, "epoch")
    BY DEF BansOnFile
  <2>2. DOMAIN filters = 1..Len(filters) /\ DOMAIN file = 1..Len(file)
    BY <2>1 DEF IInv, FiltersOK, FileOK, OrderedFile
  <2>3. ~WritesYet(buf)
    BY <2>1 DEF WritesYet
  <2>4. BanOnFile(filters[i], file)
    BY <2>1, <2>2, <2>3 DEF FiledInv, AllFiled
  <2> QED BY <2>1, <2>2, <2>4 DEF BanOnFile
<1> QED BY <1>1, <1>2, <1>3, PTL DEF Spec

-----------------------------------------------------------------------------
(* The whitelist is that of the file.                                      *)

(* WhitelistAfter goes through the commands one by one.                    *)
LEMMA WhitelistSteps ==
  ASSUME NEW text \in Seq(Command)
  PROVE  /\ WhitelistAfter(text, 0) = {}
         /\ \A i \in 1..Len(text) :
              WhitelistAfter(text, i) = Whitelisted(WhitelistAfter(text, i - 1), text[i])
<1> DEFINE N == Len(text)
           S == SUBSET Host
           first == {}
           Step == [p \in S \X (1..N) |-> Whitelisted(p[1], text[p[2]])]
           IsW(g) == g = [i \in 0..Len(text) |->
                            IF i = 0 THEN {} ELSE Whitelisted(g[i - 1], text[i])]
           w == CHOOSE g : IsW(g)
<1>1. N \in Nat /\ first \in S /\ \A i \in 1..N : text[i] \in Command
  OBVIOUS
<1>2. ASSUME NEW x \in S, NEW i \in 1..N PROVE Whitelisted(x, text[i]) \in S
  <2>1. text[i].op \in {"whitelistadd", "whitelistremove"} => text[i].addr \in Host
    BY <1>1, CommandAssumption
  <2> QED BY <2>1 DEF Whitelisted
<1>3. Step \in [S \X (1..N) -> S]
  BY <1>2
<1> HIDE DEF Step, first, S, N
<1>4. PICK f : Iterates(f, S, first, N, Step)
  BY <1>1, <1>3, RecursionTo
<1>5. /\ f \in [0..N -> S] /\ f[0] = {}
      /\ \A i \in 1..N : f[i] = Whitelisted(f[i - 1], text[i])
  <2>1. f \in [0..N -> S] /\ f[0] = {} /\ \A i \in 1..N : f[i] = Step[<<f[i - 1], i>>]
    BY <1>4 DEF Iterates, first
  <2>2. ASSUME NEW i \in 1..N PROVE f[i] = Whitelisted(f[i - 1], text[i])
    <3>1. i - 1 \in 0..N
      BY <1>1
    <3>2. f[i - 1] \in S
      BY <2>1, <3>1
    <3> QED BY <2>1, <3>2 DEF Step
  <2> QED BY <2>1, <2>2
<1>6. IsW(f)
  <2>1. \A i \in 0..N : i # 0 => i \in 1..N
    BY <1>1
  <2>2. ASSUME NEW i \in 0..N
        PROVE  f[i] = IF i = 0 THEN {} ELSE Whitelisted(f[i - 1], text[i])
    BY <1>5, <2>1
  <2> QED BY <1>5, <2>2, Zenon DEF N
<1>7. IsW(w)
  <2> HIDE DEF IsW
  <2> QED BY <1>6
<1>8. \A n : WhitelistAfter(text, n) = w[n]
  BY DEF WhitelistAfter
<1> HIDE DEF w
<1>9. \A i \in 0..N : w[i] = IF i = 0 THEN {} ELSE Whitelisted(w[i - 1], text[i])
  BY <1>7 DEF N
<1>10. 0 \in 0..N /\ \A i \in 1..N : i \in 0..N /\ i # 0
  BY <1>1
<1> QED BY <1>8, <1>9, <1>10 DEF N

Touches(c) == c.op \in {"whitelistadd", "whitelistremove", "whitelistpurge", "exec"}

Quiet(text) == \A i \in 1..Len(text) : ~Touches(text[i])

(* Only qwfwd.cfg has commands of the whitelist: no line, no alias and no  *)
(* conditional text has them, or executes a file.                          *)
OnlyTheFileRestricts ==
  /\ \A line \in Lines : Quiet(line)
  /\ \A c \in Command : /\ c.op = "alias" => Quiet(c.text)
                        /\ c.op = "if" => Quiet(c.then) /\ Quiet(c.else)

(* No alias stands for what the command says.                              *)
NoAlias(c) == c.op \in FirstCommands \/ \A a \in Command : a.op = "alias" => a.name # c.op

(* qwfwd.cfg waits once at most and runs no other text.                    *)
PlainConfigs ==
  \A text \in Configs :
    /\ \A i \in 1..Len(text) : text[i].op \notin {"exec", "if"} /\ NoAlias(text[i])
    /\ \A i, j \in 1..Len(text) : text[i].op = "wait" /\ text[j].op = "wait" => i = j

(* There is room for qwfwd.cfg.                                            *)
RoomForConfig ==
  /\ stage = "top" => Len(buf) < MaxBuf
  /\ Runs("exec") /\ Head(buf).name # "listip" => Len(Tail(buf)) + Len(cfg) <= MaxBuf

(* What Ban_Init executes: its file, and the lines of it.                  *)
Listed(c) == IsList(c) \/ c.op = "addip"

(* In the buffer b are a commands of Ban_Init, then those of the text l    *)
(* after its first q, then none that touches the whitelist.                *)
At(b, l, a, q) ==
  /\ Len(b) >= a + (Len(l) - q)
  /\ \A i \in 1..a : Listed(b[i])
  /\ \A i \in 1..(Len(l) - q) : b[a + i] = l[q + i]
  /\ \A i \in (a + (Len(l) - q) + 1)..Len(b) : ~Touches(b[i])

LEMMA AtEnd ==
  ASSUME NEW b \in Seq(Pending), NEW l \in Seq(Pending)
  PROVE  At(b, l, 0, Len(l)) <=> Quiet(b)
<1>1. Len(b) \in Nat /\ Len(l) \in Nat
  OBVIOUS
<1> QED BY <1>1 DEF At, Quiet

LEMMA AtTail ==
  ASSUME NEW b \in Seq(Pending), b # <<>>, NEW l \in Seq(Pending),
         NEW a \in Nat, NEW q \in 0..Len(l), At(b, l, a, q)
  PROVE  /\ a > 0 => Listed(Head(b)) /\ At(Tail(b), l, a - 1, q)
         /\ a = 0 /\ q < Len(l) => Head(b) = l[q + 1] /\ At(Tail(b), l, 0, q + 1)
         /\ a = 0 /\ q = Len(l) => ~Touches(Head(b)) /\ At(Tail(b), l, 0, q)
<1> HIDE DEF Pending
<1> DEFINE t == Tail(b)
           N == Len(l)
<1>1. /\ Head(b) = b[1] /\ Len(b) \in Nat /\ Len(b) >= 1 /\ Len(t) = Len(b) - 1
      /\ \A i \in 1..(Len(b) - 1) : t[i] = b[i + 1]
  BY TailElements
<1>2. N \in Nat /\ q \in Nat /\ q <= N
  OBVIOUS
<1>3. /\ Len(b) >= a + (N - q)
      /\ \A i \in 1..a : Listed(b[i])
      /\ \A i \in 1..(N - q) : b[a + i] = l[q + i]
      /\ \A i \in (a + (N - q) + 1)..Len(b) : ~Touches(b[i])
  BY DEF At
<1> HIDE DEF t, N
<1>4. CASE a > 0
  <2> DEFINE d == a - 1
  <2>1. d \in Nat /\ d + 1 = a /\ Len(t) >= d + (N - q) /\ 1 \in 1..a
    BY <1>1, <1>2, <1>3, <1>4
  <2> HIDE DEF d
  <2>2. ASSUME NEW i \in 1..d PROVE Listed(t[i])
    <3>1. i \in 1..(Len(b) - 1) /\ i + 1 \in 1..a
      BY <1>1, <1>2, <1>3, <2>1
    <3> QED BY <3>1, <1>1, <1>3
  <2>3. ASSUME NEW i \in 1..(N - q) PROVE t[d + i] = l[q + i]
    <3> DEFINE k == d + i
    <3>1. k \in 1..(Len(b) - 1) /\ k + 1 = a + i
      BY <1>1, <1>2, <1>3, <2>1
    <3> HIDE DEF k
    <3>2. t[k] = b[a + i]
      BY <3>1, <1>1
    <3> QED BY <3>2, <1>3 DEF k
  <2>4. ASSUME NEW i \in (d + (N - q) + 1)..Len(t) PROVE ~Touches(t[i])
    <3>1. i \in 1..(Len(b) - 1) /\ i + 1 \in (a + (N - q) + 1)..Len(b)
      BY <1>1, <1>2, <1>3, <2>1
    <3> QED BY <3>1, <1>1, <1>3
  <2>5. At(t, l, d, q)
    BY <2>1, <2>2, <2>3, <2>4 DEF At, N
  <2> QED BY <1>1, <1>3, <1>4, <2>1, <2>5 DEF t, d
<1>5. CASE a = 0 /\ q < N
  <2>1. 1 \in 1..(N - q) /\ Len(t) >= 0 + (N - (q + 1))
    BY <1>1, <1>2, <1>3, <1>5
  <2>2. b[1] = l[q + 1]
    BY <2>1, <1>3, <1>5
  <2>3. ASSUME NEW i \in 1..(N - (q + 1)) PROVE t[0 + i] = l[q + 1 + i]
    <3> DEFINE k == i + 1
    <3>1. i \in 1..(Len(b) - 1) /\ k \in 1..(N - q) /\ 0 + i = i /\ q + 1 + i = q + k
          /\ a + k = i + 1
      BY <1>1, <1>2, <1>3, <1>5
    <3> HIDE DEF k
    <3>2. t[i] = b[i + 1] /\ b[a + k] = l[q + k]
      BY <3>1, <1>1, <1>3
    <3> QED BY <3>1, <3>2
  <2>4. ASSUME NEW i \in (0 + (N - (q + 1)) + 1)..Len(t) PROVE ~Touches(t[i])
    <3>1. i \in 1..(Len(b) - 1) /\ i + 1 \in (a + (N - q) + 1)..Len(b)
      BY <1>1, <1>2, <1>3, <1>5
    <3> QED BY <3>1, <1>1, <1>3
  <2>5. At(t, l, 0, q + 1)
    BY <2>1, <2>3, <2>4 DEF At, N
  <2> QED BY <1>1, <1>5, <2>2, <2>5 DEF t, N
<1>6. CASE a = 0 /\ q = N
  <2>1. Quiet(b)
    BY <1>6, AtEnd DEF N
  <2>2. 1 \in 1..Len(b) /\ \A i \in 1..Len(t) : i \in 1..(Len(b) - 1) /\ i + 1 \in 1..Len(b)
    BY <1>1
  <2>3. ~Touches(Head(b)) /\ Quiet(t)
    BY <1>1, <2>1, <2>2 DEF Quiet
  <2>4. t \in Seq(Pending)
    BY TailElements DEF t
  <2>5. At(t, l, 0, Len(l))
    BY <2>3, <2>4, AtEnd
  <2> QED BY <1>6, <2>3, <2>5 DEF t, N
<1> QED BY <1>2, <1>4, <1>5, <1>6 DEF t, N

LEMMA AtInsert ==
  ASSUME NEW b \in Seq(Pending), NEW l \in Seq(Pending),
         NEW a \in Nat, NEW q \in 0..Len(l), At(b, l, a, q),
         NEW text \in Seq(Pending), \A i \in 1..Len(text) : Listed(text[i])
  PROVE  At(text \o b, l, Len(text) + a, q)
<1> HIDE DEF Pending
<1> DEFINE u == text \o b
           N == Len(l)
           M == Len(text)
           d == M + a
<1>1. Joins(u, text, b)
  BY ConcatElements
<1> HIDE DEF u
<1>2. /\ M \in Nat /\ Len(b) \in Nat /\ Len(u) = M + Len(b)
      /\ \A i \in 1..M : u[i] = text[i]
      /\ \A i \in 1..Len(u) : i \in 1..M \/ i - M \in 1..Len(b)
      /\ \A i \in 1..Len(u) : i - M \in 1..Len(b) => u[i] = b[i - M]
  BY <1>1 DEF Joins
<1>3. N \in Nat /\ q \in Nat /\ q <= N /\ a \in Nat
  OBVIOUS
<1>4. /\ Len(b) >= a + (N - q)
      /\ \A i \in 1..a : Listed(b[i])
      /\ \A i \in 1..(N - q) : b[a + i] = l[q + i]
      /\ \A i \in (a + (N - q) + 1)..Len(b) : ~Touches(b[i])
  BY DEF At
<1>4a. \A i \in 1..M : Listed(text[i])
  OBVIOUS
<1> HIDE DEF N, M
<1>5. Len(u) >= d + (N - q) /\ d \in Nat
  BY <1>2, <1>3, <1>4
<1>6. ASSUME NEW i \in 1..d PROVE Listed(u[i])
  <2>1. i \in 1..Len(u)
    BY <1>2, <1>3, <1>4
  <2>2. CASE i \in 1..M
    BY <1>2, <1>4a, <2>2
  <2>3. CASE i - M \in 1..Len(b)
    <3>1. u[i] = b[i - M] /\ i - M \in 1..a
      BY <1>2, <1>3, <2>1, <2>3
    <3> QED BY <3>1, <1>4
  <2> QED BY <1>2, <2>1, <2>2, <2>3
<1>7. ASSUME NEW i \in 1..(N - q) PROVE u[d + i] = l[q + i]
  <2> DEFINE k == d + i
  <2>1. k \in 1..Len(u) /\ k - M \in 1..Len(b) /\ k - M = a + i
    BY <1>2, <1>3, <1>4
  <2> HIDE DEF k
  <2>2. u[k] = b[k - M]
    BY <1>2, <2>1
  <2> QED BY <2>1, <2>2, <1>4 DEF k
<1>8. ASSUME NEW i \in (d + (N - q) + 1)..Len(u) PROVE ~Touches(u[i])
  <2>1. i \in 1..Len(u) /\ i - M \in 1..Len(b) /\ i - M \in (a + (N - q) + 1)..Len(b)
    BY <1>2, <1>3, <1>4
  <2>2. u[i] = b[i - M]
    BY <1>2, <2>1
  <2> QED BY <2>1, <2>2, <1>4
<1> HIDE DEF d
<1>9. At(u, l, d, q)
  BY <1>5, <1>6, <1>7, <1>8 DEF At, N
<1> QED BY <1>9 DEF u, d, M

LEMMA AtAdd ==
  ASSUME NEW b \in Seq(Pending), NEW l \in Seq(Pending),
         NEW a \in Nat, NEW q \in 0..Len(l), At(b, l, a, q),
         NEW text \in Seq(Pending), Quiet(text)
  PROVE  At(b \o text, l, a, q)
<1> HIDE DEF Pending
<1> DEFINE u == b \o text
           N == Len(l)
           M == Len(text)
<1>1. Joins(u, b, text)
  BY ConcatElements
<1> HIDE DEF u
<1>2. /\ M \in Nat /\ Len(b) \in Nat /\ Len(u) = Len(b) + M
      /\ \A i \in 1..Len(b) : u[i] = b[i]
      /\ \A i \in 1..Len(u) : i \in 1..Len(b) \/ i - Len(b) \in 1..M
      /\ \A i \in 1..Len(u) : i - Len(b) \in 1..M => u[i] = text[i - Len(b)]
  BY <1>1 DEF Joins
<1>3. N \in Nat /\ q \in Nat /\ q <= N /\ a \in Nat
  OBVIOUS
<1>4. /\ Len(b) >= a + (N - q)
      /\ \A i \in 1..a : Listed(b[i])
      /\ \A i \in 1..(N - q) : b[a + i] = l[q + i]
      /\ \A i \in (a + (N - q) + 1)..Len(b) : ~Touches(b[i])
  BY DEF At
<1>4a. \A i \in 1..M : ~Touches(text[i])
  BY DEF Quiet
<1> HIDE DEF N, M
<1>5. Len(u) >= a + (N - q)
  BY <1>2, <1>3, <1>4
<1>6. \A i \in 1..a : Listed(u[i])
  <2>1. \A i \in 1..a : i \in 1..Len(b)
    BY <1>2, <1>3, <1>4
  <2> QED BY <2>1, <1>2, <1>4
<1>7. ASSUME NEW i \in 1..(N - q) PROVE u[a + i] = l[q + i]
  <2> DEFINE k == a + i
  <2>1. k \in 1..Len(b)
    BY <1>2, <1>3, <1>4
  <2> HIDE DEF k
  <2>2. u[k] = b[k]
    BY <1>2, <2>1
  <2> QED BY <2>2, <1>4 DEF k
<1>8. ASSUME NEW i \in (a + (N - q) + 1)..Len(u) PROVE ~Touches(u[i])
  <2>1. i \in 1..Len(u)
    BY <1>2, <1>3, <1>4
  <2>2. CASE i \in 1..Len(b)
    <3>1. i \in (a + (N - q) + 1)..Len(b)
      BY <1>2, <1>3, <2>2
    <3> QED BY <3>1, <2>2, <1>2, <1>4
  <2>3. CASE i - Len(b) \in 1..M
    BY <2>1, <2>3, <1>2, <1>4a
  <2> QED BY <1>2, <2>1, <2>2, <2>3
<1>9. At(u, l, a, q)
  BY <1>5, <1>6, <1>7, <1>8 DEF At, N
<1> QED BY <1>9 DEF u

(* A text that has just been read comes before what was pending.           *)
LEMMA AtRead ==
  ASSUME NEW b \in Seq(Pending), NEW l \in Seq(Pending), Quiet(b)
  PROVE  At(l \o b, l, 0, 0)
<1> HIDE DEF Pending
<1> DEFINE u == l \o b
           N == Len(l)
<1>1. Joins(u, l, b)
  BY ConcatElements
<1> HIDE DEF u
<1>2. /\ N \in Nat /\ Len(b) \in Nat /\ Len(u) = N + Len(b)
      /\ \A i \in 1..N : u[i] = l[i]
      /\ \A i \in 1..Len(u) : i - N \in 1..Len(b) => u[i] = b[i - N]
  BY <1>1 DEF Joins
<1> HIDE DEF N
<1>3. \A i \in 1..(N - 0) : u[0 + i] = l[0 + i]
  BY <1>2
<1>4. ASSUME NEW i \in (0 + (N - 0) + 1)..Len(u) PROVE ~Touches(u[i])
  <2>1. i \in 1..Len(u) /\ i - N \in 1..Len(b)
    BY <1>2
  <2> QED BY <2>1, <1>2 DEF Quiet
<1>5. At(u, l, 0, 0)
  BY <1>2, <1>3, <1>4 DEF At, N
<1> QED BY <1>5 DEF u

(* Text that does not touch the whitelist, put into the buffer.            *)
LEMMA QuietText ==
  ASSUME NEW s \in Seq(Pending), NEW t \in Seq(Pending), Quiet(s), Quiet(t)
  PROVE  Quiet(Cbuf_InsertText(t, s)) /\ Quiet(Cbuf_AddText(t, s))
<1> HIDE DEF Pending
<1>1. ASSUME NEW x \in Seq(Pending), NEW y \in Seq(Pending), Quiet(x), Quiet(y)
      PROVE  Quiet(x \o y)
  <2>1. Joins(x \o y, x, y)
    BY ConcatElements
  <2> DEFINE u == x \o y
  <2> HIDE DEF u
  <2>2. \A i \in 1..Len(u) :
          \/ i \in 1..Len(x) /\ u[i] = x[i]
          \/ i - Len(x) \in 1..Len(y) /\ u[i] = y[i - Len(x)]
    BY <2>1 DEF Joins, u
  <2>3. Quiet(u)
    BY <2>2, <1>1 DEF Quiet
  <2> QED BY <2>3 DEF u
<1>2. Quiet(s \o t) /\ Quiet(t \o s)
  BY <1>1
<1> QED BY <1>2 DEF Cbuf_InsertText, Cbuf_AddText

LEMMA AtAddText ==
  ASSUME NEW b \in Seq(Pending), NEW l \in Seq(Pending),
         NEW a \in Nat, NEW q \in 0..Len(l), At(b, l, a, q),
         NEW text \in Seq(Pending), Quiet(text)
  PROVE  At(Cbuf_AddText(b, text), l, a, q)
  BY AtAdd DEF Cbuf_AddText

(* What banip queues does not touch the whitelist.                         *)
LEMMA AtQueued ==
  ASSUME NEW b \in Seq(Pending), Len(b) <= MaxBuf, NEW l \in Seq(Pending),
         NEW a \in Nat, NEW q \in 0..Len(l), At(b, l, a, q),
         NEW k \in Key, NEW d \in Nat
  PROVE  At(Queued(b, k, d), l, a, q)
<1> DEFINE c == AddIP(k, "ban", d, IF d = 0 THEN "epoch" ELSE "now")
           w == Plain("writeip")
           b1 == Cbuf_AddText(b, <<c>>)
<1>1. c \in Pending /\ w \in Pending /\ ~Touches(c) /\ ~Touches(w)
  <2>1. (IF d = 0 THEN "epoch" ELSE "now") \in {"now", "epoch"} /\ "ban" \in Types
    BY DEF Types
  <2>2. c \in AddIPs
    BY <2>1, AddIPTypes
  <2>3. ~Touches(w) /\ ~Touches(c)
    BY DEF Plain, AddIP, Touches
  <2> QED BY <2>2, <2>3, PendingMembers
<1> HIDE DEF c, w
<1>2. <<c>> \in Seq(Pending) /\ <<w>> \in Seq(Pending) /\ Quiet(<<c>>) /\ Quiet(<<w>>)
  BY <1>1, TextsPend DEF Quiet
<1>3. b1 \in Seq(Pending) /\ At(b1, l, a, q)
  BY <1>2, TextFits, AtAddText
<1> HIDE DEF b1
<1>4. At(Cbuf_AddText(b1, <<w>>), l, a, q)
  BY <1>2, <1>3, AtAddText
<1> QED BY <1>4 DEF Queued, b1, c, w

NoWaitFrom(l, q) == \A i \in (q + 1)..Len(l) : l[i].op # "wait"

(* Ban_Init's commands are there only in its stage; after the first wait   *)
(* of the file there is no other; and when the loop goes on, the file has  *)
(* been executed.                                                          *)
StageOK(s, l, a, q) ==
  /\ s # "down"
  /\ s # "bans" => a = 0
  /\ s \in {"bans", "commands"} => NoWaitFrom(l, q)
  /\ s \notin {"start", "reload", "bans", "commands"} => q = Len(l)

Fresh ==
  /\ stage \in {"start", "reload"} /\ whitelist = {}
  /\ buf # <<>> /\ Head(buf) = Exec("cfg") /\ Quiet(Tail(buf))

GoingOn(a, q) ==
  /\ At(buf, loaded, a, q)
  /\ StageOK(stage, loaded, a, q)
  /\ whitelist = WhitelistAfter(loaded, q)

Going == \E a \in Nat : \E q \in 0..Len(loaded) : GoingOn(a, q)

(* qwfwd.cfg is about to be executed, the whitelist empty; or part of it   *)
(* has been, and the whitelist is what this part makes.                    *)
RestrictInv == \/ stage = "down" /\ whitelist = {}
               \/ Fresh
               \/ Going

LEMMA LoadedText ==
  ASSUME IInv
  PROVE  loaded \in Seq(Command) /\ loaded \in Seq(Pending) /\ Len(loaded) \in Nat
<1>1. loaded \in Configs \/ loaded = <<>>
  BY DEF IInv, LoopOK
<1>2. Configs \subseteq Seq(Command) /\ <<>> \in Seq(Command)
  BY CommandAssumption
<1>3. loaded \in Seq(Command)
  BY <1>1, <1>2
<1> QED BY <1>3, TextsPend

(* What an alias stands for, and what a condition chooses.                 *)
LEMMA QuietTexts ==
  ASSUME OnlyTheFileRestricts, IInv
  PROVE  /\ \A name \in DOMAIN aliases : aliases[name] \in Seq(Pending) /\ Quiet(aliases[name])
         /\ \A c \in Pending :
              c.op = "if" => /\ c.then \in Seq(Pending) /\ Quiet(c.then)
                             /\ c.else \in Seq(Pending) /\ Quiet(c.else)
<1>1. ASSUME NEW name \in DOMAIN aliases
      PROVE  aliases[name] \in Seq(Pending) /\ Quiet(aliases[name])
  <2>1. PICK c \in Command : c.op = "alias" /\ c.text = aliases[name]
    BY DEF IInv, AliasesOK
  <2>2. aliases[name] \in Seq(Command)
    BY DEF IInv, AliasesOK
  <2>3. Quiet(c.text)
    BY <2>1 DEF OnlyTheFileRestricts
  <2> QED BY <2>1, <2>2, <2>3, TextsPend
<1>2. ASSUME NEW c \in Pending, c.op = "if"
      PROVE  /\ c.then \in Seq(Pending) /\ Quiet(c.then)
             /\ c.else \in Seq(Pending) /\ Quiet(c.else)
  <2>1. c \in Command /\ c.then \in Seq(Command) /\ c.else \in Seq(Command)
    BY <1>2, PendingFields
  <2>2. Quiet(c.then) /\ Quiet(c.else)
    BY <1>2, <2>1 DEF OnlyTheFileRestricts
  <2> QED BY <2>1, <2>2, TextsPend
<1> QED BY <1>1, <1>2

LEMMA ReturnsGoing ==
  ASSUME IInv, stage \in Executing, NEW rest \in Seq(Pending), Len(rest) < MaxBuf,
         NEW q \in 0..Len(loaded), At(rest, loaded, 0, q), NoWaitFrom(loaded, q),
         stage \notin {"start", "reload"} => q = Len(loaded),
         Returns(rest)
  PROVE  \E a \in Nat : At(buf', loaded, a, q) /\ StageOK(stage', loaded, a, q)
<1>1. CASE stage = "start"
  <2>1. stage' = "bans" /\ buf' = Cbuf_InsertText(rest, <<Exec("listip")>>)
    BY <1>1 DEF Returns, NextStage
  <2> DEFINE x == <<Exec("listip")>>
  <2>2. x \in Seq(Pending) /\ Len(x) = 1 /\ \A i \in 1..Len(x) : Listed(x[i])
    <3>1. x \in Seq(Pending)
      BY TextsPend, PendingMembers
    <3>2. Listed(Exec("listip"))
      BY DEF Listed, IsList, Exec
    <3> QED BY <3>1, <3>2
  <2> HIDE DEF x, Pending
  <2>3. Len(rest) \in Nat /\ MaxBuf \in Nat /\ Len(x) + 0 = 1
    BY <2>2, ConsoleAssumption
  <2>4. buf' = x \o rest
    BY <2>1, <2>2, <2>3 DEF Cbuf_InsertText, x
  <2>5. At(x \o rest, loaded, Len(x) + 0, q)
    BY <2>2, AtInsert, LoadedText
  <2>6. At(buf', loaded, 1, q)
    BY <2>3, <2>4, <2>5
  <2> QED BY <2>1, <2>6 DEF StageOK
<1>2. CASE stage # "start"
  <2>1. buf' = rest /\ stage' \in {"cmdline", "top", "commands", "network"}
        /\ (stage' # "commands" => q = Len(loaded))
    BY <1>2 DEF Returns, NextStage, Executing
  <2> QED BY <2>1 DEF StageOK
<1> QED BY <1>1, <1>2

(* qwfwd.cfg is executed.                                                  *)
LEMMA FreshExecute ==
  ASSUME IInv, Fresh, RoomForConfig, Execute
  PROVE  Going'
<1>1. /\ Head(buf).op = "exec" /\ Head(buf).name = "cfg" /\ buf # <<>>
      /\ stage \in {"start", "reload"}
  BY DEF Fresh, Exec
<1>2. Cmd_Exec_f
  BY <1>1 DEF Execute, ExecuteDone, Cmd_Wait_f, Cmd_Quit_f, Cmd_If_f,
         AliasCommand, RunAlias, Ignored, WhitelistCommand, SV_AddIP_f, SV_RemoveIP_f,
         SV_WriteIP_f, SV_Cmd_Banip_f, SV_Cmd_Banremove_f, Runs, Registered, FirstCommands
<1>3. Len(Tail(buf)) + Len(cfg) <= MaxBuf
  BY <1>1, <1>2 DEF RoomForConfig, Cmd_Exec_f
<1>4. cfg \in Seq(Command) /\ cfg \in Seq(Pending) /\ Tail(buf) \in Seq(Pending)
  BY <1>1, TextsPend, CommandAssumption, Running DEF IInv, LoopOK
<1>5. /\ Len(cfg) + Len(Tail(buf)) <= MaxBuf /\ Len(cfg) \in Nat
      /\ Len(Tail(buf)) \in Nat /\ MaxBuf \in Nat
  BY <1>3, <1>4, ConsoleAssumption
<1>6. /\ buf' = cfg \o Tail(buf) /\ loaded' = cfg /\ stage' = stage
      /\ whitelist' = {}
  <2>1. /\ buf' = Cbuf_InsertText(Tail(buf), cfg) /\ loaded' = cfg
        /\ whitelist' = whitelist /\ stage' = stage
    BY <1>1, <1>2 DEF Cmd_Exec_f, loop
  <2>2. Cbuf_InsertText(Tail(buf), cfg) = cfg \o Tail(buf)
    BY <1>5 DEF Cbuf_InsertText
  <2> QED BY <2>1, <2>2 DEF Fresh
<1>7. At(buf', loaded', 0, 0)
  BY <1>4, <1>6, AtRead DEF Fresh
<1>8. whitelist' = WhitelistAfter(loaded', 0)
  BY <1>4, <1>6, WhitelistSteps
<1>9. StageOK(stage', loaded', 0, 0)
  BY <1>1, <1>6 DEF StageOK
<1>10. 0 \in Nat /\ 0 \in 0..Len(loaded')
  BY <1>5, <1>6
<1>11. GoingOn(0, 0)'
  BY <1>7, <1>8, <1>9 DEF GoingOn
<1> QED BY <1>10, <1>11 DEF Going

(* Ban_Init's commands, which come first.                                  *)
LEMMA ListedExecute ==
  ASSUME IInv, Execute, NEW a \in Nat, NEW q \in 0..Len(loaded), GoingOn(a, q), a > 0
  PROVE  Going'
<1>1. /\ stage = "bans" /\ At(buf, loaded, a, q) /\ StageOK(stage, loaded, a, q)
      /\ whitelist = WhitelistAfter(loaded, q)
  BY DEF GoingOn, StageOK
<1>2. loaded \in Seq(Pending) /\ Len(loaded) \in Nat /\ buf \in Seq(Pending)
  BY LoadedText DEF IInv, BufOK
<1>3. buf # <<>>
  <2>1. Len(buf) >= a + (Len(loaded) - q)
    BY <1>1 DEF At
  <2>2. Len(loaded) - q >= 0 /\ Len(buf) \in Nat
    BY <1>2
  <2> QED BY <2>1, <2>2
<1>4. Listed(Head(buf)) /\ At(Tail(buf), loaded, a - 1, q)
  BY <1>1, <1>2, <1>3, AtTail
<1>5. Head(buf).op \in {"exec", "addip"} /\ (Head(buf).op = "exec" => Head(buf).name = "listip")
  BY <1>4 DEF Listed, IsList
<1>6. Cmd_Exec_f \/ SV_AddIP_f
  BY <1>1, <1>3, <1>5 DEF Execute, ExecuteDone, Cmd_Wait_f, Cmd_Quit_f, Cmd_If_f,
         AliasCommand, RunAlias, Ignored, WhitelistCommand, SV_RemoveIP_f,
         SV_WriteIP_f, SV_Cmd_Banip_f, SV_Cmd_Banremove_f, Runs, Registered, FirstCommands,
         BanCommands
<1>7. /\ stage' = "bans" /\ loaded' = loaded /\ whitelist' = whitelist
      /\ \/ buf' = Tail(buf)
         \/ buf' = Cbuf_InsertText(Tail(buf), file)
  BY <1>1, <1>5, <1>6 DEF Cmd_Exec_f, SV_AddIP_f, Runs, loop, script
<1>8. a - 1 \in Nat
  OBVIOUS
<1>9. \E d \in Nat : At(buf', loaded, d, q)
  <2>1. file \in Seq(AddIPs) /\ file \in Seq(Pending) /\ Len(file) \in Nat
    BY TextsPend DEF IInv, FileOK, OrderedFile
  <2>2. \A i \in 1..Len(file) : Listed(file[i])
    <3>1. \A i \in 1..Len(file) : file[i] \in AddIPs
      BY <2>1
    <3> QED BY <3>1 DEF Listed, AddIPs
  <2>3. Tail(buf) \in Seq(Pending)
    BY <1>3, Running DEF IInv
  <2>4. At(file \o Tail(buf), loaded, Len(file) + (a - 1), q)
    BY <1>2, <1>4, <1>8, <2>1, <2>2, <2>3, AtInsert
  <2>5. Len(file) + (a - 1) \in Nat
    BY <1>8, <2>1
  <2> QED BY <1>4, <1>7, <1>8, <2>4, <2>5 DEF Cbuf_InsertText
<1>10. PICK d \in Nat : At(buf', loaded, d, q)
  BY <1>9
<1>11. StageOK(stage', loaded, d, q)
  BY <1>1, <1>7 DEF StageOK
<1>12. GoingOn(d, q)'
  BY <1>1, <1>7, <1>10, <1>11 DEF GoingOn
<1> QED BY <1>7, <1>12 DEF Going

(* The next command of qwfwd.cfg.                                          *)
LEMMA ConfigExecute ==
  ASSUME PlainConfigs, IInv, Execute, NEW q \in 0..Len(loaded), GoingOn(0, q), q < Len(loaded)
  PROVE  Going'
<1> DEFINE c == Head(buf)
           rest == Tail(buf)
<1>1. /\ At(buf, loaded, 0, q) /\ StageOK(stage, loaded, 0, q)
      /\ whitelist = WhitelistAfter(loaded, q)
  BY DEF GoingOn
<1>2. /\ loaded \in Seq(Command) /\ loaded \in Seq(Pending) /\ Len(loaded) \in Nat
      /\ buf \in Seq(Pending) /\ Len(buf) <= MaxBuf
  BY LoadedText DEF IInv, BufOK
<1>3. buf # <<>>
  <2>1. Len(buf) >= 0 + (Len(loaded) - q)
    BY <1>1 DEF At
  <2>2. Len(loaded) - q >= 1 /\ Len(buf) \in Nat
    BY <1>2
  <2> QED BY <2>1, <2>2
<1>4. c = loaded[q + 1] /\ At(rest, loaded, 0, q + 1)
  BY <1>1, <1>2, <1>3, AtTail
<1>5. q + 1 \in 1..Len(loaded) /\ q + 1 \in 0..Len(loaded) /\ q + 1 - 1 = q
  BY <1>2
<1>6. loaded \in Configs
  <2>1. loaded # <<>>
    BY <1>5
  <2> QED BY <2>1 DEF IInv, LoopOK
<1>7. c.op \notin {"exec", "if"} /\ NoAlias(c)
  BY <1>4, <1>5, <1>6 DEF PlainConfigs
<1>8. /\ c \in Pending /\ rest \in Seq(Pending) /\ Len(rest) = Len(buf) - 1
      /\ Len(rest) <= MaxBuf /\ Len(rest) < MaxBuf
  <2>1. Len(buf) \in Nat
    BY <1>2
  <2> QED BY <1>2, <1>3, <2>1, Running, ConsoleAssumption DEF IInv
<1>9. stage \in {"start", "reload", "bans", "commands"}
  BY <1>1 DEF StageOK
<1>10. stage \in {"bans", "commands"} => NoWaitFrom(loaded, q) /\ c.op # "wait"
  BY <1>1, <1>2, <1>4, <1>5 DEF StageOK, NoWaitFrom
<1>11. NoWaitFrom(loaded, q) => NoWaitFrom(loaded, q + 1)
  BY <1>2 DEF NoWaitFrom
<1>12. WhitelistAfter(loaded, q + 1) = Whitelisted(whitelist, c)
  <2> HIDE DEF c
  <2>1. WhitelistAfter(loaded, q + 1) = Whitelisted(WhitelistAfter(loaded, q + 1 - 1), loaded[q + 1])
    BY <1>2, <1>5, WhitelistSteps
  <2> QED BY <2>1, <1>1, <1>4, <1>5
<1> HIDE DEF c, rest, Pending
<1>13. CASE Cmd_Wait_f
  <2>1. c.op = "wait" /\ Returns(rest) /\ whitelist' = whitelist /\ loaded' = loaded
    BY <1>13 DEF Cmd_Wait_f, Runs, c, rest, script
  <2>2. stage \in {"start", "reload"}
    BY <1>9, <1>10, <2>1
  <2>3. NoWaitFrom(loaded, q + 1)
    <3>1. SUFFICES ASSUME NEW i \in (q + 1 + 1)..Len(loaded), loaded[i].op = "wait" PROVE FALSE
      BY DEF NoWaitFrom
    <3>2. i \in 1..Len(loaded) /\ i # q + 1
      BY <1>2, <1>5
    <3> QED BY <1>4, <1>5, <1>6, <2>1, <3>1, <3>2 DEF PlainConfigs
  <2>4. \E a \in Nat : At(buf', loaded, a, q + 1) /\ StageOK(stage', loaded, a, q + 1)
    BY <1>4, <1>5, <1>8, <2>1, <2>2, <2>3, ReturnsGoing DEF Executing
  <2>5. whitelist' = WhitelistAfter(loaded, q + 1)
    BY <1>12, <2>1 DEF Whitelisted
  <2>6. PICK a \in Nat : At(buf', loaded, a, q + 1) /\ StageOK(stage', loaded, a, q + 1)
    BY <2>4
  <2>7. GoingOn(a, q + 1)'
    BY <2>1, <2>5, <2>6 DEF GoingOn
  <2>8. q + 1 \in 0..Len(loaded')
    BY <1>5, <2>1
  <2> QED BY <2>7, <2>8 DEF Going
<1>14. CASE ~Cmd_Wait_f
  <2>1. stage' = stage /\ loaded' = loaded
    BY <1>3, <1>7, <1>14 DEF c, Execute, ExecuteDone, Cmd_Exec_f, Cmd_Quit_f, Cmd_If_f,
       AliasCommand, RunAlias, Ignored, WhitelistCommand, SV_AddIP_f, SV_RemoveIP_f, SV_WriteIP_f,
       SV_Cmd_Banip_f, SV_Cmd_Banremove_f, Runs, loop, script
  <2>2. /\ ~Cmd_Exec_f /\ ~Cmd_If_f /\ ~ExecuteDone
    BY <1>3, <1>7 DEF c, ExecuteDone, Cmd_Exec_f, Cmd_If_f, Runs
  <2>3. ~RunAlias
    <3>1. SUFFICES ASSUME RunAlias PROVE FALSE
      OBVIOUS
    <3>2. c.op \notin FirstCommands /\ c.op \in DOMAIN aliases
      BY <3>1 DEF RunAlias, Registered, c
    <3>3. PICK a \in Command : a.op = "alias" /\ a.name = c.op
      BY <3>2 DEF IInv, AliasesOK
    <3> QED BY <3>2, <3>3, <1>7 DEF NoAlias
  <2>4. whitelist' = Whitelisted(whitelist, c)
    <3>1. CASE WhitelistCommand
      BY <3>1 DEF WhitelistCommand, c
    <3>2. CASE ~WhitelistCommand
      <4>1. whitelist' = whitelist
        BY <3>2, <1>14, <2>2, <2>3 DEF Execute, Cmd_Quit_f, AliasCommand, Ignored,
           SV_AddIP_f, SV_RemoveIP_f, SV_WriteIP_f, SV_Cmd_Banip_f, SV_Cmd_Banremove_f
      <4>2. c.op \notin {"whitelistadd", "whitelistremove", "whitelistpurge"}
        BY <3>2, <1>14, <2>2, <2>3 DEF c, Execute, Cmd_Quit_f, AliasCommand, Ignored,
           SV_AddIP_f, SV_RemoveIP_f, SV_WriteIP_f, SV_Cmd_Banip_f, SV_Cmd_Banremove_f,
           Runs, Registered, FirstCommands
      <4> QED BY <4>1, <4>2 DEF Whitelisted
    <3> QED BY <3>1, <3>2
  <2>5. At(buf', loaded, 0, q + 1)
    <3>1. CASE SV_Cmd_Banip_f
      <4>1. c.key \in Key /\ c.time \in Nat
        BY <3>1, <1>8, PendingFields DEF SV_Cmd_Banip_f, Runs, c
      <4>2. buf' = rest \/ buf' = Queued(rest, c.key, c.time)
        BY <3>1 DEF SV_Cmd_Banip_f, c, rest
      <4>3. At(Queued(rest, c.key, c.time), loaded, 0, q + 1)
        BY <1>2, <1>4, <1>5, <1>8, <4>1, AtQueued
      <4> QED BY <1>4, <4>2, <4>3
    <3>2. CASE SV_Cmd_Banremove_f
      <4>1. buf' = rest \/ buf' = Cbuf_AddText(rest, <<Plain("writeip")>>)
        BY <3>2 DEF SV_Cmd_Banremove_f, rest
      <4>2. <<Plain("writeip")>> \in Seq(Pending) /\ Quiet(<<Plain("writeip")>>)
        BY TextsPend, PendingMembers DEF Quiet, Plain, Touches
      <4>3. At(Cbuf_AddText(rest, <<Plain("writeip")>>), loaded, 0, q + 1)
        BY <1>2, <1>4, <1>5, <1>8, <4>2, AtAddText
      <4> QED BY <1>4, <4>1, <4>3
    <3>3. CASE ~SV_Cmd_Banip_f /\ ~SV_Cmd_Banremove_f
      <4>1. buf' = rest
        BY <3>3, <1>14, <2>2, <2>3 DEF rest, Execute, Cmd_Quit_f, AliasCommand, Ignored,
           WhitelistCommand, SV_AddIP_f, SV_RemoveIP_f, SV_WriteIP_f
      <4> QED BY <1>4, <4>1
    <3> QED BY <3>1, <3>2, <3>3
  <2>6. StageOK(stage', loaded, 0, q + 1)
    BY <1>9, <1>10, <1>11, <2>1 DEF StageOK
  <2>7. GoingOn(0, q + 1)'
    BY <1>12, <2>1, <2>4, <2>5, <2>6 DEF GoingOn
  <2>8. q + 1 \in 0..Len(loaded') /\ 0 \in Nat
    BY <1>5, <2>1
  <2> QED BY <2>7, <2>8 DEF Going
<1> QED BY <1>13, <1>14

(* The rest is executed.                                                   *)
LEMMA QuietExecute ==
  ASSUME OnlyTheFileRestricts, IInv, Execute, GoingOn(0, Len(loaded))
  PROVE  Going'
<1> DEFINE c == Head(buf)
           rest == Tail(buf)
           N == Len(loaded)
<1>1. whitelist = WhitelistAfter(loaded, N) /\ At(buf, loaded, 0, N)
  BY DEF GoingOn
<1>2. /\ loaded \in Seq(Pending) /\ N \in Nat /\ N \in 0..N
      /\ buf \in Seq(Pending) /\ Len(buf) <= MaxBuf
  BY LoadedText DEF IInv, BufOK
<1>3. NoWaitFrom(loaded, N)
  BY <1>2 DEF NoWaitFrom
<1>4. ASSUME whitelist' = whitelist, loaded' = loaded,
             \E a \in Nat : At(buf', loaded, a, N) /\ StageOK(stage', loaded, a, N)
      PROVE  Going'
  <2>1. PICK a \in Nat : At(buf', loaded, a, N) /\ StageOK(stage', loaded, a, N)
    BY <1>4
  <2>2. GoingOn(a, N)'
    BY <1>1, <1>4, <2>1 DEF GoingOn
  <2> QED BY <1>2, <1>4, <2>2 DEF Going
<1>5. stage \in Executing
  BY DEF Execute, ExecuteDone, Cmd_Wait_f, Cmd_Exec_f,
         Cmd_Quit_f, Cmd_If_f, AliasCommand, RunAlias, Ignored, WhitelistCommand, SV_AddIP_f,
         SV_RemoveIP_f, SV_WriteIP_f, SV_Cmd_Banip_f, SV_Cmd_Banremove_f, Runs, HasText
<1>6. CASE ExecuteDone
  <2>1. buf = <<>> /\ Returns(<<>>) /\ whitelist' = whitelist /\ loaded' = loaded
    BY <1>6 DEF ExecuteDone, script
  <2>2. <<>> \in Seq(Pending) /\ Len(<<>>) < MaxBuf
    BY ConsoleAssumption
  <2>3. At(<<>>, loaded, 0, N)
    BY <1>1, <2>1
  <2> HIDE DEF N
  <2>4. \E a \in Nat : At(buf', loaded, a, N) /\ StageOK(stage', loaded, a, N)
    BY <1>2, <1>3, <1>5, <2>1, <2>2, <2>3, ReturnsGoing DEF N
  <2> QED BY <1>4, <2>1, <2>4
<1>7. CASE ~ExecuteDone
  <2>1. buf # <<>>
    BY <1>7 DEF Execute, Cmd_Wait_f, Cmd_Exec_f, Cmd_Quit_f, Cmd_If_f,
         AliasCommand, RunAlias, Ignored, WhitelistCommand, SV_AddIP_f, SV_RemoveIP_f,
         SV_WriteIP_f, SV_Cmd_Banip_f, SV_Cmd_Banremove_f, Runs, HasText
  <2>2. ~Touches(c) /\ At(rest, loaded, 0, N)
    BY <1>1, <1>2, <2>1, AtTail
  <2>3. /\ c \in Pending /\ rest \in Seq(Pending) /\ Len(rest) <= MaxBuf /\ Len(rest) < MaxBuf
    <3>1. Len(buf) \in Nat
      BY <1>2
    <3> QED BY <1>2, <2>1, <3>1, Running, ConsoleAssumption DEF IInv
  <2>4. Quiet(rest)
    BY <1>2, <2>2, <2>3, AtEnd
  <2>5. ~Cmd_Exec_f /\ ~WhitelistCommand
    BY <2>2 DEF Cmd_Exec_f, WhitelistCommand, Runs, Touches, c
  <2>6. whitelist' = whitelist /\ loaded' = loaded
    BY <1>7, <2>5 DEF Execute, Cmd_Wait_f, Cmd_Quit_f, Cmd_If_f, AliasCommand, RunAlias, Ignored,
       SV_AddIP_f, SV_RemoveIP_f, SV_WriteIP_f, SV_Cmd_Banip_f, SV_Cmd_Banremove_f, script
  <2> HIDE DEF c, rest, Pending
  <2>7. CASE Cmd_Wait_f
    <3>1. Returns(rest)
      BY <2>7 DEF Cmd_Wait_f, rest
    <3> HIDE DEF N
    <3>2. \E a \in Nat : At(buf', loaded, a, N) /\ StageOK(stage', loaded, a, N)
      BY <1>2, <1>3, <1>5, <2>2, <2>3, <3>1, ReturnsGoing DEF N
    <3> QED BY <1>4, <2>6, <3>2
  <2>8. CASE ~Cmd_Wait_f
    <3>1. stage' = stage /\ stage # "down"
      BY <1>7, <2>5, <2>8, <1>5 DEF Execute, Cmd_Quit_f, Cmd_If_f, AliasCommand, RunAlias, Ignored,
         SV_AddIP_f, SV_RemoveIP_f, SV_WriteIP_f, SV_Cmd_Banip_f, SV_Cmd_Banremove_f, loop, Executing
    <3>2. ASSUME NEW text \in Seq(Pending), Quiet(text)
          PROVE  Quiet(Cbuf_InsertText(rest, text)) /\ Quiet(Cbuf_AddText(rest, text))
      BY <2>3, <2>4, <3>2, QuietText
    <3>3. Quiet(buf')
      <4>1. CASE Cmd_If_f
        <5>1. c.op = "if" /\ \E text \in {c.then, c.else} : buf' = Cbuf_InsertText(rest, text)
          BY <4>1 DEF Cmd_If_f, Runs, c, rest
        <5> QED BY <5>1, <2>3, <3>2, QuietTexts
      <4>2. CASE RunAlias
        <5>1. c.op \in DOMAIN aliases /\ buf' = Cbuf_InsertText(rest, aliases[c.op])
          BY <4>2 DEF RunAlias, c, rest
        <5> QED BY <5>1, <3>2, QuietTexts
      <4>3. CASE SV_Cmd_Banip_f
        <5>1. c.key \in Key /\ c.time \in Nat
          BY <4>3, <2>3, PendingFields DEF SV_Cmd_Banip_f, Runs, c
        <5>2. buf' = rest \/ buf' = Queued(rest, c.key, c.time)
          BY <4>3 DEF SV_Cmd_Banip_f, c, rest
        <5>3. At(Queued(rest, c.key, c.time), loaded, 0, N)
          BY <1>2, <2>2, <2>3, <5>1, AtQueued
        <5>4. Queued(rest, c.key, c.time) \in Seq(Pending)
          BY <2>3, <5>1, QueuedTypes
        <5> QED BY <1>2, <2>4, <5>2, <5>3, <5>4, AtEnd
      <4>4. CASE SV_Cmd_Banremove_f
        <5>1. buf' = rest \/ buf' = Cbuf_AddText(rest, <<Plain("writeip")>>)
          BY <4>4 DEF SV_Cmd_Banremove_f, rest
        <5>2. <<Plain("writeip")>> \in Seq(Pending) /\ Quiet(<<Plain("writeip")>>)
          BY TextsPend, PendingMembers DEF Quiet, Plain, Touches
        <5> QED BY <2>4, <3>2, <5>1, <5>2
      <4>5. CASE Cmd_Quit_f \/ AliasCommand \/ Ignored \/ SV_AddIP_f \/ SV_RemoveIP_f \/ SV_WriteIP_f
        <5>1. buf' = rest
          BY <4>5 DEF rest, Cmd_Quit_f, AliasCommand, Ignored, SV_AddIP_f, SV_RemoveIP_f, SV_WriteIP_f
        <5> QED BY <2>4, <5>1
      <4> QED BY <1>7, <2>5, <2>8, <4>1, <4>2, <4>3, <4>4, <4>5 DEF Execute
    <3>4. buf' \in Seq(Pending)
      BY BufStep DEF Next, BufOK
    <3>5. At(buf', loaded, 0, N)
      BY <1>2, <3>3, <3>4, AtEnd
    <3>6. StageOK(stage', loaded, 0, N)
      BY <1>3, <3>1 DEF StageOK
    <3> QED BY <1>4, <2>6, <3>5, <3>6
  <2> QED BY <2>7, <2>8
<1> QED BY <1>6, <1>7

LEMMA RestrictStep ==
  ASSUME OnlyTheFileRestricts, PlainConfigs, IInv, RestrictInv, RoomForConfig, [Next]_vars
  PROVE  RestrictInv'
<1>1. loaded \in Seq(Pending) /\ Len(loaded) \in Nat /\ buf \in Seq(Pending)
  BY LoadedText DEF IInv, BufOK
<1>2. ASSUME buf' = buf, loaded' = loaded, whitelist' = whitelist, stage' = stage
      PROVE  RestrictInv'
  <2>1. Fresh => Fresh'
    BY <1>2 DEF Fresh
  <2>2. Going => Going'
    <3>1. \A a, q : GoingOn(a, q) => GoingOn(a, q)'
      BY <1>2 DEF GoingOn
    <3> QED BY <3>1, <1>2 DEF Going
  <2> QED BY <1>2, <2>1, <2>2 DEF RestrictInv
<1>3. CASE UNCHANGED vars
  BY <1>2, <1>3 DEF vars
<1>4. CASE Execute
  <2>1. stage # "down"
    BY <1>4 DEF Execute, ExecuteDone, Cmd_Wait_f, Cmd_Exec_f,
         Cmd_Quit_f, Cmd_If_f, AliasCommand, RunAlias, Ignored, WhitelistCommand, SV_AddIP_f,
         SV_RemoveIP_f, SV_WriteIP_f, SV_Cmd_Banip_f, SV_Cmd_Banremove_f, Runs, HasText, Executing
  <2>2. CASE Fresh
    BY <1>4, <2>2, FreshExecute DEF RestrictInv
  <2>3. CASE Going
    <3>1. PICK a \in Nat : \E q \in 0..Len(loaded) : GoingOn(a, q)
      BY <2>3 DEF Going
    <3>2. PICK q \in 0..Len(loaded) : GoingOn(a, q)
      BY <3>1
    <3>3. CASE a > 0
      BY <1>4, <3>2, <3>3, ListedExecute DEF RestrictInv
    <3>4. CASE a = 0 /\ q < Len(loaded)
      BY <1>4, <3>2, <3>4, ConfigExecute DEF RestrictInv
    <3>5. CASE a = 0 /\ q = Len(loaded)
      BY <1>4, <3>2, <3>5, QuietExecute DEF RestrictInv
    <3> QED BY <1>1, <3>3, <3>4, <3>5
  <2> QED BY <2>1, <2>2, <2>3 DEF RestrictInv
<1>5. CASE Exits \/ Killed
  BY <1>5 DEF Exits, Killed, Gone, RestrictInv
<1>6. CASE Starts
  <2>1. stage' = "start" /\ buf' = Cbuf_InsertText(<<>>, <<Exec("cfg")>>) /\ whitelist' = {}
    BY <1>6 DEF Starts, RestrictInv, Fresh, Going, GoingOn, StageOK
  <2>2. <<>> \in Seq(Pending) /\ Len(<<>>) < MaxBuf /\ Quiet(<<>>)
    BY ConsoleAssumption DEF Quiet
  <2>3. buf' # <<>> /\ Head(buf') = Exec("cfg") /\ Tail(buf') = <<>>
    BY <2>1, <2>2, PutBefore, PendingMembers
  <2> QED BY <2>1, <2>2, <2>3 DEF RestrictInv, Fresh
<1>7. ASSUME stage \in {"top", "network", "clean"}
      PROVE  /\ Quiet(buf) /\ whitelist = WhitelistAfter(loaded, Len(loaded))
  <2>1. PICK a \in Nat : \E q \in 0..Len(loaded) : GoingOn(a, q)
    BY <1>7 DEF RestrictInv, Fresh, Going
  <2>2. PICK q \in 0..Len(loaded) : GoingOn(a, q)
    BY <2>1
  <2>3. a = 0 /\ q = Len(loaded)
    BY <1>7, <2>2 DEF GoingOn, StageOK
  <2> QED BY <1>1, <2>2, <2>3, AtEnd DEF GoingOn
<1>8. ASSUME stage \in {"top", "network", "clean"}, loaded' = loaded, whitelist' = whitelist,
             buf' \in Seq(Pending), Quiet(buf'),
             stage' \in {"commands", "network", "clean", "top"}
      PROVE  RestrictInv'
  <2> DEFINE N == Len(loaded)
  <2>1. At(buf', loaded, 0, N)
    BY <1>1, <1>8, AtEnd
  <2>2. N \in Nat /\ N \in 0..N /\ 0 \in Nat
    BY <1>1
  <2>3. NoWaitFrom(loaded, N)
    BY <2>2 DEF NoWaitFrom
  <2>4. StageOK(stage', loaded, 0, N)
    BY <1>8, <2>3 DEF StageOK
  <2>5. GoingOn(0, N)'
    BY <1>7, <1>8, <2>1, <2>4 DEF GoingOn
  <2> QED BY <1>8, <2>2, <2>5 DEF RestrictInv, Going
<1>9. CASE Reload
  <2>1. /\ stage' = "reload" /\ buf' = Cbuf_InsertText(buf, <<Exec("cfg")>>) /\ whitelist' = {}
        /\ stage = "top"
    BY <1>9 DEF Reload
  <2>2. Len(buf) < MaxBuf
    BY <2>1 DEF RoomForConfig
  <2>3. buf' # <<>> /\ Head(buf') = Exec("cfg") /\ Tail(buf') = buf
    BY <1>1, <2>1, <2>2, PutBefore, PendingMembers
  <2>4. Quiet(Tail(buf'))
    BY <1>7, <2>1, <2>3
  <2> QED BY <2>1, <2>3, <2>4 DEF RestrictInv, Fresh
<1>10. CASE NoReload \/ NothingTyped \/ SV_CleanBansIPList
  <2>1. /\ stage \in {"top", "network", "clean"} /\ stage' \in {"commands", "clean", "top"}
        /\ buf' = buf /\ loaded' = loaded /\ whitelist' = whitelist
    BY <1>10 DEF NoReload, NothingTyped, SV_CleanBansIPList, script
  <2> QED BY <1>1, <1>7, <1>8, <2>1
<1>11. CASE \E line \in Lines : Typed(line)
  <2>1. PICK line \in Lines : Typed(line)
    BY <1>11
  <2>2. line \in Seq(Pending) /\ Quiet(line)
    BY TextsPend, CommandAssumption DEF OnlyTheFileRestricts
  <2>3. /\ stage = "network" /\ stage' = "clean" /\ buf' = Cbuf_InsertText(buf, line)
        /\ loaded' = loaded /\ whitelist' = whitelist
    BY <2>1 DEF Typed, script
  <2>4. Quiet(buf')
    BY <1>1, <1>7, <2>2, <2>3, QuietText
  <2>5. buf' \in Seq(Pending)
    BY <1>11, BufStep DEF Next, BufOK
  <2> QED BY <1>8, <2>3, <2>4, <2>5
<1>12. CASE sighup_handler \/ (\E x \in Configs : EditCfg(x)) \/ Tick
  BY <1>2, <1>12 DEF sighup_handler, EditCfg, Tick, loop, script
<1> QED BY <1>3, <1>4, <1>5, <1>6, <1>9, <1>10, <1>11, <1>12 DEF Next

(* Whenever datagrams are handled the whitelist is the one of qwfwd.cfg as *)
(* it was last read (FWD_proc, whitelist.c), although a reload empties it  *)
(* first and a wait may split the execution of the file: for any files     *)
(* that wait once at most and run no other text, as long as only they have *)
(* commands of the whitelist and the file fits into the buffer.            *)
THEOREM WhitelistFollowsTheFile ==
  ASSUME OnlyTheFileRestricts, PlainConfigs
  PROVE  Spec /\ []RoomForConfig => []WhitelistIsTheFiles
<1> DEFINE Inv == IInv /\ RestrictInv
<1>1. Init => Inv
  BY TypesStart DEF Init, RestrictInv
<1>2. Inv /\ RoomForConfig /\ [Next]_vars => Inv'
  BY TypesStep, RestrictStep
<1>3. Inv => WhitelistIsTheFiles
  <2>1. SUFFICES ASSUME Inv, stage = "network"
                 PROVE  whitelist = WhitelistAfter(loaded, Len(loaded))
    BY DEF WhitelistIsTheFiles
  <2>2. PICK a \in Nat : \E q \in 0..Len(loaded) : GoingOn(a, q)
    BY <2>1 DEF RestrictInv, Fresh, Going
  <2>3. PICK q \in 0..Len(loaded) : GoingOn(a, q)
    BY <2>2
  <2> QED BY <2>1, <2>3 DEF GoingOn, StageOK
<1> QED BY <1>1, <1>2, <1>3, PTL DEF Spec

-----------------------------------------------------------------------------
(* The bans of the file are back before the proxy opens its port.          *)

(* A command that leaves the bans alone.                                   *)
Bland(c) == c.op \notin BanCommands \cup {"if"} /\ NoAlias(c) /\ ~IsList(c)

AllBland(b) == \A i \in 1..Len(b) : Bland(b[i])

(* qwfwd.cfg leaves the bans to their file.                                *)
ConfigsLeaveBans == \A text \in Configs : AllBland(text)

(* The mark of a free slot is nobody's address.                            *)
FreeSpotIsNoKey == FreeSpot \notin Key

(* There is room for the file of the filters.                              *)
RoomForList == Runs("exec") /\ Head(buf).name = "listip" => Len(Tail(buf)) + Len(file) <= MaxBuf

(* The first m bans of the file are in force.                              *)
Covered(m) == \A i \in 1..m : file[i].type = "ban" => Covers(filters, file[i].key, "ban")

(* The buffer has the lines of the file after the m-th, and what leaves    *)
(* the bans alone.                                                         *)
LinesLeft(b, f, m) ==
  /\ Len(b) >= Len(f) - m
  /\ \A i \in 1..(Len(f) - m) : b[i] = f[m + i]
  /\ \A i \in (Len(f) - m + 1)..Len(b) : Bland(b[i])

(* Ban_Init is about to execute the file, or has executed m lines of it.   *)
BackInv ==
  /\ stage \in {"start", "down"} => filters = <<>>
  /\ stage = "start" => AllBland(buf)
  /\ stage = "bans" =>
       \/ buf # <<>> /\ IsList(Head(buf)) /\ AllBland(Tail(buf)) /\ filters = <<>>
       \/ \E m \in 0..Len(file) :
            LinesLeft(buf, file, m) /\ Covered(m) /\ Len(filters) <= m
  /\ stage = "cmdline" => AllBland(buf) /\ Covered(Len(file))

LEMMA LinesLeftNone ==
  ASSUME NEW b \in Seq(Pending), NEW f \in Seq(AddIPs)
  PROVE  LinesLeft(b, f, Len(f)) <=> AllBland(b)
<1>1. Len(b) \in Nat /\ Len(f) \in Nat
  OBVIOUS
<1>2. Len(f) - Len(f) = 0
  BY <1>1
<1> QED BY <1>1, <1>2 DEF LinesLeft, AllBland

LEMMA LinesLeftTail ==
  ASSUME NEW b \in Seq(Pending), NEW f \in Seq(AddIPs), NEW m \in 0..Len(f), m < Len(f),
         LinesLeft(b, f, m)
  PROVE  b # <<>> /\ Head(b) = f[m + 1] /\ LinesLeft(Tail(b), f, m + 1)
<1> HIDE DEF Pending
<1> DEFINE t == Tail(b)
           N == Len(f)
<1>1. N \in Nat /\ m \in Nat /\ Len(b) \in Nat
  OBVIOUS
<1>2. /\ Len(b) >= N - m
      /\ \A i \in 1..(N - m) : b[i] = f[m + i]
      /\ \A i \in (N - m + 1)..Len(b) : Bland(b[i])
  BY DEF LinesLeft
<1>3. b # <<>>
  BY <1>1, <1>2
<1>4. /\ Head(b) = b[1] /\ Len(t) = Len(b) - 1
      /\ \A i \in 1..(Len(b) - 1) : t[i] = b[i + 1]
  BY <1>3, TailElements
<1>4a. m < N
  OBVIOUS
<1> HIDE DEF t, N
<1>5. Head(b) = f[m + 1]
  <2>1. 1 \in 1..(N - m)
    BY <1>1, <1>4a
  <2> QED BY <2>1, <1>2, <1>4
<1>6. Len(t) >= N - (m + 1)
  BY <1>1, <1>2, <1>4
<1>7. ASSUME NEW i \in 1..(N - (m + 1)) PROVE t[i] = f[m + 1 + i]
  <2> DEFINE k == i + 1
  <2>1. i \in 1..(Len(b) - 1) /\ k \in 1..(N - m) /\ k = i + 1 /\ m + 1 + i = m + k
    BY <1>1, <1>2
  <2> HIDE DEF k
  <2>2. t[i] = b[k] /\ b[k] = f[m + k]
    BY <2>1, <1>2, <1>4
  <2> QED BY <2>1, <2>2
<1>8. ASSUME NEW i \in (N - (m + 1) + 1)..Len(t) PROVE Bland(t[i])
  <2>1. i \in 1..(Len(b) - 1) /\ i + 1 \in (N - m + 1)..Len(b)
    BY <1>1, <1>2, <1>4, <1>4a
  <2> QED BY <2>1, <1>2, <1>4
<1>9. LinesLeft(t, f, m + 1)
  BY <1>6, <1>7, <1>8 DEF LinesLeft, N
<1> QED BY <1>3, <1>5, <1>9 DEF t

LEMMA LinesLeftAll ==
  ASSUME NEW b \in Seq(Pending), NEW f \in Seq(AddIPs), AllBland(b)
  PROVE  LinesLeft(f \o b, f, 0)
<1>0. f \in Seq(Pending)
  BY TextsPend
<1> HIDE DEF Pending
<1> DEFINE u == f \o b
           N == Len(f)
<1>1. Joins(u, f, b)
  BY <1>0, ConcatElements
<1> HIDE DEF u
<1>2. /\ N \in Nat /\ Len(b) \in Nat /\ Len(u) = N + Len(b)
      /\ \A i \in 1..N : u[i] = f[i]
      /\ \A i \in 1..Len(u) : i - N \in 1..Len(b) => u[i] = b[i - N]
  BY <1>1 DEF Joins
<1> HIDE DEF N
<1>3. \A i \in 1..(N - 0) : u[i] = f[0 + i]
  BY <1>2
<1>4. ASSUME NEW i \in (N - 0 + 1)..Len(u) PROVE Bland(u[i])
  <2>1. i \in 1..Len(u) /\ i - N \in 1..Len(b)
    BY <1>2
  <2> QED BY <2>1, <1>2 DEF AllBland
<1>5. Len(u) >= N - 0
  BY <1>2
<1>6. LinesLeft(u, f, 0)
  BY <1>3, <1>4, <1>5 DEF LinesLeft, N
<1> QED BY <1>6 DEF u

LEMMA BlandText ==
  ASSUME NEW t \in Seq(Pending), AllBland(t)
  PROVE  /\ t # <<>> => Bland(Head(t)) /\ AllBland(Tail(t))
         /\ \A s \in Seq(Pending) : AllBland(s) => AllBland(Cbuf_InsertText(t, s))
<1> HIDE DEF Pending
<1>1. ASSUME t # <<>> PROVE Bland(Head(t)) /\ AllBland(Tail(t))
  <2>1. /\ Head(t) = t[1] /\ Len(t) \in Nat /\ Len(t) >= 1 /\ Len(Tail(t)) = Len(t) - 1
        /\ \A i \in 1..(Len(t) - 1) : Tail(t)[i] = t[i + 1]
    BY <1>1, TailElements
  <2>2. 1 \in 1..Len(t) /\ \A i \in 1..(Len(t) - 1) : i + 1 \in 1..Len(t)
    BY <2>1
  <2> QED BY <2>1, <2>2 DEF AllBland
<1>2. ASSUME NEW s \in Seq(Pending), AllBland(s) PROVE AllBland(s \o t)
  <2> DEFINE u == s \o t
  <2>1. Joins(u, s, t)
    BY ConcatElements
  <2> HIDE DEF u
  <2>2. \A i \in 1..Len(u) :
          \/ i \in 1..Len(s) /\ u[i] = s[i]
          \/ i - Len(s) \in 1..Len(t) /\ u[i] = t[i - Len(s)]
    BY <2>1 DEF Joins
  <2>3. AllBland(u)
    BY <2>2, <1>2 DEF AllBland
  <2> QED BY <2>3 DEF u
<1> QED BY <1>1, <1>2 DEF Cbuf_InsertText

(* A command that leaves the bans alone runs.                              *)
LEMMA BlandExecute ==
  ASSUME IInv, ConfigsLeaveBans, Execute, AllBland(buf)
  PROVE  /\ filters' = filters /\ file' = file
         /\ \/ stage' = stage /\ buf' \in Seq(Pending) /\ AllBland(buf')
            \/ \E rest \in Seq(Pending) :
                 /\ AllBland(rest) /\ Len(rest) < MaxBuf /\ Returns(rest)
<1> DEFINE c == Head(buf)
           rest == Tail(buf)
<1>0. buf \in Seq(Pending) /\ Len(buf) <= MaxBuf
  BY DEF IInv, BufOK
<1>1. CASE ExecuteDone
  <2>1. <<>> \in Seq(Pending) /\ AllBland(<<>>) /\ Len(<<>>) < MaxBuf
    BY ConsoleAssumption DEF AllBland
  <2> QED BY <1>1, <2>1 DEF ExecuteDone, bans
<1>2. CASE ~ExecuteDone
  <2>1. buf # <<>>
    BY <1>2 DEF Execute, Cmd_Wait_f, Cmd_Exec_f, Cmd_Quit_f, Cmd_If_f,
         AliasCommand, RunAlias, Ignored, WhitelistCommand, SV_AddIP_f, SV_RemoveIP_f,
         SV_WriteIP_f, SV_Cmd_Banip_f, SV_Cmd_Banremove_f, Runs, HasText
  <2>2. Bland(c) /\ AllBland(rest)
    BY <1>0, <2>1, BlandText
  <2>3. rest \in Seq(Pending) /\ Len(rest) < MaxBuf
    <3>1. Len(buf) \in Nat
      BY <1>0
    <3> QED BY <1>0, <2>1, <3>1, Running, ConsoleAssumption DEF IInv
  <2>4. c.op \notin BanCommands /\ c.op # "if"
    BY <2>2 DEF Bland
  <2>5. ~RunAlias
    <3>1. SUFFICES ASSUME RunAlias PROVE FALSE
      OBVIOUS
    <3>2. c.op \notin FirstCommands /\ c.op \in DOMAIN aliases
      BY <3>1 DEF RunAlias, Registered
    <3>3. PICK a \in Command : a.op = "alias" /\ a.name = c.op
      BY <3>2 DEF IInv, AliasesOK
    <3> QED BY <3>2, <3>3, <2>2 DEF Bland, NoAlias
  <2>6. \/ Cmd_Wait_f \/ Cmd_Exec_f \/ Cmd_Quit_f \/ AliasCommand \/ Ignored \/ WhitelistCommand
    BY <1>2, <2>4, <2>5 DEF Execute, Cmd_If_f, SV_AddIP_f, SV_RemoveIP_f,
         SV_WriteIP_f, SV_Cmd_Banip_f, SV_Cmd_Banremove_f, Runs, BanCommands
  <2>7. filters' = filters /\ file' = file
    BY <2>6 DEF Cmd_Wait_f, Cmd_Exec_f, Cmd_Quit_f, AliasCommand, Ignored, WhitelistCommand, bans
  <2> HIDE DEF Pending
  <2>8. CASE Cmd_Wait_f
    BY <2>2, <2>3, <2>7, <2>8 DEF Cmd_Wait_f
  <2>9. CASE Cmd_Exec_f
    <3>1. c.name # "listip"
      BY <2>2, <2>9 DEF Bland, IsList, Cmd_Exec_f, Runs
    <3>2. buf' = Cbuf_InsertText(rest, cfg) /\ stage' = stage
      BY <2>9, <3>1 DEF Cmd_Exec_f, loop
    <3>3. cfg \in Seq(Pending) /\ AllBland(cfg)
      BY TextsPend, CommandAssumption DEF IInv, LoopOK, ConfigsLeaveBans
    <3>4. AllBland(buf')
      BY <2>2, <2>3, <3>2, <3>3, BlandText
    <3>5. buf' \in Seq(Pending)
      BY BufStep DEF Next, BufOK
    <3> QED BY <2>7, <3>2, <3>4, <3>5
  <2>10. CASE Cmd_Quit_f \/ AliasCommand \/ Ignored \/ WhitelistCommand
    <3>1. buf' = rest /\ stage' = stage
      BY <2>10 DEF Cmd_Quit_f, AliasCommand, Ignored, WhitelistCommand, loop
    <3> QED BY <2>2, <2>3, <2>7, <3>1
  <2> QED BY <2>6, <2>8, <2>9, <2>10
<1> QED BY <1>1, <1>2

(* The lines of the file are executed.                                     *)
LEMMA BackLine ==
  ASSUME IInv, FreeSpotIsNoKey, Execute, stage = "bans",
         NEW m \in 0..Len(file), m < Len(file),
         LinesLeft(buf, file, m), Covered(m), Len(filters) <= m
  PROVE  /\ stage' = stage /\ file' = file
         /\ LinesLeft(buf', file, m + 1) /\ Covered(m + 1)' /\ Len(filters') <= m + 1
<1> DEFINE c == Head(buf)
           f == Filter(c.key, c.type, Until(c))
           l == file[m + 1]
<1>0. /\ buf \in Seq(Pending) /\ file \in Seq(AddIPs) /\ Len(file) \in Nat /\ m \in Nat
      /\ Len(file) <= MaxFilters /\ filters \in Seq(Filters) /\ Len(filters) \in Nat
  BY DEF IInv, BufOK, FileOK, OrderedFile, FiltersOK
<1>1. buf # <<>> /\ c = l /\ LinesLeft(Tail(buf), file, m + 1)
  BY <1>0, LinesLeftTail
<1>2. m + 1 \in 1..Len(file) /\ l \in AddIPs /\ l.op = "addip"
  <2> DEFINE k == m + 1
  <2>1. k \in 1..Len(file)
    BY <1>0
  <2> HIDE DEF k
  <2>2. file[k] \in AddIPs
    BY <1>0, <2>1
  <2>3. file[k].op = "addip"
    BY <2>2 DEF AddIPs
  <2> QED BY <2>1, <2>2, <2>3 DEF k
<1>3. SV_AddIP_f
  <2>1. c.op = "addip" /\ Registered(c)
    BY <1>1, <1>2 DEF Registered, BanCommands
  <2> QED BY <1>1, <2>1 DEF Execute, ExecuteDone, Cmd_Wait_f, Cmd_Exec_f, Cmd_Quit_f, Cmd_If_f,
         AliasCommand, RunAlias, Ignored, WhitelistCommand, SV_AddIP_f, SV_RemoveIP_f,
         SV_WriteIP_f, SV_Cmd_Banip_f, SV_Cmd_Banremove_f, Runs
<1>4. stage' = stage /\ file' = file /\ buf' = Tail(buf)
  BY <1>3 DEF SV_AddIP_f, loop
<1>5. Adds(filters', filters, f)
  BY <1>1, <1>2, <1>3, FilterAdded DEF IInv, FiltersOK, LoopOK
<1>6. f.key = l.key /\ f.type = l.type
  BY <1>1 DEF Filter
<1> HIDE DEF f, c, Pending
<1>7. /\ filters' \in Seq(Filters) /\ Len(filters') \in Nat /\ Len(filters') <= Len(filters) + 1
      /\ \A j \in 1..Len(filters) :
           filters[j].key = f.key \/ \E i \in 1..Len(filters') : filters'[i] = filters[j]
      /\ Len(filters) < MaxFilters => \E i \in 1..Len(filters') : filters'[i] = f
  BY <1>5 DEF Adds, FreeSpotIsNoKey
<1>8. DOMAIN filters = 1..Len(filters) /\ DOMAIN filters' = 1..Len(filters')
  BY <1>0, <1>7
<1>9. Len(filters) < MaxFilters /\ Len(filters') <= m + 1
  BY <1>0, <1>7, ConsoleAssumption
<1>10. PICK p \in 1..Len(filters') : filters'[p] = f
  BY <1>7, <1>9
<1>11. l.type = "ban" => Covers(filters', l.key, "ban")
  BY <1>6, <1>8, <1>10 DEF Covers
<1>12. ASSUME NEW i \in 1..(m + 1), file[i].type = "ban"
       PROVE  Covers(filters', file[i].key, "ban")
  <2>1. CASE i = m + 1
    BY <1>11, <1>12, <2>1
  <2>2. CASE i # m + 1
    <3>1. i \in 1..m /\ i \in 1..Len(file) /\ i < m + 1
      BY <1>0, <2>2
    <3>2. l.type = "ban"
      BY <1>2, <1>12, <3>1 DEF IInv, FileOK, OrderedFile
    <3>3. PICK j \in 1..Len(filters) : filters[j].key = file[i].key /\ filters[j].type = "ban"
      BY <1>8, <1>12, <3>1 DEF Covered, Covers
    <3>4. CASE filters[j].key = f.key
      BY <1>6, <1>11, <3>2, <3>3, <3>4
    <3>5. CASE \E q \in 1..Len(filters') : filters'[q] = filters[j]
      BY <1>8, <3>3, <3>5 DEF Covers
    <3> QED BY <1>7, <3>4, <3>5
  <2> QED BY <2>1, <2>2
<1>13. Covered(m + 1)'
  BY <1>4, <1>12 DEF Covered
<1> QED BY <1>1, <1>4, <1>9, <1>13

(* Ban_Init executes the file, or its last command returns.                *)
LEMMA BackBans ==
  ASSUME IInv, ConfigsLeaveBans, FreeSpotIsNoKey, Execute, stage = "bans", BackInv, RoomForList
  PROVE  BackInv'
<1>0. buf \in Seq(Pending) /\ file \in Seq(AddIPs) /\ Len(file) \in Nat
  BY DEF IInv, BufOK, FileOK, OrderedFile
<1>1. ASSUME stage' = "bans",
             \E m \in 0..Len(file) :
               LinesLeft(buf', file, m) /\ Covered(m)' /\ Len(filters') <= m,
             file' = file
      PROVE  BackInv'
  BY <1>1 DEF BackInv
<1>2. CASE buf # <<>> /\ IsList(Head(buf)) /\ AllBland(Tail(buf)) /\ filters = <<>>
  <2>1. Head(buf).op = "exec" /\ Head(buf).name = "listip" /\ Registered(Head(buf))
    BY <1>2 DEF IsList, Registered, FirstCommands
  <2>2. Cmd_Exec_f
    BY <1>2, <2>1 DEF Execute, ExecuteDone, Cmd_Wait_f, Cmd_Exec_f, Cmd_Quit_f, Cmd_If_f,
         AliasCommand, RunAlias, Ignored, WhitelistCommand, SV_AddIP_f, SV_RemoveIP_f,
         SV_WriteIP_f, SV_Cmd_Banip_f, SV_Cmd_Banremove_f, Runs
  <2>3. Tail(buf) \in Seq(Pending) /\ Len(Tail(buf)) \in Nat
    BY <1>0, <1>2, Running DEF IInv
  <2>4. Len(Tail(buf)) + Len(file) <= MaxBuf
    BY <2>1, <2>2 DEF RoomForList, Cmd_Exec_f
  <2>5. /\ buf' = file \o Tail(buf)
        /\ stage' = "bans" /\ file' = file /\ filters' = <<>>
    <3>1. ~(Len(file) + Len(Tail(buf)) > MaxBuf)
      BY <1>0, <2>3, <2>4, ConsoleAssumption
    <3>2. buf' = Cbuf_InsertText(Tail(buf), file)
      BY <2>1, <2>2 DEF Cmd_Exec_f
    <3> QED BY <1>2, <2>2, <3>1, <3>2 DEF Cmd_Exec_f, Cbuf_InsertText, loop, bans
  <2>6. LinesLeft(buf', file, 0)
    BY <1>0, <1>2, <2>3, <2>5, LinesLeftAll
  <2>7. Covered(0)' /\ Len(filters') <= 0 /\ 0 \in 0..Len(file)
    BY <1>0, <2>5 DEF Covered
  <2> QED BY <1>1, <2>5, <2>6, <2>7
<1>3. ASSUME NEW m \in 0..Len(file),
             LinesLeft(buf, file, m), Covered(m), Len(filters) <= m
      PROVE  BackInv'
  <2>1. CASE m < Len(file)
    <3>1. /\ stage' = stage /\ file' = file
          /\ LinesLeft(buf', file, m + 1) /\ Covered(m + 1)' /\ Len(filters') <= m + 1
      BY <1>3, <2>1, BackLine
    <3>2. m + 1 \in 0..Len(file)
      BY <1>0, <2>1
    <3> QED BY <1>1, <3>1, <3>2
  <2>2. CASE m = Len(file)
    <3>1. AllBland(buf)
      BY <1>0, <1>3, <2>2, LinesLeftNone
    <3>2. filters' = filters /\ file' = file
      BY <3>1, BlandExecute
    <3>3. Covered(Len(file))' /\ Covered(m)'
      BY <1>3, <2>2, <3>2 DEF Covered
    <3>4. CASE stage' = stage /\ buf' \in Seq(Pending) /\ AllBland(buf')
      <4>1. LinesLeft(buf', file, m)
        BY <1>0, <2>2, <3>4, LinesLeftNone
      <4> QED BY <1>1, <1>3, <3>2, <3>3, <3>4, <4>1
    <3>5. CASE \E rest \in Seq(Pending) :
                 AllBland(rest) /\ Len(rest) < MaxBuf /\ Returns(rest)
      <4>1. stage' = "cmdline" /\ AllBland(buf')
        BY <3>5 DEF Returns, NextStage
      <4> QED BY <3>2, <3>3, <4>1 DEF BackInv
    <3> QED BY <3>1, <3>4, <3>5, BlandExecute
  <2> QED BY <1>0, <2>1, <2>2
<1> QED BY <1>2, <1>3 DEF BackInv

LEMMA BackStep ==
  ASSUME ConfigsLeaveBans, FreeSpotIsNoKey, IInv, BackInv, RoomForList, [Next]_vars
  PROVE  BackInv'
<1>1. CASE UNCHANGED vars
  <2>1. \A m : Covered(m) => Covered(m)'
    BY <1>1 DEF vars, Covered
  <2> QED BY <1>1, <2>1 DEF vars, BackInv
<1>2. CASE Next
  <2>1. stage' \in {"start", "down"} => filters' = <<>>
    BY <1>2, EmptyAtStart DEF BackInv
  <2>2. ASSUME stage' \notin {"start", "bans", "cmdline"} PROVE BackInv'
    BY <2>1, <2>2 DEF BackInv
  <2>3. CASE Execute
    <3>1. CASE stage = "start"
      <4>1. filters' = filters /\ file' = file /\ filters = <<>>
        BY <2>3, <3>1, BlandExecute DEF BackInv
      <4>2. CASE stage' = stage /\ AllBland(buf')
        BY <2>1, <3>1, <4>2 DEF BackInv
      <4>3. CASE \E rest \in Seq(Pending) :
                   AllBland(rest) /\ Len(rest) < MaxBuf /\ Returns(rest)
        <5>1. PICK rest \in Seq(Pending) : AllBland(rest) /\ Len(rest) < MaxBuf /\ Returns(rest)
          BY <4>3
        <5>2. stage' = "bans" /\ buf' = Cbuf_InsertText(rest, <<Exec("listip")>>)
          BY <3>1, <5>1 DEF Returns, NextStage
        <5>3. buf' # <<>> /\ Head(buf') = Exec("listip") /\ Tail(buf') = rest
          BY <5>1, <5>2, PutBefore, PendingMembers
        <5>4. IsList(Head(buf'))
          BY <5>3 DEF IsList, Exec
        <5> QED BY <4>1, <5>1, <5>2, <5>3, <5>4 DEF BackInv
      <4> QED BY <2>3, <3>1, <4>2, <4>3, BlandExecute DEF BackInv
    <3>2. CASE stage = "bans"
      BY <2>3, <3>2, BackBans
    <3>3. CASE stage = "cmdline"
      <4>1. /\ filters' = filters /\ file' = file
            /\ \/ stage' = stage /\ AllBland(buf')
               \/ \E rest \in Seq(Pending) : Returns(rest)
        BY <2>3, <3>3, BlandExecute DEF BackInv
      <4>2. Covered(Len(file))'
        BY <3>3, <4>1 DEF BackInv, Covered
      <4>3. CASE stage' = stage /\ AllBland(buf')
        BY <3>3, <4>2, <4>3 DEF BackInv
      <4>4. CASE \E rest \in Seq(Pending) : Returns(rest)
        <5>1. stage' = "top"
          BY <3>3, <4>4 DEF Returns, NextStage
        <5> QED BY <2>2, <5>1
      <4> QED BY <4>1, <4>3, <4>4
    <3>4. CASE stage \in {"reload", "commands"}
      <4>1. stage' \in {"reload", "commands", "network"}
        BY <2>3, <3>4 DEF Execute, ExecuteDone, Returns, NextStage, Cmd_Wait_f, Cmd_Exec_f,
         Cmd_Quit_f, Cmd_If_f, AliasCommand, RunAlias, Ignored, WhitelistCommand, SV_AddIP_f,
         SV_RemoveIP_f, SV_WriteIP_f, SV_Cmd_Banip_f, SV_Cmd_Banremove_f, loop
      <4> QED BY <2>2, <4>1
    <3>5. stage \in Executing
      BY <2>3 DEF Execute, ExecuteDone, Cmd_Wait_f, Cmd_Exec_f,
         Cmd_Quit_f, Cmd_If_f, AliasCommand, RunAlias, Ignored, WhitelistCommand, SV_AddIP_f,
         SV_RemoveIP_f, SV_WriteIP_f, SV_Cmd_Banip_f, SV_Cmd_Banremove_f, Runs, HasText
    <3> QED BY <3>1, <3>2, <3>3, <3>4, <3>5 DEF Executing
  <2>4. CASE Reload \/ NoReload \/ NothingTyped \/ SV_CleanBansIPList
             \/ (\E line \in Lines : Typed(line)) \/ Exits \/ Killed
    <3>1. stage' \in {"reload", "commands", "clean", "top", "down"}
      BY <2>4 DEF Reload, NoReload, NothingTyped, SV_CleanBansIPList, Typed, Exits, Killed, Gone
    <3> QED BY <2>2, <3>1
  <2>5. CASE Starts
    <3>1. stage' = "start" /\ buf' = Cbuf_InsertText(<<>>, <<Exec("cfg")>>)
      BY <2>5 DEF Starts
    <3>2. AllBland(<<>>) /\ <<>> \in Seq(Pending)
      BY DEF AllBland
    <3>3. Bland(Exec("cfg"))
      BY DEF Bland, Exec, NoAlias, IsList, FirstCommands, BanCommands
    <3>4. <<Exec("cfg")>> \in Seq(Pending) /\ AllBland(<<Exec("cfg")>>)
      BY <3>3, TextsPend, PendingMembers DEF AllBland
    <3>5. AllBland(buf')
      BY <3>1, <3>2, <3>4, BlandText
    <3> QED BY <2>1, <3>1, <3>5 DEF BackInv
  <2>6. CASE sighup_handler \/ (\E x \in Configs : EditCfg(x)) \/ Tick
    <3>1. buf' = buf /\ stage' = stage /\ filters' = filters /\ file' = file
      BY <2>6 DEF sighup_handler, EditCfg, Tick, loop, bans
    <3>2. \A m : Covered(m) => Covered(m)'
      BY <3>1 DEF Covered
    <3> QED BY <3>1, <3>2 DEF BackInv
  <2> QED BY <1>2, <2>3, <2>4, <2>5, <2>6 DEF Next
<1> QED BY <1>1, <1>2

(* When the proxy opens its port every ban that its file has is in force   *)
(* again, whatever killed it before and however short the file was cut     *)
(* (FWD_proc, Ban_Init): for any configuration that leaves the bans to     *)
(* their file, as long as that file fits into the command buffer.          *)
THEOREM BansComeBack ==
  ASSUME ConfigsLeaveBans, FreeSpotIsNoKey
  PROVE  Spec /\ []RoomForList => []BansBackBeforeService
<1> DEFINE Inv == IInv /\ BackInv
<1>1. Init => Inv
  BY TypesStart DEF Init, BackInv
<1>2. Inv /\ RoomForList /\ [Next]_vars => Inv'
  BY TypesStep, BackStep
<1>3. Inv => BansBackBeforeService
  <2>1. SUFFICES ASSUME Inv, stage = "cmdline", NEW i \in DOMAIN file, file[i].type = "ban"
                 PROVE  Covers(filters, file[i].key, "ban")
    BY DEF BansBackBeforeService
  <2>2. DOMAIN file = 1..Len(file)
    BY <2>1 DEF IInv, FileOK, OrderedFile
  <2> QED BY <2>1, <2>2 DEF BackInv, Covered
<1> QED BY <1>1, <1>2, <1>3, PTL DEF Spec

-----------------------------------------------------------------------------
(* The array and the file are the list of bans and its copy.               *)

(* No address has two filters of fs.                                       *)
Once(fs) == \A i, j \in 1..Len(fs) : fs[i].key = fs[j].key => i = j

Keys(fs) == {fs[i].key : i \in 1..Len(fs)}

RuleOf(f) == [type |-> f.type, until |-> f.until]

LEMMA RulesByKey ==
  ASSUME NEW fs \in Seq(Filters)
  PROVE  /\ DOMAIN RulesOf(fs) = Keys(fs)
         /\ RulesOf(fs) = [k \in Keys(fs) |-> RulesOf(fs)[k]]
         /\ Once(fs) => \A i \in 1..Len(fs) : RulesOf(fs)[fs[i].key] = RuleOf(fs[i])
         /\ \A k \in Keys(fs) : \E i \in 1..Len(fs) :
              fs[i].key = k /\ RulesOf(fs)[k] = RuleOf(fs[i])
<1> DEFINE place(k) == CHOOSE i \in 1..Len(fs) : fs[i].key = k
<1>1. RulesOf(fs) = [k \in Keys(fs) |-> RuleOf(fs[place(k)])]
  <2>1. DOMAIN fs = 1..Len(fs)
    OBVIOUS
  <2> QED BY <2>1 DEF RulesOf, Keys, RuleOf
<1>2. \A k \in Keys(fs) : place(k) \in 1..Len(fs) /\ fs[place(k)].key = k
  BY DEF Keys
<1> HIDE DEF place
<1>3. ASSUME Once(fs), NEW i \in 1..Len(fs)
      PROVE  RulesOf(fs)[fs[i].key] = RuleOf(fs[i])
  <2>1. fs[i].key \in Keys(fs)
    BY DEF Keys
  <2>2. place(fs[i].key) = i
    BY <1>2, <1>3, <2>1 DEF Once
  <2> QED BY <1>1, <2>1, <2>2
<1> QED BY <1>1, <1>2, <1>3

(* Of some filters of a list the rules are those of the list.              *)
LEMMA RulesOfPart ==
  ASSUME NEW fs \in Seq(Filters), Once(fs), NEW gs \in Seq(Filters), Among(gs, fs)
  PROVE  /\ Keys(gs) \subseteq DOMAIN RulesOf(fs)
         /\ RulesOf(gs) = Restrict(RulesOf(fs), Keys(gs))
<1>1. Keys(gs) \subseteq Keys(fs)
  BY DEF Keys, Among
<1>2. ASSUME NEW k \in Keys(gs) PROVE RulesOf(gs)[k] = RulesOf(fs)[k]
  <2>1. PICK i \in 1..Len(gs) : gs[i].key = k /\ RulesOf(gs)[k] = RuleOf(gs[i])
    BY RulesByKey
  <2>2. PICK j \in 1..Len(fs) : gs[i] = fs[j]
    BY DEF Among
  <2> QED BY <2>1, <2>2, RulesByKey
<1>3. RulesOf(gs) = [k \in Keys(gs) |-> RulesOf(fs)[k]]
  <2>1. RulesOf(gs) = [k \in Keys(gs) |-> RulesOf(gs)[k]]
    BY RulesByKey
  <2> QED BY <1>2, <2>1
<1> QED BY <1>1, <1>3, RulesByKey DEF Restrict

LEMMA RulesOfNone == RulesOf(<<>>) = BansOf!NoRules
<1>1. <<>> \in Seq(Filters) /\ Keys(<<>>) = {}
  BY DEF Keys
<1> QED BY <1>1, RulesByKey DEF BansOf!NoRules

(* A filter less, and its rule is gone.                                    *)
LEMMA RulesLifted ==
  ASSUME NEW fs \in Seq(Filters), Once(fs), NEW p \in 1..Len(fs)
  PROVE  LET gs == RemoveAt(fs, p)
         IN  /\ Once(gs)
             /\ RulesOf(gs) = Restrict(RulesOf(fs), DOMAIN RulesOf(fs) \ {fs[p].key})
<1> DEFINE gs == RemoveAt(fs, p)
           N == Len(fs)
           from(i) == IF i < p THEN i ELSE i + 1
<1>1. /\ gs \in Seq(Filters) /\ Len(gs) = N - 1
      /\ \A i \in 1..(p - 1) : gs[i] = fs[i]
      /\ \A i \in p..(N - 1) : gs[i] = fs[i + 1]
  BY RemoveAtElements
<1>2. Among(gs, fs)
  BY FilterRemoved
<1>3. N \in Nat /\ p \in 1..N
  OBVIOUS
<1>3a. DOMAIN RulesOf(fs) = Keys(fs)
  BY RulesByKey
<1> HIDE DEF gs, N
<1>4. \A i \in 1..Len(gs) : gs[i] = fs[from(i)] /\ from(i) \in 1..N /\ from(i) # p
  <2>1. SUFFICES ASSUME NEW i \in 1..Len(gs)
                 PROVE  gs[i] = fs[from(i)] /\ from(i) \in 1..N /\ from(i) # p
    OBVIOUS
  <2>2. CASE i < p
    BY <1>1, <1>3, <2>2
  <2>3. CASE ~(i < p)
    BY <1>1, <1>3, <2>3
  <2> QED BY <2>2, <2>3
<1>5. \A i, j \in 1..Len(gs) : from(i) = from(j) => i = j
  BY <1>1, <1>3
<1>6. \A k \in 1..N : k # p => \E i \in 1..Len(gs) : from(i) = k
  <2>1. SUFFICES ASSUME NEW k \in 1..N, k # p PROVE \E i \in 1..Len(gs) : from(i) = k
    OBVIOUS
  <2>2. CASE k < p
    <3>1. k \in 1..Len(gs) /\ from(k) = k
      BY <1>1, <1>3, <2>2
    <3> QED BY <3>1
  <2>3. CASE ~(k < p)
    <3>1. k - 1 \in 1..Len(gs) /\ from(k - 1) = k
      BY <1>1, <1>3, <2>1, <2>3
    <3> QED BY <3>1
  <2> QED BY <2>2, <2>3
<1> HIDE DEF from
<1>7. Once(gs)
  BY <1>4, <1>5 DEF Once, N
<1>8. Keys(gs) = Keys(fs) \ {fs[p].key}
  <2>1. ASSUME NEW i \in 1..Len(gs) PROVE gs[i].key \in Keys(fs) \ {fs[p].key}
    BY <1>3, <1>4 DEF Once, Keys, N
  <2>2. ASSUME NEW k \in Keys(fs), k # fs[p].key PROVE k \in Keys(gs)
    <3>1. PICK j \in 1..N : fs[j].key = k
      BY DEF Keys, N
    <3>2. PICK i \in 1..Len(gs) : from(i) = j
      BY <1>6, <2>2, <3>1
    <3> QED BY <1>4, <3>1, <3>2 DEF Keys
  <2> QED BY <2>1, <2>2 DEF Keys
<1>9. RulesOf(gs) = Restrict(RulesOf(fs), Keys(gs))
  BY <1>1, <1>2, RulesOfPart
<1> QED BY <1>3a, <1>7, <1>8, <1>9 DEF gs

(* Without the filters that are over, their rules are gone.                *)
LEMMA RulesExpired ==
  ASSUME filters \in Seq(Filters), Once(filters), now \in Nat
  PROVE  LET gs == Kept(filters, InForce)
             R  == RulesOf(filters)
         IN  /\ Once(gs)
             /\ RulesOf(gs) =
                  Restrict(R, {k \in DOMAIN R : R[k].until = 0 \/ R[k].until > now})
<1> DEFINE gs == Kept(filters, InForce)
           R == RulesOf(filters)
           Left == {k \in DOMAIN R : R[k].until = 0 \/ R[k].until > now}
           N == Len(filters)
<1>1. gs \in Seq(Filters) /\ Among(gs, filters)
  BY FiltersKept
<1>2. PICK m : PicksTo(m, gs, filters, InForce, N)
  BY KeptPicks
<1>3. N \in Nat /\ DOMAIN filters = 1..N /\ \A i \in 1..N : filters[i] \in Filters
  OBVIOUS
<1>4. \A i \in 1..N : filters[i] \in InForce <=> ~Expired(filters[i])
  BY <1>3 DEF InForce, Expired
<1>5. \A i \in 1..N :
        ~Expired(filters[i]) <=> (filters[i].until = 0 \/ filters[i].until > now)
  BY <1>3 DEF Expired, Filters
<1>6. /\ DOMAIN R = Keys(filters)
      /\ \A i \in 1..N : R[filters[i].key].until = filters[i].until
  <2>1. \A i \in 1..N : R[filters[i].key] = RuleOf(filters[i])
    BY RulesByKey
  <2>2. \A i \in 1..N : RuleOf(filters[i]).until = filters[i].until
    BY DEF RuleOf
  <2>3. DOMAIN R = Keys(filters)
    BY RulesByKey
  <2> QED BY <2>1, <2>2, <2>3
<1> HIDE DEF gs, R, N
<1>7. Once(gs)
  <2>1. SUFFICES ASSUME NEW i \in 1..Len(gs), NEW j \in 1..Len(gs), gs[i].key = gs[j].key
                 PROVE  i = j
    BY DEF Once
  <2>2. m[i] \in 1..N /\ m[j] \in 1..N /\ m[i] = m[j]
    <3>1. m[i] \in 1..N /\ m[j] \in 1..N
      BY <1>2 DEF PicksTo
    <3>2. gs[i] = filters[m[i]] /\ gs[j] = filters[m[j]]
      BY <1>2 DEF PicksTo
    <3> QED BY <2>1, <3>1, <3>2 DEF Once, N
  <2>3. Len(gs) \in Nat /\ ~(i < j) /\ ~(j < i)
    BY <1>1, <1>2, <2>2 DEF PicksTo
  <2> QED BY <2>3
<1>8. Keys(gs) = Left
  <2>1. ASSUME NEW j \in 1..Len(gs) PROVE gs[j].key \in Left
    <3>1. m[j] \in 1..N /\ gs[j] = filters[m[j]] /\ filters[m[j]] \in InForce
      BY <1>2 DEF PicksTo
    <3>2. gs[j].key \in DOMAIN R
      BY <1>6, <3>1 DEF Keys, N
    <3> QED BY <1>4, <1>5, <1>6, <3>1, <3>2
  <2>2. ASSUME NEW k \in Left PROVE k \in Keys(gs)
    <3>1. PICK i \in 1..N : filters[i].key = k
      BY <1>6 DEF Keys, N
    <3>2. filters[i] \in InForce
      BY <1>4, <1>5, <1>6, <3>1
    <3>3. PICK j \in 1..Len(gs) : m[j] = i
      BY <1>2, <3>2 DEF PicksTo
    <3>4. gs[j] = filters[i]
      BY <1>2, <3>3 DEF PicksTo
    <3> QED BY <3>1, <3>4 DEF Keys
  <2> QED BY <2>1, <2>2 DEF Keys
<1>9. RulesOf(gs) = Restrict(R, Keys(gs))
  BY <1>1, RulesOfPart DEF R
<1> QED BY <1>7, <1>8, <1>9 DEF gs, R

(* There are as many addresses with a filter as there are filters, at most.*)
LEMMA KeysCount ==
  ASSUME NEW fs \in Seq(Filters)
  PROVE  Cardinality(Keys(fs)) \in Nat /\ Cardinality(Keys(fs)) <= Len(fs)
<1> DEFINE K == Keys(fs)
           N == Len(fs)
           f == [i \in 1..N |-> fs[i].key]
<1>1. N \in Nat /\ IsFiniteSet(1..N) /\ Cardinality(1..N) = N
  <2>1. N \in Nat /\ 1 \in Int /\ N \in Int
    OBVIOUS
  <2>2. IsFiniteSet(1..N) /\ Cardinality(1..N) = IF 1 > N THEN 0 ELSE N - 1 + 1
    BY <2>1, FS_Interval
  <2> QED BY <2>1, <2>2
<1>2. f \in Surjection(1..N, K)
  BY DEF Surjection, Keys
<1> HIDE DEF f, K, N
<1>3. IsFiniteSet(K) /\ Cardinality(K) <= Cardinality(1..N)
  BY <1>1, <1>2, FS_Surjection
<1>4. Cardinality(K) \in Nat
  BY <1>3, FS_CardinalityType
<1> QED BY <1>1, <1>3, <1>4 DEF K, N

(* addip puts a rule in the place of the one its address has, or puts a    *)
(* new one, or finds the list full.                                        *)
LEMMA RulesPut ==
  ASSUME filters \in Seq(Filters), Len(filters) <= MaxFilters, Once(filters), now \in Nat,
         FreeSpotIsNoKey, SV_AddIP_f, Head(buf) \in AddIPs
  PROVE  LET f == Filter(Head(buf).key, Head(buf).type, Until(Head(buf)))
             R == RulesOf(filters)
         IN  /\ f \in Filters
             /\ filters' \in Seq(Filters) /\ Once(filters')
             /\ \/ filters' = filters
                \/ /\ f.key \in DOMAIN R \/ Cardinality(DOMAIN R) < MaxFilters
                   /\ RulesOf(filters') =
                        [k \in DOMAIN R \cup {f.key} |-> IF k = f.key THEN RuleOf(f) ELSE R[k]]
<1> DEFINE c == Head(buf)
           f == Filter(c.key, c.type, Until(c))
           R == RulesOf(filters)
           spots == Spots(c.key)
           N == Len(filters)
           p == CHOOSE i \in spots : \A j \in spots : i <= j
           q == IF spots # {} THEN p ELSE N + 1
<1>1. f \in Filters /\ f.key = c.key /\ c.key \in Key
  BY FilterTypes DEF Filter
<1>2. N \in Nat /\ DOMAIN filters = 1..N /\ \A i \in 1..N : filters[i] \in Filters
  OBVIOUS
<1>3. filters' = IF spots # {} THEN [filters EXCEPT ![p] = f]
                 ELSE IF N < MaxFilters THEN Append(filters, f) ELSE filters
  BY DEF SV_AddIP_f
<1>4. spots = {i \in 1..N : filters[i].key = f.key}
  BY <1>1, <1>2 DEF Spots, Filters, FreeSpotIsNoKey
<1>5. /\ DOMAIN R = Keys(filters) /\ Cardinality(Keys(filters)) \in Nat
      /\ Cardinality(Keys(filters)) <= N
      /\ \A i \in 1..N : R[filters[i].key] = RuleOf(filters[i])
  BY RulesByKey, KeysCount
<1> HIDE DEF c, f, R, spots, p
<1>6. CASE spots = {} /\ ~(N < MaxFilters)
  <2>1. filters' = filters
    BY <1>3, <1>6
  <2> QED BY <1>1, <2>1 DEF f, c
<1>7. CASE spots # {} \/ N < MaxFilters
  <2>1. /\ q \in 1..(N + 1)
        /\ filters' \in Seq(Filters) /\ filters'[q] = f
        /\ Len(filters') = (IF spots # {} THEN N ELSE N + 1)
        /\ q \in 1..Len(filters')
        /\ \A i \in 1..Len(filters') : i # q => i \in 1..N /\ filters'[i] = filters[i]
        /\ \A i \in 1..N : i # q => i \in 1..Len(filters')
    <3>1. CASE spots # {}
      <4>1. p \in 1..N
        BY <1>2, <1>4, <3>1, First DEF p
      <4>2. filters' = [filters EXCEPT ![p] = f]
        BY <1>3, <3>1
      <4> QED BY <1>1, <1>2, <3>1, <4>1, <4>2
    <3>2. CASE spots = {}
      <4>1. filters' = Append(filters, f)
        BY <1>3, <1>7, <3>2
      <4> QED BY <1>1, <1>2, <3>2, <4>1
    <3> QED BY <3>1, <3>2
  <2>2. \A i \in 1..N : filters[i].key = f.key <=> i = q
    <3>1. CASE spots # {}
      <4>1. p \in spots
        BY <1>2, <1>4, <3>1, First DEF p
      <4> QED BY <1>4, <3>1, <4>1 DEF Once
    <3>2. CASE spots = {}
      BY <1>2, <1>4, <3>2
    <3> QED BY <3>1, <3>2
  <2>3. f.key \in DOMAIN R \/ Cardinality(DOMAIN R) < MaxFilters
    <3>1. CASE spots # {}
      BY <1>4, <1>5, <3>1 DEF Keys
    <3>2. CASE N < MaxFilters
      BY <1>2, <1>5, <3>2, ConsoleAssumption
    <3> QED BY <1>7, <3>1, <3>2
  <2> HIDE DEF q, N
  <2>4. Once(filters')
    <3>1. SUFFICES ASSUME NEW i \in 1..Len(filters'), NEW j \in 1..Len(filters'),
                          filters'[i].key = filters'[j].key
                   PROVE  i = j
      BY DEF Once
    <3>2. CASE i = q \/ j = q
      BY <2>1, <2>2, <3>1, <3>2
    <3>3. CASE i # q /\ j # q
      BY <2>1, <3>1, <3>3 DEF Once, N
    <3> QED BY <3>2, <3>3
  <2>5. Keys(filters') = Keys(filters) \cup {f.key}
    <3>1. ASSUME NEW i \in 1..Len(filters') PROVE filters'[i].key \in Keys(filters) \cup {f.key}
      BY <2>1 DEF Keys, N
    <3>2. ASSUME NEW i \in 1..N PROVE filters[i].key \in Keys(filters')
      <4>1. CASE i = q
        BY <2>1, <2>2, <4>1 DEF Keys
      <4>2. CASE i # q
        BY <2>1, <4>2 DEF Keys
      <4> QED BY <4>1, <4>2
    <3>3. f.key \in Keys(filters')
      BY <2>1 DEF Keys
    <3> QED BY <3>1, <3>2, <3>3 DEF Keys, N
  <2>6. /\ RulesOf(filters') = [k \in Keys(filters') |-> RulesOf(filters')[k]]
        /\ \A i \in 1..Len(filters') : RulesOf(filters')[filters'[i].key] = RuleOf(filters'[i])
    BY <2>1, <2>4, RulesByKey
  <2>7. ASSUME NEW k \in Keys(filters')
        PROVE  RulesOf(filters')[k] = IF k = f.key THEN RuleOf(f) ELSE R[k]
    <3>1. CASE k = f.key
      BY <2>1, <2>6, <3>1
    <3>2. CASE k # f.key
      <4>1. PICK i \in 1..Len(filters') : filters'[i].key = k
        BY DEF Keys
      <4>2. i # q /\ i \in 1..N /\ filters'[i] = filters[i]
        BY <2>1, <3>2, <4>1
      <4> QED BY <1>5, <2>6, <3>2, <4>1, <4>2
    <3> QED BY <3>1, <3>2
  <2>8. RulesOf(filters') =
          [k \in DOMAIN R \cup {f.key} |-> IF k = f.key THEN RuleOf(f) ELSE R[k]]
    BY <1>5, <2>5, <2>6, <2>7
  <2> QED BY <1>1, <2>1, <2>3, <2>4, <2>8 DEF f, c, R
<1> QED BY <1>6, <1>7

(* Each line of a file is that of a filter, and each filter has a line.    *)
Copies(text, fs) ==
  /\ text \in Seq(AddIPs)
  /\ \A j \in 1..Len(text) : \E i \in 1..Len(fs) :
       text[j] = AddIP(fs[i].key, fs[i].type, fs[i].until, "epoch")

PartOf(S, R, keys) == DOMAIN S = keys /\ keys \subseteq DOMAIN R /\ S = Restrict(R, keys)

LEMMA RulesOnFile ==
  ASSUME NEW fs \in Seq(Filters), Once(fs), NEW text, Copies(text, fs)
  PROVE  PartOf(RulesOf(FiltersOf(text)), RulesOf(fs), Keys(text))
<1> DEFINE gs == FiltersOf(text)
<1>1. text \in Seq(AddIPs) /\ DOMAIN text = 1..Len(text) /\ Len(text) \in Nat
  BY DEF Copies
<1>2. gs = [i \in 1..Len(text) |-> Filter(text[i].key, text[i].type, text[i].time)]
  BY <1>1 DEF FiltersOf
<1>3. \A i \in 1..Len(text) : gs[i] \in Filters
  <2>1. \A i \in 1..Len(text) : text[i] \in AddIPs
    BY <1>1
  <2> QED BY <1>2, <2>1 DEF AddIPs, Filter, Filters
<1>4. gs \in Seq(Filters) /\ Len(gs) = Len(text)
  BY <1>1, <1>2, <1>3
<1>5. \A i \in 1..Len(text) : gs[i] = Filter(text[i].key, text[i].type, text[i].time)
  BY <1>2
<1> HIDE DEF gs
<1>6. Among(gs, fs)
  <2>1. SUFFICES ASSUME NEW j \in 1..Len(text) PROVE \E i \in 1..Len(fs) : gs[j] = fs[i]
    BY <1>4 DEF Among
  <2>2. PICK i \in 1..Len(fs) : text[j] = AddIP(fs[i].key, fs[i].type, fs[i].until, "epoch")
    BY DEF Copies
  <2>3. /\ text[j].key = fs[i].key /\ text[j].type = fs[i].type
        /\ text[j].time = fs[i].until
    BY <2>2 DEF AddIP
  <2>4. fs[i] \in Filters
    OBVIOUS
  <2>5. fs[i] = Filter(fs[i].key, fs[i].type, fs[i].until)
    BY <2>4 DEF Filters, Filter
  <2> QED BY <1>5, <2>3, <2>5
<1>7. Keys(gs) = Keys(text)
  <2>1. \A k, t, u : Filter(k, t, u).key = k
    BY DEF Filter
  <2>2. \A j \in 1..Len(text) : gs[j].key = text[j].key
    BY <1>5, <2>1
  <2> QED BY <1>4, <2>2 DEF Keys
<1>8. DOMAIN RulesOf(gs) = Keys(gs)
  BY <1>4, RulesByKey
<1>9. Keys(gs) \subseteq DOMAIN RulesOf(fs) /\ RulesOf(gs) = Restrict(RulesOf(fs), Keys(gs))
  BY <1>4, <1>6, RulesOfPart
<1> QED BY <1>7, <1>8, <1>9 DEF gs, PartOf

(* writeip writes a line for each filter and no other.                     *)
LEMMA WrittenCopies ==
  ASSUME filters \in Seq(Filters)
  PROVE  /\ Copies(Written, filters)
         /\ \A i \in 1..Len(filters) : \E j \in 1..Len(Written) :
              Written[j].key = filters[i].key
<1> DEFINE s == LinesOf("safe")
           b == LinesOf("ban")
           N == Len(filters)
           w == s \o b
           From(l) == \E i \in 1..N :
                        l = AddIP(filters[i].key, filters[i].type, filters[i].until, "epoch")
<1>1. w = Written
  BY DEF Written, LinesOf
<1>2. ASSUME NEW type \in Types
      PROVE  /\ LinesOf(type) \in Seq(AddIPs)
             /\ \A j \in 1..Len(LinesOf(type)) : From(LinesOf(type)[j])
             /\ \A i \in 1..N : filters[i].type = type =>
                  \E j \in 1..Len(LinesOf(type)) : LinesOf(type)[j].key = filters[i].key
  <2> DEFINE ls == LinesOf(type)
             fs == Kept(filters, OfType(type))
  <2>1. /\ ls \in Seq(AddIPs)
        /\ \A i \in 1..N : filters[i].type = type =>
             \E j \in 1..Len(ls) : ls[j] = AddIP(filters[i].key, type, filters[i].until, "epoch")
    BY LinesOfType
  <2>2. \A i \in 1..N : filters[i] \in OfType(type) <=> filters[i].type = type
    <3>1. DOMAIN filters = 1..N
      OBVIOUS
    <3> QED BY <3>1 DEF OfType
  <2>3. PICK m : PicksTo(m, fs, filters, OfType(type), N)
    BY KeptPicks
  <2>4. fs \in Seq(Filters)
    BY KeptPicks
  <2>5. ls = [i \in 1..Len(fs) |-> AddIP(fs[i].key, type, fs[i].until, "epoch")]
    BY <2>4 DEF LinesOf
  <2>6. Len(ls) = Len(fs)
    <3>1. DOMAIN ls = 1..Len(ls) /\ Len(ls) \in Nat
      BY <2>1
    <3>2. DOMAIN ls = 1..Len(fs) /\ Len(fs) \in Nat
      BY <2>4, <2>5
    <3> HIDE DEF ls, fs
    <3> QED BY <3>1, <3>2
  <2> HIDE DEF ls, fs, N
  <2>7. ASSUME NEW j \in 1..Len(ls) PROVE From(ls[j])
    <3>1. m[j] \in 1..N /\ fs[j] = filters[m[j]] /\ filters[m[j]] \in OfType(type)
      BY <2>3, <2>6 DEF PicksTo
    <3>2. filters[m[j]].type = type
      BY <2>2, <3>1
    <3> QED BY <2>5, <2>6, <3>1, <3>2
  <2>8. \A i \in 1..N : filters[i].type = type => \E j \in 1..Len(ls) : ls[j].key = filters[i].key
    <3>1. \A k, u : AddIP(k, type, u, "epoch").key = k
      BY DEF AddIP
    <3> QED BY <2>1, <3>1
  <2> QED BY <2>1, <2>7, <2>8 DEF ls, N
<1>3. /\ s \in Seq(AddIPs) /\ \A j \in 1..Len(s) : From(s[j])
      /\ \A i \in 1..N : filters[i].type = "safe" => \E j \in 1..Len(s) : s[j].key = filters[i].key
  BY <1>2 DEF Types
<1>4. /\ b \in Seq(AddIPs) /\ \A j \in 1..Len(b) : From(b[j])
      /\ \A i \in 1..N : filters[i].type = "ban" => \E j \in 1..Len(b) : b[j].key = filters[i].key
  BY <1>2 DEF Types
<1>5. \A i \in 1..N : filters[i].type \in {"safe", "ban"}
  <2>1. \A i \in 1..N : filters[i] \in Filters
    OBVIOUS
  <2> QED BY <2>1 DEF Filters, Types
<1> HIDE DEF s, b, From, N
<1>6. w \in Seq(AddIPs) /\ Joins(w, s, b)
  BY <1>3, <1>4, ConcatElements
<1> HIDE DEF w
<1>7. /\ Len(s) \in Nat /\ Len(b) \in Nat /\ Len(w) = Len(s) + Len(b)
      /\ \A i \in 1..Len(s) : w[i] = s[i]
      /\ \A i \in 1..Len(b) : w[Len(s) + i] = b[i]
      /\ \A i \in 1..Len(w) : i \in 1..Len(s) \/ i - Len(s) \in 1..Len(b)
      /\ \A i \in 1..Len(w) : i - Len(s) \in 1..Len(b) => w[i] = b[i - Len(s)]
  BY <1>6 DEF Joins
<1>8. \A j \in 1..Len(w) : From(w[j])
  BY <1>3, <1>4, <1>7
<1>9. ASSUME NEW i \in 1..N PROVE \E j \in 1..Len(w) : w[j].key = filters[i].key
  <2>1. CASE filters[i].type = "safe"
    <3>1. PICK j \in 1..Len(s) : s[j].key = filters[i].key
      BY <1>3, <2>1
    <3>2. j \in 1..Len(w) /\ w[j] = s[j]
      BY <1>7
    <3> QED BY <3>1, <3>2
  <2>2. CASE filters[i].type = "ban"
    <3>1. PICK j \in 1..Len(b) : b[j].key = filters[i].key
      BY <1>4, <2>2
    <3>2. Len(s) + j \in 1..Len(w) /\ w[Len(s) + j] = b[j]
      BY <1>7
    <3> QED BY <3>1, <3>2
  <2> QED BY <1>5, <2>1, <2>2
<1>10. Copies(w, filters)
  BY <1>6, <1>8 DEF Copies, From, N
<1> QED BY <1>1, <1>9, <1>10 DEF N

(* So the file has the rules, and a part of it a part of them.             *)
LEMMA RulesWritten ==
  ASSUME filters \in Seq(Filters), Once(filters)
  PROVE  /\ RulesOf(FiltersOf(Written)) = RulesOf(filters)
         /\ \A n \in 0..Len(Written) :
              \E part \in SUBSET DOMAIN RulesOf(filters) :
                RulesOf(FiltersOf(SubSeq(Written, 1, n))) = Restrict(RulesOf(filters), part)
<1> DEFINE R == RulesOf(filters)
           w == Written
<1>1. /\ Copies(w, filters)
      /\ \A i \in 1..Len(filters) : \E j \in 1..Len(w) : w[j].key = filters[i].key
  BY WrittenCopies
<1>2. w \in Seq(AddIPs) /\ Len(w) \in Nat
  BY <1>1 DEF Copies
<1>3. DOMAIN R = Keys(filters) /\ R = [k \in Keys(filters) |-> R[k]]
  BY RulesByKey
<1> HIDE DEF R, w
<1>4. RulesOf(FiltersOf(w)) = R
  <2>1. PartOf(RulesOf(FiltersOf(w)), R, Keys(w))
    BY <1>1, RulesOnFile DEF R
  <2>2. Keys(w) = DOMAIN R
    <3>1. Keys(filters) \subseteq Keys(w)
      BY <1>1 DEF Keys
    <3> QED BY <1>3, <2>1, <3>1 DEF PartOf
  <2> QED BY <1>3, <2>1, <2>2 DEF PartOf, Restrict
<1>5. ASSUME NEW n \in 0..Len(w)
      PROVE  \E part \in SUBSET DOMAIN R :
               RulesOf(FiltersOf(SubSeq(w, 1, n))) = Restrict(R, part)
  <2> DEFINE t == SubSeq(w, 1, n)
  <2>1. t \in Seq(AddIPs) /\ Len(t) = n /\ \A i \in 1..n : i \in 1..Len(w) /\ t[i] = w[i]
    BY <1>2
  <2> HIDE DEF t
  <2>2. Copies(t, filters)
    BY <1>1, <2>1 DEF Copies
  <2>3. PartOf(RulesOf(FiltersOf(t)), R, Keys(t))
    BY <2>2, RulesOnFile DEF R
  <2> QED BY <2>3 DEF t, PartOf
<1> QED BY <1>4, <1>5 DEF R, w

(* The instance of BanList has symbols of its own for the operators it     *)
(* takes from the library; and a rule of the next state is one of the next *)
(* filters.                                                                *)
LEMMA RulesPrimed ==
  /\ RulesOf(filters)' = RulesOf(filters')
  /\ RulesOf(FiltersOf(file))' = RulesOf(FiltersOf(file'))
BY DEF RulesOf, FiltersOf, Filter

LEMMA SameOperators ==
  /\ \A S : BansOf!Cardinality(S) = Cardinality(S)
  /\ \A f, S : BansOf!Restrict(f, S) = Restrict(f, S)
BY DEF BansOf!Cardinality, Cardinality, BansOf!Restrict, Restrict

(* What a step does to the list of bans, in terms of BanList.              *)
ListStep == Once(filters') /\ [BansOf!ListNext]_(BansOf!listVars)

Serving == stage # "down"

LEMMA ListUnchanged ==
  ASSUME Once(filters), filters' = filters, file' = file, now' = now,
         Serving' = Serving
  PROVE  ListStep
BY DEF ListStep, BansOf!listVars, Serving

(* A command that leaves the file alone and does not end the process.      *)
LEMMA ListCommands ==
  ASSUME filters \in Seq(Filters), Once(filters), Once(filters'),
         Serving, Serving', file' = file, now' = now,
         \/ \E k \in Key : BansOf!Put(k) \/ BansOf!Lift(k)
         \/ BansOf!Expire
  PROVE  ListStep
BY DEF ListStep, BansOf!ListNext

(* addip puts a rule.                                                      *)
LEMMA AddIPPuts ==
  ASSUME IInv, FreeSpotIsNoKey, Once(filters), SV_AddIP_f
  PROVE  ListStep
<1> DEFINE f == Filter(Head(buf).key, Head(buf).type, Until(Head(buf)))
           R == RulesOf(filters)
           R1 == RulesOf(filters')
<1>1. /\ stage \in Executing /\ stage' = stage /\ file' = file /\ now' = now
      /\ buf # <<>> /\ Head(buf).op = "addip"
  BY DEF SV_AddIP_f, Runs, HasText, loop, world
<1>2. Serving /\ Serving'
  BY <1>1 DEF Serving, Executing
<1>3. filters \in Seq(Filters) /\ Len(filters) <= MaxFilters /\ now \in Nat
  BY ConsoleAssumption DEF IInv, FiltersOK, LoopOK
<1>4. Head(buf) \in AddIPs
  BY <1>1, Running, PendingFields DEF IInv
<1>5. f \in Filters /\ f.key \in Key
  BY <1>3, <1>4, FilterTypes DEF Filter
<1>6. /\ filters' \in Seq(Filters) /\ Once(filters')
      /\ \/ filters' = filters
         \/ /\ f.key \in DOMAIN R \/ Cardinality(DOMAIN R) < MaxFilters
            /\ R1 = [k \in DOMAIN R \cup {f.key} |-> IF k = f.key THEN RuleOf(f) ELSE R[k]]
  BY <1>3, <1>4, RulesPut
<1> HIDE DEF f
<1>7. CASE filters' = filters
  BY <1>1, <1>2, <1>7, ListUnchanged
<1>8. CASE filters' # filters
  <2>1. RuleOf(f) \in BansOf!Rule
    BY <1>5 DEF RuleOf, Filters, Types, BansOf!Rule
  <2> HIDE DEF R, R1
  <2>2. f.key \in DOMAIN R1 /\ R1[f.key] = RuleOf(f)
    BY <1>6, <1>8
  <2>3. R1 = [k \in DOMAIN R \cup {f.key} |-> IF k = f.key THEN R1[f.key] ELSE R[k]]
    BY <1>6, <1>8, <2>2
  <2>4. f.key \in DOMAIN R \/ Cardinality(DOMAIN R) < MaxFilters
    BY <1>6, <1>8
  <2>5. BansOf!Put(f.key)
    BY <1>1, <1>2, <2>1, <2>2, <2>3, <2>4, RulesPrimed, SameOperators
       DEF R, R1, BansOf!Put, Serving
  <2> QED BY <1>1, <1>2, <1>3, <1>5, <1>6, <2>5, ListCommands
<1> QED BY <1>7, <1>8

(* A filter that a command removes is a rule lifted.                       *)
LEMMA RemovalLifts ==
  ASSUME filters \in Seq(Filters), Once(filters), Serving, Serving', file' = file, now' = now,
         NEW p \in 1..Len(filters), filters' = RemoveAt(filters, p)
  PROVE  ListStep
<1> DEFINE k == filters[p].key
<1>1. /\ Once(filters')
      /\ RulesOf(filters') = Restrict(RulesOf(filters), DOMAIN RulesOf(filters) \ {k})
  BY RulesLifted
<1>2. k \in Key
  <2>1. filters[p] \in Filters
    OBVIOUS
  <2> QED BY <2>1 DEF Filters
<1>3. k \in DOMAIN RulesOf(filters)
  BY RulesByKey DEF Keys
<1>4. BansOf!Lift(k)
  BY <1>1, <1>3, RulesPrimed, SameOperators DEF BansOf!Lift, Serving
<1> QED BY <1>1, <1>2, <1>4, ListCommands

(* The commands and the rest of what Cbuf_Execute does.                    *)
LEMMA ExecuteLists ==
  ASSUME IInv, FreeSpotIsNoKey, Once(filters), Execute
  PROVE  ListStep
<1>1. filters \in Seq(Filters) /\ Len(filters) \in Nat /\ DOMAIN filters = 1..Len(filters)
  BY DEF IInv, FiltersOK
<1>2. stage \in Executing /\ stage' \in {stage, NextStage(stage)} /\ now' = now
  BY DEF Execute, ExecuteDone, Cmd_Wait_f, Cmd_Exec_f, Cmd_Quit_f, Cmd_If_f, AliasCommand,
     RunAlias, Ignored, WhitelistCommand, SV_AddIP_f, SV_RemoveIP_f, SV_WriteIP_f,
     SV_Cmd_Banip_f, SV_Cmd_Banremove_f, Runs, HasText, Returns, loop, world
<1>3. Serving /\ Serving'
  BY <1>2 DEF Serving, Executing, NextStage
<1>4. CASE SV_AddIP_f
  BY <1>4, AddIPPuts
<1>5. CASE SV_RemoveIP_f
  <2> DEFINE found == {i \in DOMAIN filters : filters[i].key = Head(buf).key}
             p == CHOOSE i \in found : \A j \in found : i <= j
  <2>1. filters' = (IF found = {} THEN filters ELSE RemoveAt(filters, p)) /\ file' = file
    BY <1>5 DEF SV_RemoveIP_f
  <2>2. found \subseteq 1..Len(filters)
    BY <1>1
  <2> HIDE DEF found
  <2>3. CASE found = {}
    BY <1>2, <1>3, <2>1, <2>3, ListUnchanged
  <2>4. CASE found # {}
    <3>1. p \in 1..Len(filters)
      BY <1>1, <2>2, <2>4, First
    <3> HIDE DEF p
    <3> QED BY <1>1, <1>2, <1>3, <2>1, <2>4, <3>1, RemovalLifts
  <2> QED BY <2>3, <2>4
<1>6. CASE SV_Cmd_Banremove_f
  <2>1. file' = file
    BY <1>6 DEF SV_Cmd_Banremove_f
  <2>2. CASE filters' = filters
    BY <1>2, <1>3, <2>1, <2>2, ListUnchanged
  <2>3. CASE filters' # filters
    <3>1. Head(buf).id + 1 \in 1..Len(filters) /\ filters' = RemoveAt(filters, Head(buf).id + 1)
      BY <1>6, <1>1, <2>3 DEF SV_Cmd_Banremove_f
    <3> QED BY <1>1, <1>2, <1>3, <2>1, <3>1, RemovalLifts
  <2> QED BY <2>2, <2>3
<1>7. CASE SV_WriteIP_f
  <2>1. filters' = filters /\ file' = Written
    BY <1>7 DEF SV_WriteIP_f
  <2>2. RulesOf(FiltersOf(file')) = RulesOf(filters)
    BY <1>1, <2>1, RulesWritten
  <2>3. BansOf!Save
    BY <1>2, <1>3, <2>1, <2>2, RulesPrimed DEF BansOf!Save, Serving
  <2> QED BY <2>1, <2>3 DEF ListStep, BansOf!ListNext
<1>8. CASE ~SV_AddIP_f /\ ~SV_RemoveIP_f /\ ~SV_Cmd_Banremove_f /\ ~SV_WriteIP_f
  <2>1. filters' = filters /\ file' = file
    BY <1>8 DEF Execute, ExecuteDone, Cmd_Wait_f, Cmd_Exec_f, Cmd_Quit_f, Cmd_If_f,
         AliasCommand, RunAlias, Ignored, WhitelistCommand, SV_Cmd_Banip_f, bans
  <2> QED BY <1>2, <1>3, <2>1, ListUnchanged
<1> QED BY <1>4, <1>5, <1>6, <1>7, <1>8

(* The end of the process, which may cut the file short.                   *)
LEMMA EndLists ==
  ASSUME IInv, Once(filters), Exits \/ Killed
  PROVE  ListStep
<1> DEFINE R == RulesOf(filters)
           S == RulesOf(FiltersOf(file))
<1>1. Serving /\ ~Serving' /\ filters' = <<>> /\ now' = now
  BY DEF Exits, Killed, Gone, world, Serving
<1>2. RulesOf(filters') = BansOf!NoRules
  BY <1>1, RulesOfNone
<1>3. \/ RulesOf(FiltersOf(file')) = S
      \/ \E part \in SUBSET DOMAIN R : RulesOf(FiltersOf(file')) = Restrict(R, part)
  <2>1. CASE file' = file
    BY <2>1
  <2>2. CASE file' # file
    <3>1. PICK n \in 0..Len(Written) : file' = SubSeq(Written, 1, n)
      BY <2>2 DEF Exits, Killed
    <3>2. filters \in Seq(Filters)
      BY DEF IInv, FiltersOK
    <3> QED BY <3>1, <3>2, RulesWritten
  <2> QED BY <2>1, <2>2
<1>4. BansOf!End
  BY <1>1, <1>2, <1>3, RulesPrimed, SameOperators DEF BansOf!End, Serving
<1>5. Once(filters')
  BY <1>1 DEF Once
<1> QED BY <1>4, <1>5 DEF ListStep, BansOf!ListNext

(* The expiry of bans.                                                     *)
LEMMA ExpiryLists ==
  ASSUME IInv, Once(filters), SV_CleanBansIPList
  PROVE  ListStep
<1>1. /\ Serving /\ Serving' /\ file' = file /\ now' = now
      /\ filters' = Kept(filters, InForce)
  BY DEF SV_CleanBansIPList, world, Serving
<1>2. filters \in Seq(Filters) /\ now \in Nat
  BY ConsoleAssumption DEF IInv, FiltersOK, LoopOK
<1>3. /\ Once(filters')
      /\ RulesOf(filters') =
           Restrict(RulesOf(filters),
                    {k \in DOMAIN RulesOf(filters) :
                       RulesOf(filters)[k].until = 0 \/ RulesOf(filters)[k].until > now})
  BY <1>1, <1>2, RulesExpired
<1>4. BansOf!Expire
  BY <1>1, <1>3, RulesPrimed, SameOperators DEF BansOf!Expire, Serving
<1> QED BY <1>1, <1>2, <1>3, <1>4, ListCommands

LEMMA ListSteps ==
  ASSUME FreeSpotIsNoKey, IInv, Once(filters), [Next]_vars
  PROVE  ListStep
<1>1. CASE Execute
  BY <1>1, ExecuteLists
<1>2. CASE Exits \/ Killed
  BY <1>2, EndLists
<1>3. CASE SV_CleanBansIPList
  BY <1>3, ExpiryLists
<1>4. CASE Starts
  <2>1. ~Serving /\ Serving' /\ filters' = filters /\ file' = file /\ now' = now
    BY <1>4 DEF Starts, Serving, bans, world
  <2>2. BansOf!Start
    BY <2>1, RulesPrimed DEF BansOf!Start, Serving
  <2> QED BY <2>1, <2>2 DEF ListStep, BansOf!ListNext
<1>5. CASE Tick
  <2>1. Serving' = Serving /\ filters' = filters /\ file' = file /\ now' = now + 1
    BY <1>5 DEF Tick, Serving, bans, loop
  <2>2. BansOf!Time
    BY <2>1, RulesPrimed DEF BansOf!Time, Serving
  <2> QED BY <2>1, <2>2 DEF ListStep, BansOf!ListNext
<1>6. CASE Reload \/ NoReload \/ NothingTyped \/ (\E line \in Lines : Typed(line))
           \/ sighup_handler \/ (\E c \in Configs : EditCfg(c)) \/ UNCHANGED vars
  <2>1. filters' = filters /\ file' = file /\ now' = now
    BY <1>6 DEF Reload, NoReload, NothingTyped, Typed, sighup_handler, EditCfg, bans, world, vars
  <2>2. Serving' = Serving
    BY <1>6 DEF Reload, NoReload, NothingTyped, Typed, sighup_handler, EditCfg, Serving, loop, vars
  <2> QED BY <2>1, <2>2, ListUnchanged
<1> QED BY <1>1, <1>2, <1>3, <1>4, <1>5, <1>6 DEF Next

LEMMA ListStarts == Init => Once(filters) /\ BansOf!ListInit
<1> SUFFICES ASSUME Init PROVE Once(filters) /\ BansOf!ListInit
  OBVIOUS
<1>1. filters = <<>> /\ file = <<>> /\ now = 1 /\ stage = "down"
  BY DEF Init
<1>2. FiltersOf(file) = <<>>
  BY <1>1 DEF FiltersOf
<1> QED BY <1>1, <1>2, RulesOfNone DEF Once, BansOf!ListInit

(* An address has one filter at most, whatever is added, removed, expires, *)
(* is saved and added again: addip overwrites the filter of the address it *)
(* is given, and only one of a free slot, which no address is written as.  *)
THEOREM OneFilterEach ==
  ASSUME FreeSpotIsNoKey
  PROVE  Spec => []OneFilterPerKey
<1>1. Init => IInv /\ Once(filters)
  BY TypesStart, ListStarts
<1>2. IInv /\ Once(filters) /\ [Next]_vars => IInv' /\ Once(filters)'
  <2>1. SUFFICES ASSUME IInv, Once(filters), [Next]_vars PROVE IInv' /\ Once(filters)'
    OBVIOUS
  <2>2. ListStep
    BY <2>1, ListSteps
  <2> QED BY <2>1, <2>2, TypesStep DEF ListStep, Once
<1>3. IInv /\ Once(filters) => OneFilterPerKey
  <2>1. SUFFICES ASSUME IInv, Once(filters) PROVE OneFilterPerKey
    OBVIOUS
  <2>2. DOMAIN filters = 1..Len(filters)
    BY <2>1 DEF IInv, FiltersOK
  <2> QED BY <2>1, <2>2 DEF Once, OneFilterPerKey
<1> QED BY <1>1, <1>2, <1>3, PTL DEF Spec

(* The array of filters and its file are the abstract list of bans and its *)
(* copy (ban.c): every step of the program is a step of BanList or changes *)
(* nothing that BanList has, for any commands, configurations and kills;   *)
(* and no address has two filters, of which the list would show only one.  *)
THEOREM KeepsTheList ==
  ASSUME FreeSpotIsNoKey
  PROVE  Spec => ImplementsBanList
<1>1. Init => IInv /\ Once(filters) /\ BansOf!ListInit
  BY TypesStart, ListStarts
<1>2. IInv /\ Once(filters) /\ [Next]_vars
        => IInv' /\ Once(filters)' /\ [BansOf!ListNext]_(BansOf!listVars)
  <2>1. SUFFICES ASSUME IInv, Once(filters), [Next]_vars
                 PROVE  IInv' /\ Once(filters)' /\ [BansOf!ListNext]_(BansOf!listVars)
    OBVIOUS
  <2>2. ListStep
    BY <2>1, ListSteps
  <2> QED BY <2>1, <2>2, TypesStep DEF ListStep, Once
<1>3. Spec => BansOf!ListSpec
  BY <1>1, <1>2, PTL DEF Spec, BansOf!ListSpec
<1> QED BY <1>3, OneFilterEach, PTL DEF ImplementsBanList
=============================================================================
