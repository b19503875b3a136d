-------------------------- MODULE ServerListProofs --------------------------
(***************************************************************************)
(* Proofs about the list of servers, whatever masters report and filters   *)
(* take away: its types and its counter, and that a server which has       *)
(* answered is only given up after DeadTime of silence.                    *)
(***************************************************************************)
EXTENDS ServerList, ListProofs

(* Each address is on the list l at most once.                             *)
Unique(l) == \A i, j \in 1..Len(l) : l[i].addr = l[j].addr => i = j

(* A server that has answered was last heard when it was last quiet, and   *)
(* was silent for no longer before it was last asked.                      *)
Heard(l) ==
  \A i \in 1..Len(l) :
    l[i].answered => l[i].heard = l[i].quiet /\ l[i].silent <= l[i].quiet

IInv == TypeOK /\ Heard(servers)

-----------------------------------------------------------------------------
(* Reports.                                                                *)

(* What QRY_SV_new makes of a list as the others leave it.                 *)
Sound(l) == l \in Seq(Server) /\ Unique(l) /\ Len(l) <= MaxServers /\ Heard(l)

(* No server of k has gone from l.                                         *)
Holds(l, k) == AddressesOf(k) \subseteq AddressesOf(l)

LEMMA ListedSound ==
  ASSUME IInv
  PROVE  Sound(servers)
BY DEF IInv, TypeOK, Sound, Unique

LEMMA NewServerType ==
  ASSUME TypeOK, NEW a \in Address
  PROVE  NewServer(a) \in Server /\ NewServer(a).addr = a /\ ~NewServer(a).answered
BY ServerListAssumption DEF TypeOK, NewServer, Server

(* Taking in one server.                                                   *)
LEMMA TakesOne ==
  ASSUME TypeOK, NEW l, Sound(l), NEW a \in Address
  PROVE  Sound(QRY_SV_new(l, a)) /\ Holds(QRY_SV_new(l, a), l)
<1>1. CASE ~Admits(l, a)
  BY <1>1 DEF QRY_SV_new, Holds
<1>2. CASE Admits(l, a)
  <2> DEFINE new == NewServer(a)
             m == <<new>> \o l
  <2>1. QRY_SV_new(l, a) = m
    BY <1>2 DEF QRY_SV_new
  <2>2. new \in Server /\ new.addr = a /\ ~new.answered
    BY NewServerType
  <2> HIDE DEF new
  <2>3. /\ m \in Seq(Server) /\ Len(m) = Len(l) + 1 /\ Len(l) \in Nat
        /\ m[1] = new /\ \A i \in 2..Len(m) : m[i] = l[i - 1]
    BY <2>2 DEF Sound
  <2>4. \A i \in 1..Len(l) : l[i].addr # a
    BY <1>2 DEF Admits, AddressesOf, Sound
  <2>5. Len(l) < MaxServers
    BY <1>2, <2>3, ServerListAssumption DEF Admits, Counted, TypeOK, Sound
  <2> HIDE DEF m
  <2>6. \A i \in 1..Len(m) : i = 1 \/ (i \in 2..Len(m) /\ i - 1 \in 1..Len(l))
    BY <2>3
  <2>7. Unique(m)
    <3>1. \A i, j \in 1..Len(l) : l[i].addr = l[j].addr => i = j
      BY DEF Sound, Unique
    <3>2. SUFFICES ASSUME NEW i \in 1..Len(m), NEW j \in 1..Len(m), m[i].addr = m[j].addr
                   PROVE  i = j
      BY DEF Unique
    <3>3. CASE i = 1 \/ j = 1
      BY <2>2, <2>3, <2>4, <2>6, <3>2, <3>3
    <3>4. CASE i # 1 /\ j # 1
      <4>1. i - 1 = j - 1
        BY <2>3, <2>6, <3>1, <3>2, <3>4
      <4> QED BY <4>1, <2>3
    <3> QED BY <3>3, <3>4
  <2>8. Heard(m)
    <3>1. SUFFICES ASSUME NEW i \in 1..Len(m), m[i].answered
                   PROVE  m[i].heard = m[i].quiet /\ m[i].silent <= m[i].quiet
      BY DEF Heard
    <3>2. i \in 2..Len(m) /\ i - 1 \in 1..Len(l)
      BY <2>2, <2>3, <2>6, <3>1
    <3> QED BY <2>3, <3>1, <3>2 DEF Sound, Heard
  <2>9. Holds(m, l)
    <3>1. \A i \in 1..Len(l) : i + 1 \in 2..Len(m) /\ (i + 1) - 1 = i
      BY <2>3
    <3>2. \A i \in 1..Len(l) : i + 1 \in 1..Len(m) /\ m[i + 1] = l[i]
      BY <2>3, <3>1
    <3>3. DOMAIN l = 1..Len(l) /\ DOMAIN m = 1..Len(m)
      BY <2>3 DEF Sound
    <3> QED BY <3>2, <3>3 DEF Holds, AddressesOf
  <2> QED BY <2>1, <2>3, <2>5, <2>7, <2>8, <2>9, ServerListAssumption DEF Sound
<1> QED BY <1>1, <1>2

(* l goes through the reports r one by one.                                *)
TakesTo(l, r) ==
  /\ l[0] = servers
  /\ \A n \in 1..Len(r) : l[n] = QRY_SV_new(l[n - 1], r[n])

LEMMA TakenSteps ==
  ASSUME TypeOK, NEW r \in Seq(Address)
  PROVE  \E l : TakesTo(l, r) /\ Taken(r) = l[Len(r)]
<1> DEFINE Lists == Seq(Server)
           N == Len(r)
           Step == [p \in Lists \X (1..N) |-> QRY_SV_new(p[1], r[p[2]])]
           IsTaken(g) == g = [n \in 0..Len(r) |->
                                IF n = 0 THEN servers ELSE QRY_SV_new(g[n - 1], r[n])]
           taken == CHOOSE g : IsTaken(g)
<1>1. N \in Nat /\ servers \in Lists /\ \A n \in 1..N : r[n] \in Address
  BY DEF TypeOK
<1>2. \A l \in Lists, a \in Address : QRY_SV_new(l, a) \in Lists
  BY NewServerType DEF QRY_SV_new
<1> HIDE DEF Lists, N
<1>3. Step \in [Lists \X (1..N) -> Lists]
  BY <1>1, <1>2
<1> HIDE DEF Step
<1>4. PICK f : Iterates(f, Lists, servers, N, Step)
  BY <1>1, <1>3, RecursionTo
<1>5. ASSUME NEW n \in 1..N PROVE f[n] = QRY_SV_new(f[n - 1], r[n])
  <2>1. f[n - 1] \in Lists /\ f[n] = Step[<<f[n - 1], n>>]
    BY <1>1, <1>4 DEF Iterates
  <2> QED BY <2>1 DEF Step
<1>6. IsTaken(f)
  <2>1. f \in [0..Len(r) -> Lists] /\ f[0] = servers
    BY <1>4 DEF Iterates, N
  <2>2. \A n \in 0..N : n # 0 => n \in 1..N
    BY <1>1
  <2>3. ASSUME NEW n \in 0..Len(r)
        PROVE  f[n] = IF n = 0 THEN servers ELSE QRY_SV_new(f[n - 1], r[n])
    BY <1>5, <2>1, <2>2, Zenon DEF N
  <2> QED BY <2>1, <2>3, Zenon
<1>7. IsTaken(taken)
  <2> HIDE DEF IsTaken
  <2> QED BY <1>6
<1>8. Taken(r) = taken[N]
  BY DEF Taken, N
<1> HIDE DEF taken
<1>9. TakesTo(taken, r)
  <2>1. \A n \in 0..N : taken[n] = IF n = 0 THEN servers
                                    ELSE QRY_SV_new(taken[n - 1], r[n])
    BY <1>7 DEF N
  <2>2. 0 \in 0..N /\ \A n \in 1..N : n \in 0..N /\ n # 0
    BY <1>1
  <2> QED BY <2>1, <2>2 DEF TakesTo, N
<1> QED BY <1>8, <1>9 DEF N

(* A datagram of reports, of any length.                                   *)
LEMMA TakenSound ==
  ASSUME IInv, NEW r \in Seq(Address)
  PROVE  Sound(Taken(r)) /\ Holds(Taken(r), servers)
<1>1. PICK l : TakesTo(l, r) /\ Taken(r) = l[Len(r)]
  BY TakenSteps DEF IInv
<1> DEFINE N == Len(r)
           Good == {n \in 0..N : Sound(l[n]) /\ Holds(l[n], servers)}
<1>2. N \in Nat /\ \A n \in 1..N : r[n] \in Address
  OBVIOUS
<1>3. 0 \in Good
  BY <1>1, <1>2, ListedSound DEF TakesTo, Holds
<1>4. ASSUME NEW n \in 1..N, n - 1 \in Good PROVE n \in Good
  <2>1. Sound(l[n - 1]) /\ Holds(l[n - 1], servers) /\ n \in 0..N
    BY <1>2, <1>4
  <2>2. l[n] = QRY_SV_new(l[n - 1], r[n])
    BY <1>1 DEF TakesTo
  <2>3. Sound(l[n]) /\ Holds(l[n], l[n - 1])
    BY <1>2, <2>1, <2>2, TakesOne DEF IInv
  <2> QED BY <2>1, <2>3 DEF Holds
<1>5. \A n \in 0..N : n \in Good
  <2> HIDE DEF Good, N
  <2> QED BY <1>2, <1>3, <1>4, InductionTo
<1> QED BY <1>1, <1>2, <1>5

-----------------------------------------------------------------------------
(* Filters.                                                                *)

(* The numbers from 1 to n.                                                *)
LEMMA UpTo ==
  ASSUME NEW n \in Nat
  PROVE  IsFiniteSet(1..n) /\ Cardinality(1..n) = n
<1>1. 1 \in Int /\ n \in Int
  OBVIOUS
<1>2. IsFiniteSet(1..n) /\ Cardinality(1..n) = IF 1 > n THEN 0 ELSE n - 1 + 1
  BY <1>1, FS_Interval
<1> QED BY <1>2

(* As many servers are freed as stand at the places of those found.        *)
LEMMA FoundCount ==
  ASSUME IInv, NEW f
  PROVE  Cardinality(Found(f)) = Cardinality({i \in 1..Len(servers) : servers[i].addr \in Found(f)})
<1> DEFINE Going == {i \in 1..Len(servers) : servers[i].addr \in Found(f)}
           m == [i \in Going |-> servers[i].addr]
<1>1. Len(servers) \in Nat /\ DOMAIN servers = 1..Len(servers)
  BY DEF IInv, TypeOK
<1>2. m \in Bijection(Going, Found(f))
  <2>1. m \in [Going -> Found(f)]
    OBVIOUS
  <2>2. \A i, j \in Going : m[i] = m[j] => i = j
    BY ListedSound DEF Sound, Unique
  <2>3. \A a \in Found(f) : \E i \in Going : m[i] = a
    BY <1>1 DEF Found
  <2> QED BY <2>1, <2>2, <2>3 DEF Bijection, Injection, Surjection, IsInjective
<1>3. IsFiniteSet(Going)
  <2>1. Going \in SUBSET (1..Len(servers))
    OBVIOUS
  <2> HIDE DEF Going
  <2> QED BY <1>1, <2>1, UpTo, FS_Subset
<1>4. ExistsBijection(Going, Found(f))
  BY <1>2 DEF ExistsBijection
<1> HIDE DEF Going
<1>5. Cardinality(Found(f)) = Cardinality(Going)
  BY <1>3, <1>4, FS_Bijection
<1> QED BY <1>5 DEF Going

(* What the filters f leave of the list.                                   *)
LEMMA FilteredSound ==
  ASSUME IInv, NEW f
  PROVE  /\ Sound(Kept(servers, Staying(f)))
         /\ Len(Kept(servers, Staying(f))) = Freed(Cardinality(Found(f)))
         /\ \A i \in 1..Len(servers) :
              servers[i].addr \notin Found(f) =>
                servers[i].addr \in AddressesOf(Kept(servers, Staying(f)))
<1> DEFINE T == Staying(f)
           l == Kept(servers, T)
           N == Len(servers)
           Going == {i \in 1..N : servers[i].addr \in Found(f)}
           Places == {i \in 1..N : servers[i] \in T}
<1>1. N \in Nat /\ servers \in Seq(Server) /\ DOMAIN servers = 1..N
  BY DEF IInv, TypeOK
<1>2. l \in Seq(Server) /\ \E m : PicksTo(m, l, servers, T, N)
  BY <1>1, KeptPicks
<1>3. Len(l) = Cardinality(Places) /\ Len(l) <= N
  BY <1>1, KeptLength
<1>4. \A i \in 1..N : servers[i] \in T <=> servers[i].addr \notin Found(f)
  BY <1>1 DEF Staying
<1> HIDE DEF l, T
<1>5. PICK m : PicksTo(m, l, servers, T, N)
  BY <1>2
<1>6. Len(l) \in Nat /\ DOMAIN l = 1..Len(l)
  BY <1>2
<1>7. \A j \in 1..Len(l) : m[j] \in 1..N /\ l[j] = servers[m[j]]
  BY <1>5 DEF PicksTo
<1>8. Unique(l)
  <2>1. SUFFICES ASSUME NEW i \in 1..Len(l), NEW j \in 1..Len(l), l[i].addr = l[j].addr
                 PROVE  i = j
    BY DEF Unique
  <2>2. m[i] = m[j]
    BY <1>7, <2>1, ListedSound DEF Sound, Unique
  <2>3. m[i] \in Nat /\ ~(i < j) /\ ~(j < i)
    BY <1>1, <1>5, <1>7, <2>2 DEF PicksTo
  <2> QED BY <1>6, <2>3
<1>9. Heard(l)
  BY <1>7, ListedSound DEF Sound, Heard
<1>10. Sound(l)
  BY <1>1, <1>2, <1>3, <1>6, <1>8, <1>9, ListedSound, ServerListAssumption DEF Sound
<1>11. \A i \in 1..N : servers[i].addr \notin Found(f) => servers[i].addr \in AddressesOf(l)
  <2>1. SUFFICES ASSUME NEW i \in 1..N, servers[i].addr \notin Found(f)
                 PROVE  servers[i].addr \in AddressesOf(l)
    OBVIOUS
  <2>2. PICK j \in 1..Len(l) : m[j] = i
    BY <1>4, <1>5, <2>1 DEF PicksTo
  <2> QED BY <1>6, <1>7, <2>2 DEF AddressesOf
<1>12. Len(l) = Freed(Cardinality(Found(f)))
  <2>1. Places = (1..N) \ Going /\ (1..N) \cap Going = Going
    BY <1>4
  <2>2. IsFiniteSet(1..N) /\ Cardinality(1..N) = N
    BY <1>1, UpTo
  <2>3. Cardinality(Found(f)) = Cardinality(Going)
    BY FoundCount
  <2>4. sv_count = N
    BY DEF IInv, TypeOK
  <2> DEFINE All == 1..N
  <2> HIDE DEF Places, Going, N, All
  <2>5. IsFiniteSet(All) /\ Cardinality(All) = N /\ Places = All \ Going /\ All \cap Going = Going
    BY <2>1, <2>2 DEF All
  <2>6. Cardinality(All \ Going) = Cardinality(All) - Cardinality(All \cap Going)
    BY <2>5, FS_Difference
  <2> QED BY <1>3, <2>3, <2>4, <2>5, <2>6 DEF Freed
<1> QED BY <1>10, <1>11, <1>12 DEF l, T

-----------------------------------------------------------------------------
(* Answers, pings and time change servers in their places.                 *)

Calm(sv) == sv.answered => sv.heard = sv.quiet /\ sv.silent <= sv.quiet

LEMMA InPlace ==
  ASSUME NEW l, Sound(l), NEW m \in Seq(Server), Len(m) = Len(l),
         \A i \in 1..Len(l) : m[i].addr = l[i].addr /\ Calm(m[i])
  PROVE  Sound(m) /\ AddressesOf(m) = AddressesOf(l)
BY DEF Sound, Unique, Heard, Calm, AddressesOf

LEMMA AnsweredCalm ==
  ASSUME NEW sv \in Server
  PROVE  Answered(sv) \in Server /\ Answered(sv).addr = sv.addr /\ Calm(Answered(sv))
<1>1. 0 \in 0..(DeadTime + 1) /\ TRUE \in BOOLEAN
  BY ServerListAssumption
<1>2. Answered(sv) \in Server
  BY <1>1, Zenon DEF Answered, Server
<1>3. /\ Answered(sv).addr = sv.addr
      /\ Answered(sv).heard = 0 /\ Answered(sv).silent = 0 /\ Answered(sv).quiet = 0
  BY DEF Server, Answered
<1> QED BY <1>2, <1>3 DEF Calm

LEMMA AskedCalm ==
  ASSUME NEW sv \in Server, Calm(sv)
  PROVE  Asked(sv) \in Server /\ Asked(sv).addr = sv.addr /\ Calm(Asked(sv))
<1>1. 0 \in 0..MinPing /\ FALSE \in BOOLEAN /\ sv.heard \in 0..(DeadTime + 1)
  BY ServerListAssumption DEF Server
<1>2. Asked(sv) \in Server
  BY <1>1, Zenon DEF Asked, Server
<1>3. /\ Asked(sv).addr = sv.addr /\ Asked(sv).answered = sv.answered
      /\ Asked(sv).heard = sv.heard /\ Asked(sv).silent = sv.heard
      /\ Asked(sv).quiet = sv.quiet
  BY DEF Server, Asked
<1> QED BY <1>1, <1>2, <1>3, ServerListAssumption DEF Calm

LEMMA OlderRange ==
  ASSUME NEW most \in Nat, NEW age \in 0..most
  PROVE  Older(age, most) \in 0..most /\ age <= Older(age, most)
BY DEF Older

(* What Tick makes of a server.                                            *)
Aged(sv) ==
  [sv EXCEPT !.sent  = Older(@, MinPing),
             !.heard = Older(@, DeadTime + 1),
             !.quiet = Older(@, DeadTime + 1)]

LEMMA AgedCalm ==
  ASSUME NEW sv \in Server, Calm(sv)
  PROVE  Aged(sv) \in Server /\ Aged(sv).addr = sv.addr /\ Calm(Aged(sv))
<1>1. /\ sv.sent \in 0..MinPing /\ MinPing \in Nat /\ DeadTime + 1 \in Nat
      /\ sv.heard \in 0..(DeadTime + 1) /\ sv.quiet \in 0..(DeadTime + 1)
      /\ sv.silent \in 0..(DeadTime + 1)
  BY ServerListAssumption DEF Server
<1> DEFINE sent == Older(sv.sent, MinPing)
           heard == Older(sv.heard, DeadTime + 1)
           quiet == Older(sv.quiet, DeadTime + 1)
<1>2. /\ sent \in 0..MinPing
      /\ heard \in 0..(DeadTime + 1) /\ quiet \in 0..(DeadTime + 1)
      /\ sv.quiet <= quiet /\ (sv.heard = sv.quiet => heard = quiet)
  BY <1>1, OlderRange
<1> HIDE DEF sent, heard, quiet
<1>3. Aged(sv) = [sv EXCEPT !.sent = sent, !.heard = heard, !.quiet = quiet]
  BY DEF Aged, sent, heard, quiet, Server
<1>4. Aged(sv) \in Server
  BY <1>2, <1>3, Zenon DEF Server
<1>5. /\ Aged(sv).addr = sv.addr /\ Aged(sv).answered = sv.answered
      /\ Aged(sv).silent = sv.silent
      /\ Aged(sv).heard = heard /\ Aged(sv).quiet = quiet
  BY <1>3 DEF Server
<1> QED BY <1>1, <1>2, <1>4, <1>5 DEF Calm

-----------------------------------------------------------------------------
(* Giving up.                                                              *)
LEMMA VisitedPlace ==
  ASSUME IInv, Visitable
  PROVE  Visited + 1 \in 1..Len(servers) /\ Visited \in Nat /\ Stepped \in 0..Len(servers)
BY DEF IInv, TypeOK, Visitable, Visited, Stepped

LEMMA GivenUpSound ==
  ASSUME IInv, NEW p \in 1..Len(servers)
  PROVE  /\ Sound(RemoveAt(servers, p))
         /\ Len(RemoveAt(servers, p)) = Freed(1)
         /\ \A i \in 1..Len(servers) :
              i # p => servers[i].addr \in AddressesOf(RemoveAt(servers, p))
<1> DEFINE l == RemoveAt(servers, p)
           from(i) == IF i < p THEN i ELSE i + 1
<1>1. servers \in Seq(Server) /\ Len(servers) \in Nat /\ sv_count = Len(servers)
  BY DEF IInv, TypeOK
<1>2. /\ l \in Seq(Server) /\ Len(l) = Len(servers) - 1 /\ DOMAIN l = 1..Len(l)
      /\ \A i \in 1..Len(l) : l[i] = servers[from(i)]
  <2>1. /\ l \in Seq(Server) /\ Len(l) = Len(servers) - 1
        /\ \A i \in 1..(p - 1) : l[i] = servers[i]
        /\ \A i \in p..(Len(servers) - 1) : l[i] = servers[i + 1]
    BY <1>1, RemoveAtElements
  <2> HIDE DEF l
  <2> QED BY <1>1, <2>1
<1> HIDE DEF l
<1>3. \A i \in 1..Len(l) : from(i) \in 1..Len(servers)
  BY <1>1, <1>2
<1>4. Sound(l)
  <2>1. Unique(l)
    BY <1>1, <1>2, <1>3, ListedSound DEF Sound, Unique
  <2>2. Heard(l)
    <3> HIDE DEF from
    <3> QED BY <1>2, <1>3, ListedSound DEF Sound, Heard
  <2> QED BY <1>1, <1>2, <2>1, <2>2, ListedSound, ServerListAssumption DEF Sound
<1>5. ASSUME NEW i \in 1..Len(servers), i # p PROVE servers[i].addr \in AddressesOf(l)
  <2>1. \E j \in 1..Len(l) : from(j) = i
    <3>1. CASE i < p
      <4>1. i \in 1..Len(l) /\ from(i) = i
        BY <1>1, <1>2, <3>1
      <4> QED BY <4>1
    <3>2. CASE i > p
      <4>1. i - 1 \in 1..Len(l) /\ from(i - 1) = i
        BY <1>1, <1>2, <3>2
      <4> QED BY <4>1
    <3> QED BY <1>1, <1>5, <3>1, <3>2
  <2>2. PICK j \in 1..Len(l) : from(j) = i
    BY <2>1
  <2> QED BY <1>2, <2>2 DEF AddressesOf
<1> QED BY <1>1, <1>2, <1>4, <1>5 DEF l, Freed

-----------------------------------------------------------------------------
(* The steps.                                                              *)

(* What a step must leave of the list, for its types and for the servers   *)
(* that have answered.                                                     *)
Given(i) == servers[i].answered => servers[i].quiet > DeadTime

ListStep ==
  /\ Sound(servers') /\ sv_count' = Len(servers')
  /\ \A i \in 1..Len(servers) : GivesUp(i) => Given(i)

LEMMA KeepList ==
  ASSUME IInv, UNCHANGED list
  PROVE  ListStep
<1>1. DOMAIN servers = 1..Len(servers)
  BY DEF IInv, TypeOK
<1>2. \A i \in 1..Len(servers) : ~GivesUp(i)
  BY <1>1 DEF GivesUp, AddressesOf, list
<1> QED BY <1>2, ListedSound DEF ListStep, list, IInv, TypeOK

(* Servers that are changed in their places.                               *)
LEMMA InPlaceStep ==
  ASSUME IInv, servers' \in Seq(Server), Len(servers') = Len(servers), UNCHANGED sv_count,
         \A i \in 1..Len(servers) : servers'[i].addr = servers[i].addr /\ Calm(servers'[i])
  PROVE  ListStep
<1>1. Sound(servers') /\ AddressesOf(servers') = AddressesOf(servers)
  BY InPlace, ListedSound
<1>2. DOMAIN servers = 1..Len(servers) /\ sv_count = Len(servers)
  BY DEF IInv, TypeOK
<1>3. \A i \in 1..Len(servers) : ~GivesUp(i)
  BY <1>1, <1>2 DEF GivesUp, AddressesOf
<1> QED BY <1>1, <1>2, <1>3 DEF ListStep

LEMMA ReplyStep ==
  ASSUME IInv, NEW a \in Address, QRY_SV_PingReply(a)
  PROVE  ListStep
<1>1. /\ servers \in Seq(Server) /\ DOMAIN servers = 1..Len(servers)
      /\ \A i \in 1..Len(servers) : servers[i] \in Server /\ Calm(servers[i])
  BY DEF IInv, TypeOK, Heard, Calm
<1>2. /\ servers' = [i \in 1..Len(servers) |->
                       IF servers[i].addr = a THEN Answered(servers[i]) ELSE servers[i]]
      /\ UNCHANGED sv_count
  BY <1>1 DEF QRY_SV_PingReply
<1>3. \A i \in 1..Len(servers) :
        /\ servers'[i] \in Server /\ servers'[i].addr = servers[i].addr
        /\ Calm(servers'[i])
  BY <1>1, <1>2, AnsweredCalm
<1>4. servers' \in Seq(Server) /\ Len(servers') = Len(servers)
  BY <1>1, <1>2, <1>3
<1> QED BY <1>2, <1>3, <1>4, InPlaceStep

LEMMA TickStep ==
  ASSUME IInv, Tick
  PROVE  ListStep
<1>1. /\ servers \in Seq(Server) /\ DOMAIN servers = 1..Len(servers)
      /\ \A i \in 1..Len(servers) : servers[i] \in Server /\ Calm(servers[i])
  BY DEF IInv, TypeOK, Heard, Calm
<1>2. servers' = [i \in 1..Len(servers) |-> Aged(servers[i])] /\ UNCHANGED sv_count
  BY <1>1 DEF Tick, Aged
<1>3. \A i \in 1..Len(servers) :
        /\ servers'[i] \in Server /\ servers'[i].addr = servers[i].addr
        /\ Calm(servers'[i])
  BY <1>1, <1>2, AgedCalm
<1>4. servers' \in Seq(Server) /\ Len(servers') = Len(servers)
  BY <1>1, <1>2, <1>3
<1> QED BY <1>2, <1>3, <1>4, InPlaceStep

LEMMA PingStep ==
  ASSUME IInv, Ping
  PROVE  ListStep
<1>1. /\ servers \in Seq(Server) /\ DOMAIN servers = 1..Len(servers)
      /\ \A i \in 1..Len(servers) : servers[i] \in Server /\ Calm(servers[i])
  BY DEF IInv, TypeOK, Heard, Calm
<1> DEFINE p == Visited + 1
<1>2. p \in 1..Len(servers)
  BY VisitedPlace DEF Ping
<1>3. servers' = [servers EXCEPT ![p] = Asked(servers[p])] /\ UNCHANGED sv_count
  BY <1>1, <1>2 DEF Ping
<1> HIDE DEF p
<1>4. /\ Asked(servers[p]) \in Server /\ Asked(servers[p]).addr = servers[p].addr
      /\ Calm(Asked(servers[p]))
  BY <1>1, <1>2, AskedCalm
<1>5. /\ servers' \in Seq(Server) /\ Len(servers') = Len(servers)
      /\ \A i \in 1..Len(servers) :
           servers'[i] = IF i = p THEN Asked(servers[p]) ELSE servers[i]
  BY <1>1, <1>2, <1>3, <1>4, ExceptSeq
<1>6. \A i \in 1..Len(servers) : servers'[i].addr = servers[i].addr /\ Calm(servers'[i])
  BY <1>1, <1>4, <1>5
<1> QED BY <1>3, <1>5, <1>6, InPlaceStep

LEMMA GiveUpStep ==
  ASSUME IInv, GiveUp
  PROVE  ListStep
<1> DEFINE p == Visited + 1
<1>1. p \in 1..Len(servers) /\ servers' = RemoveAt(servers, p) /\ sv_count' = Freed(1)
  BY VisitedPlace DEF GiveUp
<1>2. Dead(servers[p]) /\ servers[p] \in Server
  BY <1>1 DEF GiveUp, IInv, TypeOK
<1> HIDE DEF p
<1>3. Sound(servers') /\ sv_count' = Len(servers')
  BY <1>1, GivenUpSound
<1>4. \A i \in 1..Len(servers) : GivesUp(i) => i = p
  BY <1>1, GivenUpSound DEF GivesUp
<1>5. Given(p)
  BY <1>1, <1>2, ServerListAssumption DEF Given, Dead, IInv, Heard, Server
<1> QED BY <1>3, <1>4, <1>5 DEF ListStep

LEMMA ReportStep ==
  ASSUME IInv, NEW r \in Reports, SVC_QRY_ParseMasterReply(r)
  PROVE  ListStep
<1>1. r \in Seq(Address)
  BY DEF Reports
<1>2. servers' = Taken(r) /\ sv_count' = Counted(servers')
  BY DEF SVC_QRY_ParseMasterReply
<1>3. Sound(servers') /\ Holds(servers', servers)
  BY <1>1, <1>2, TakenSound
<1>4. Len(servers) \in Nat /\ Len(servers') \in Nat /\ sv_count = Len(servers)
      /\ DOMAIN servers = 1..Len(servers)
  BY <1>3 DEF IInv, TypeOK, Sound
<1>5. \A i \in 1..Len(servers) : ~GivesUp(i)
  BY <1>3, <1>4 DEF Holds, GivesUp, AddressesOf
<1> QED BY <1>2, <1>3, <1>4, <1>5 DEF ListStep, Counted

LEMMA FilterStep ==
  ASSUME IInv, QRY_FL_CheckVarsModified
  PROVE  ListStep
<1>1. CASE ~modified
  BY <1>1, KeepList DEF QRY_FL_CheckVarsModified, list
<1>2. CASE modified
  <2>1. /\ servers' = Kept(servers, Staying(wanted)) /\ filter' = wanted
        /\ sv_count' = Freed(Cardinality(Found(wanted)))
    BY <1>2 DEF QRY_FL_CheckVarsModified
  <2>2. Sound(servers') /\ sv_count' = Len(servers')
    BY <2>1, FilteredSound
  <2>3. ASSUME NEW i \in 1..Len(servers), GivesUp(i) PROVE FALSE
    <3>1. servers[i].addr \in Found(wanted)
      BY <2>1, <2>3, FilteredSound DEF GivesUp
    <3>2. HostOf[servers[i].addr] \in wanted
      BY <3>1 DEF Found
    <3> QED BY <2>1, <2>3, <3>2 DEF GivesUp
  <2> QED BY <2>2, <2>3 DEF ListStep
<1> QED BY <1>1, <1>2

LEMMA NextList ==
  ASSUME IInv, [Next]_vars
  PROVE  ListStep
<1>1. ASSUME UNCHANGED list PROVE ListStep
  BY <1>1, KeepList
<1>2. CASE QRY_SV_PingServers
  BY <1>1, <1>2, GiveUpStep, PingStep DEF QRY_SV_PingServers, PingTooSoon
<1>3. CASE \/ SetMastersQuery \/ Rest \/ UNCHANGED vars
           \/ \E f \in FilterLists : SetFilter(f)
  BY <1>1, <1>3 DEF SetMastersQuery, Rest, SetFilter, vars, list
<1> QED BY <1>2, <1>3, ReplyStep, TickStep, ReportStep, FilterStep DEF Next, Frame

(* The types and the counter, whatever is reported, filtered and given up. *)
LEMMA InitIInv == Init => IInv
<1> SUFFICES ASSUME Init PROVE IInv
  OBVIOUS
<1>1. servers = <<>> /\ servers \in Seq(Server) /\ Len(servers) = 0
  BY DEF Init
<1>2. DOMAIN servers = {} /\ 1..Len(servers) = {}
  BY <1>1
<1>3. /\ Len(servers) <= MaxServers /\ idx \in -1..MaxServers
      /\ uptime \in 0..(DeadTime + 1)
  BY <1>1, ServerListAssumption DEF Init
<1>4. Heard(servers)
  BY <1>2, Zenon DEF Heard
<1> QED BY <1>1, <1>2, <1>3, <1>4 DEF Init, IInv, TypeOK

LEMMA NextIInv == IInv /\ [Next]_vars => IInv'
<1> SUFFICES ASSUME IInv, [Next]_vars PROVE IInv'
  OBVIOUS
<1>1. ListStep
  BY NextList
<1>2. /\ servers' \in Seq(Server) /\ Len(servers') <= MaxServers
      /\ \A i, j \in DOMAIN servers' : servers'[i].addr = servers'[j].addr => i = j
      /\ sv_count' = Len(servers') /\ Heard(servers')
  BY <1>1 DEF ListStep, Sound, Unique
<1>3. idx' \in -1..MaxServers
  <2>1. CASE QRY_SV_PingServers
    <3>1. CASE idx' = idx
      BY <3>1 DEF IInv, TypeOK
    <3>2. CASE Visitable /\ idx' \in {Stepped, Stepped - 1}
      BY <3>2, VisitedPlace, ServerListAssumption DEF IInv, TypeOK
    <3> QED BY <2>1, <3>1, <3>2 DEF QRY_SV_PingServers, GiveUp, PingTooSoon, Ping, walk
  <2>2. CASE UNCHANGED idx
    BY <2>2 DEF IInv, TypeOK
  <2> QED BY <2>1, <2>2 DEF Next, Frame, vars, walk, SVC_QRY_ParseMasterReply,
                          QRY_SV_PingReply, QRY_FL_CheckVarsModified, SetFilter,
                          SetMastersQuery, Rest, Tick
<1>4. uptime' \in 0..(DeadTime + 1)
  <2>1. CASE Tick
    <3>1. DeadTime + 1 \in Nat /\ uptime \in 0..(DeadTime + 1)
      BY ServerListAssumption DEF IInv, TypeOK
    <3>2. uptime' = Older(uptime, DeadTime + 1)
      BY <2>1 DEF Tick
    <3> QED BY <3>1, <3>2, OlderRange
  <2>2. CASE UNCHANGED uptime
    BY <2>2 DEF IInv, TypeOK
  <2> QED BY <2>1, <2>2 DEF Next, Frame, vars, SVC_QRY_ParseMasterReply,
                          QRY_SV_PingReply, QRY_FL_CheckVarsModified, SetFilter,
                          SetMastersQuery, Rest, QRY_SV_PingServers
<1>5. pinged' \subseteq Address
  <2>1. CASE Ping
    <3> DEFINE p == Visited + 1
    <3>1. p \in 1..Len(servers) /\ pinged' = {servers[p].addr}
      BY <2>1, VisitedPlace DEF Ping
    <3> HIDE DEF p
    <3>2. servers[p] \in Server
      BY <3>1 DEF IInv, TypeOK
    <3> QED BY <3>1, <3>2 DEF Server
  <2>2. CASE pinged' = {}
    BY <2>2
  <2>3. CASE UNCHANGED pinged
    BY <2>3 DEF IInv, TypeOK
  <2> QED BY <2>1, <2>2, <2>3 DEF Next, Frame, vars, SVC_QRY_ParseMasterReply,
                          QRY_SV_PingReply, QRY_FL_CheckVarsModified, SetFilter,
                          SetMastersQuery, Rest, Tick, QRY_SV_PingServers, GiveUp,
                          PingTooSoon
<1>6. /\ rested' \in BOOLEAN /\ modified' \in BOOLEAN /\ masters_query' \in BOOLEAN
      /\ stage' \in {"packets", "ping"}
  BY DEF IInv, TypeOK, Next, Frame, vars, walk, cvars, SVC_QRY_ParseMasterReply,
         QRY_SV_PingReply, QRY_FL_CheckVarsModified, SetFilter, SetMastersQuery, Rest,
         Tick, QRY_SV_PingServers
<1>7. wanted' \in FilterLists /\ filter' \in FilterLists \cup {{}}
  BY DEF IInv, TypeOK, Next, Frame, vars, cvars, SVC_QRY_ParseMasterReply,
         QRY_SV_PingReply, QRY_FL_CheckVarsModified, SetFilter, SetMastersQuery, Rest,
         Tick, QRY_SV_PingServers
<1> QED BY <1>2, <1>3, <1>4, <1>5, <1>6, <1>7 DEF IInv, TypeOK

LEMMA SpecIInv == Spec => []IInv
<1>1. IInv /\ UNCHANGED vars => IInv'
  BY NextIInv
<1> QED BY InitIInv, NextIInv, PTL DEF Spec

(* The list of servers has its types, each address once, and the counter   *)
(* of query.c:83 is its length, however many servers one datagram reports  *)
(* and the filters free (QRY_SV_new, QRY_SV_free).                         *)
THEOREM ServerListTypes == Spec => []TypeOK
<1>1. IInv => TypeOK
  BY DEF IInv
<1> QED BY <1>1, SpecIInv, PTL

(* A server that has answered is only given up after DeadTime of silence,  *)
(* although pings and answers are lost (QRY_SV_PingServers).               *)
THEOREM ServersGivenUpAfterSilence == Spec => GivenUpAfterSilence
<1> DEFINE A == \A i \in DOMAIN servers :
                  GivesUp(i) /\ servers[i].answered => servers[i].quiet > DeadTime
<1>1. IInv /\ [Next]_vars => [A]_vars
  <2>1. SUFFICES ASSUME IInv, [Next]_vars PROVE A
    OBVIOUS
  <2>2. DOMAIN servers = 1..Len(servers)
    BY <2>1 DEF IInv, TypeOK
  <2>3. ListStep
    BY <2>1, NextList
  <2> QED BY <2>2, <2>3 DEF ListStep, Given
<1> QED BY <1>1, SpecIInv, PTL DEF Spec, GivenUpAfterSilence
=============================================================================
