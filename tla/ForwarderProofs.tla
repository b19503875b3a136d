--------------------------- MODULE ForwarderProofs ---------------------------
(***************************************************************************)
(* What holds of the forwarder for any number of clients, servers and      *)
(* sockets, any limits, ban lists and whitelists.                          *)
(*                                                                         *)
(* Inv is the inductive invariant.  The types alone are not inductive: a   *)
(* step for a client's peer is a step for the peer FWD_peer_by_addr finds, *)
(* and that this is a peer of that client is only known while the client   *)
(* has at most one.                                                        *)
(***************************************************************************)
EXTENDS Forwarder, TLAPS, FiniteSetTheorems

USE StoreAssumption, ForwarderAssumption

-----------------------------------------------------------------------------
(* A getchallenge leaves a well-formed table in which the asker has a slot. *)
LEMMA AnswersTyped ==
  ASSUME NEW tbl \in Table, NEW a \in Client, NEW proto \in Protos,
         NEW forced \in SUBSET ChallengeValue, NEW t \in Answers(tbl, a, proto, forced)
  PROVE  t \in Table /\ a \in DOMAIN t /\ t[a].challenge \in ChallengeValue
<1>1. PICK as \in SUBSET Client : tbl \in [as -> Slot]
  BY DEF Table
<1> DEFINE numbers == IF forced # {} THEN forced
                      ELSE IF a \in DOMAIN tbl THEN {tbl[a].challenge}
                      ELSE Challenge
<1>2. PICK n \in numbers, owners \in Owners(tbl, a) :
        t = [b \in owners |-> IF b = a THEN [challenge |-> n, proto |-> proto]
                                       ELSE tbl[b]]
  BY DEF Answers
<1>3. n \in ChallengeValue
  BY <1>1, <1>2 DEF Slot, ChallengeValue
<1>4. owners \in SUBSET Client /\ a \in owners /\ owners \subseteq DOMAIN tbl \cup {a}
  <2>0. DOMAIN tbl \in SUBSET Client
    BY <1>1
  <2>1. CASE a \in DOMAIN tbl
    BY <2>0, <2>1, <1>2 DEF Owners
  <2>2. CASE a \notin DOMAIN tbl /\ Cardinality(DOMAIN tbl) < MaxChallenges
    BY <2>0, <2>2, <1>2 DEF Owners
  <2>3. CASE a \notin DOMAIN tbl /\ ~ Cardinality(DOMAIN tbl) < MaxChallenges
    <3>1. PICK b \in DOMAIN tbl : owners = (DOMAIN tbl \ {b}) \cup {a}
      BY <2>3, <1>2 DEF Owners
    <3> QED
      BY <3>1, <2>0
  <2> QED
    BY <2>1, <2>2, <2>3
<1>5. t \in [owners -> Slot]
  BY <1>1, <1>2, <1>3, <1>4 DEF Slot
<1> QED
  BY <1>2, <1>3, <1>4, <1>5 DEF Table

(* The peer found for an address is that address's peer.                   *)
LEMMA PeerByAddr ==
  ASSUME OnePeerPerClient, NEW a
  PROVE  /\ FWD_peer_by_addr(a) # NoPeer =>
              /\ FWD_peer_by_addr(a) \in DOMAIN peers
              /\ peers[FWD_peer_by_addr(a)].from = a
         /\ TypeOK /\ FWD_peer_by_addr(a) = NoPeer =>
              \A u \in DOMAIN peers : peers[u].from # a
<1> DEFINE owned == {u \in DOMAIN peers : peers[u].from = a}
<1>1. CASE owned = {}
  BY <1>1 DEF FWD_peer_by_addr
<1>2. ASSUME NEW u \in owned, TypeOK
      PROVE  u # NoPeer /\ u \in Nat
  BY <1>2 DEF TypeOK, NoPeer
<1>3. ASSUME NEW u \in owned
      PROVE  FWD_peer_by_addr(a) = u
  BY <1>3 DEF FWD_peer_by_addr, OnePeerPerClient
<1> QED
  BY <1>1, <1>2, <1>3

-----------------------------------------------------------------------------
(* The changes the code makes to one peer give a peer, of the same client  *)
(* and with the same socket.                                               *)
LEMMA PeerChanges ==
  ASSUME NEW p \in Peer
  PROVE  /\ \A to \in Server, proto \in Protos :
              LET q == ReusedPeer(p, to, proto)
              IN  q \in Peer /\ q.from = p.from /\ q.s = p.s
         /\ \A ps \in States :
              LET q == [p EXCEPT !.ps = ps]
              IN  q \in Peer /\ q.from = p.from /\ q.s = p.s
         /\ \A ps \in States :
              LET q == [p EXCEPT !.ps = ps, !.idle = 0]
              IN  q \in Peer /\ q.from = p.from /\ q.s = p.s
         /\ \A n \in ChallengeValue :
              LET q == [p EXCEPT !.challenge = n]
              IN  q \in Peer /\ q.from = p.from /\ q.s = p.s
         /\ \A x \in Server :
              LET q == [p EXCEPT !.ps = "connected", !.accepter = x]
              IN  q \in Peer /\ q.from = p.from /\ q.s = p.s
         /\ LET q == [p EXCEPT !.since = 0]
            IN  q \in Peer /\ q.from = p.from /\ q.s = p.s
<1>2. /\ p.from \in Client /\ p.to \in Server /\ p.s \in Sock /\ p.ps \in States
      /\ p.proto \in Protos /\ p.challenge \in ChallengeValue
      /\ p.idle \in 0..Timeout /\ p.since \in 0..(ResendAfter + 1)
      /\ p.accepter \in Server \cup {NoServer}
  BY DEF Peer
<1>0. 0 \in 0..Timeout /\ 0 \in 0..(ResendAfter + 1)
  OBVIOUS
<1>3. \A to \in Server, proto \in Protos :
        LET q == ReusedPeer(p, to, proto)
        IN  q \in Peer /\ q.from = p.from /\ q.s = p.s
  BY <1>0, <1>2 DEF Peer, ReusedPeer, States
<1>4. \A ps \in States :
        LET q == [p EXCEPT !.ps = ps]
        IN  q \in Peer /\ q.from = p.from /\ q.s = p.s
  BY <1>2 DEF Peer
<1>5. \A ps \in States :
        LET q == [p EXCEPT !.ps = ps, !.idle = 0]
        IN  q \in Peer /\ q.from = p.from /\ q.s = p.s
  BY <1>0, <1>2 DEF Peer
<1>6. \A n \in ChallengeValue :
        LET q == [p EXCEPT !.challenge = n]
        IN  q \in Peer /\ q.from = p.from /\ q.s = p.s
  BY <1>2 DEF Peer
<1>7. \A x \in Server :
        LET q == [p EXCEPT !.ps = "connected", !.accepter = x]
        IN  q \in Peer /\ q.from = p.from /\ q.s = p.s
  BY <1>2 DEF Peer, States
<1>8. LET q == [p EXCEPT !.since = 0]
      IN  q \in Peer /\ q.from = p.from /\ q.s = p.s
  BY <1>2 DEF Peer
<1> QED
  BY <1>3, <1>4, <1>5, <1>6, <1>7, <1>8

(* Time changes nothing but the ages.                                      *)
LEMMA AgedPeer ==
  ASSUME NEW p \in Peer
  PROVE  /\ Aged(p) \in Peer /\ Aged(p).from = p.from /\ Aged(p).s = p.s
         /\ Aged(p).ps = p.ps /\ Aged(p).proto = p.proto /\ Aged(p).to = p.to
         /\ Aged(p).accepter = p.accepter /\ Aged(p).challenge = p.challenge
<1>1. /\ Older(p.idle, Timeout) \in 0..Timeout
      /\ Older(p.since, ResendAfter + 1) \in 0..(ResendAfter + 1)
  BY DEF Older, Peer
<1> QED
  BY <1>1 DEF Aged, Peer

(* What most steps do to the peers: some change, none comes or goes, and   *)
(* clients and sockets stay where they are.                                *)
PeersKept ==
  /\ peers' \in [DOMAIN peers -> Peer]
  /\ \A u \in DOMAIN peers :
       peers'[u].from = peers[u].from /\ peers'[u].s = peers[u].s
  /\ UNCHANGED <<userid, open>>

(* One peer is replaced by a changed one.                                  *)
LEMMA OneChanged ==
  ASSUME TypeOK, UNCHANGED <<userid, open>>,
         NEW u \in DOMAIN peers, NEW q \in Peer,
         q.from = peers[u].from, q.s = peers[u].s,
         peers' = [peers EXCEPT ![u] = q]
  PROVE  PeersKept
BY DEF TypeOK, PeersKept

(* No peer is touched.                                                     *)
LEMMA NoneChanged ==
  ASSUME TypeOK, UNCHANGED people
  PROVE  PeersKept
BY DEF TypeOK, PeersKept, people

(* Only ConnectNew and FWD_check_drop change who is on the list.           *)
LEMMA StepShape ==
  ASSUME TypeOK, OnePeerPerClient, [Next]_vars
  PROVE  \/ PeersKept
         \/ \E a \in Client, chal \in ChallengeValue,
               prx \in Server \cup {NoPrx, NoHost} : ConnectNew(a, chal, prx)
         \/ FWD_check_drop
<1> USE DEF TypeOK
<1>0. stage = "peers" => cursor \in DOMAIN peers /\ peers[cursor] \in Peer
  BY DEF NoPeer
<1>1. ASSUME NEW a \in Client, NEW proto \in Protos, SVC_GetChallenge(a, proto)
      PROVE  PeersKept
  BY <1>1, NoneChanged DEF SVC_GetChallenge
<1>2. ASSUME NEW a \in Client, NEW chal \in ChallengeValue,
             NEW prx \in Server \cup {NoPrx, NoHost}, SVC_DirectConnect(a, chal, prx)
      PROVE  PeersKept \/ ConnectNew(a, chal, prx)
  <2>1. CASE ConnectRefused(a, chal, prx) \/ ConnectFull(a, chal)
               \/ ConnectFailed(a, chal, prx)
    BY <2>1, NoneChanged DEF ConnectRefused, ConnectFull, ConnectFailed
  <2>2. CASE ConnectAgain(a, chal, prx)
    <3> DEFINE u == FWD_peer_by_addr(a)
               q == ReusedPeer(peers[u], prx, challenges[a].proto)
    <3>1. u \in DOMAIN peers /\ peers[u] \in Peer
      BY <2>2, PeerByAddr DEF ConnectAgain
    <3>2. prx \in Server /\ challenges[a].proto \in Protos
      BY <2>2 DEF ConnectAgain, ReachesPeerNew, CheckChallenge, Admissible, Table, Slot
    <3>3. q \in Peer /\ q.from = peers[u].from /\ q.s = peers[u].s
      <4>1. \A to \in Server, proto \in Protos :
              LET r == ReusedPeer(peers[u], to, proto)
              IN  r \in Peer /\ r.from = peers[u].from /\ r.s = peers[u].s
        BY <3>1, PeerChanges
      <4> HIDE DEF u
      <4> QED
        BY <4>1, <3>2
    <3> HIDE DEF q
    <3>4. peers' = [peers EXCEPT ![u] = q] /\ UNCHANGED <<userid, open>>
      BY <2>2 DEF ConnectAgain, q
    <3> QED
      BY <3>1, <3>3, <3>4, OneChanged
  <2> QED
    BY <1>2, <2>1, <2>2 DEF SVC_DirectConnect
<1>3. ASSUME NEW a \in Client, Enquiry(a)
      PROVE  PeersKept
  BY <1>3, NoneChanged DEF Enquiry
<1>4. ASSUME NEW a \in Client, NEW kind \in {"data", "drop", "rcon"}, ClientData(a, kind)
      PROVE  PeersKept
  <2> DEFINE u == FWD_peer_by_addr(a)
             p == peers[u]
             ps == IF kind = "drop" /\ p.proto = "qw" /\ p.ps = "connected"
                   THEN "drop" ELSE p.ps
             q == [p EXCEPT !.ps = ps, !.idle = 0]
  <2>1. u \in DOMAIN peers /\ p \in Peer
    BY <1>4, PeerByAddr DEF ClientData
  <2>2. ps \in States
    BY <2>1 DEF Peer, States
  <2>3. q \in Peer /\ q.from = p.from /\ q.s = p.s
    <3>1. \A st \in States :
            LET r == [p EXCEPT !.ps = st, !.idle = 0]
            IN  r \in Peer /\ r.from = p.from /\ r.s = p.s
      BY <2>1, PeerChanges
    <3> HIDE DEF p, ps
    <3> QED
      BY <3>1, <2>2
  <2>4. peers' = [peers EXCEPT ![u] = q] /\ UNCHANGED <<userid, open>>
    BY <1>4, <2>1 DEF ClientData, Peer
  <2> HIDE DEF q
  <2> QED
    BY <2>1, <2>3, <2>4, OneChanged
<1>5. CASE MainIgnored \/ PeerIgnored \/ MainDone \/ Commands \/ Select
  BY <1>5, NoneChanged DEF MainIgnored, PeerIgnored, MainDone, Commands, Select
<1>6. ASSUME NEW x \in Addr, NEW n \in ChallengeValue, CL_Challenge(x, n)
      PROVE  PeersKept
  <2> DEFINE p == peers[cursor]
             q == IF NotesChallenge(p) THEN [p EXCEPT !.challenge = n] ELSE p
  <2>1. cursor \in DOMAIN peers /\ p \in Peer
    BY <1>0, <1>6 DEF CL_Challenge, HeardOnPeer
  <2>2. q \in Peer /\ q.from = p.from /\ q.s = p.s
    BY <2>1, PeerChanges
  <2>3. peers' = [peers EXCEPT ![cursor] = q] /\ UNCHANGED <<userid, open>>
    BY <1>6 DEF CL_Challenge
  <2> HIDE DEF q
  <2> QED
    BY <2>1, <2>2, <2>3, OneChanged
<1>7. ASSUME NEW x \in Addr, CL_Accept(x)
      PROVE  PeersKept
  <2> DEFINE p == peers[cursor]
             q == [p EXCEPT !.ps = "connected", !.accepter = x]
  <2>1. cursor \in DOMAIN peers /\ p \in Peer /\ x \in Server
    BY <1>0, <1>7 DEF CL_Accept, HeardOnPeer, FromItsServer, Peer
  <2>2. q \in Peer /\ q.from = p.from /\ q.s = p.s
    BY <2>1, PeerChanges
  <2>3. CASE Accepts(p)
    <3>1. peers' = [peers EXCEPT ![cursor] = q] /\ UNCHANGED <<userid, open>>
      BY <1>7, <2>1, <2>3 DEF CL_Accept, Peer
    <3> HIDE DEF q
    <3> QED
      BY <2>1, <2>2, <3>1, OneChanged
  <2>4. CASE ~Accepts(p)
    BY <1>7, <2>4, NoneChanged DEF CL_Accept, people
  <2> QED
    BY <2>3, <2>4
<1>8. ASSUME NEW x \in Addr, CL_Disconnect(x)
      PROVE  PeersKept
  <2> DEFINE p == peers[cursor]
             q == [p EXCEPT !.ps = "drop"]
  <2>1. cursor \in DOMAIN peers /\ p \in Peer
    BY <1>0, <1>8 DEF CL_Disconnect, HeardOnPeer
  <2>2. q \in Peer /\ q.from = p.from /\ q.s = p.s
    BY <2>1, PeerChanges DEF States
  <2>3. peers' = [peers EXCEPT ![cursor] = q] /\ UNCHANGED <<userid, open>>
    BY <1>8, <2>1 DEF CL_Disconnect, Peer
  <2> HIDE DEF q
  <2> QED
    BY <2>1, <2>2, <2>3, OneChanged
<1>9. ASSUME NEW x \in Addr, CL_Print(x) \/ ServerData(x)
      PROVE  PeersKept
  BY <1>9, NoneChanged DEF CL_Print, ServerData
<1>10. CASE PeerDone
  <2> DEFINE p == peers[cursor]
             q == [p EXCEPT !.since = 0]
  <2>1. cursor \in DOMAIN peers /\ p \in Peer
    BY <1>0, <1>10 DEF PeerDone
  <2>2. q \in Peer /\ q.from = p.from /\ q.s = p.s
    BY <2>1, PeerChanges
  <2>3. CASE ResendDue(p)
    <3>1. peers' = [peers EXCEPT ![cursor] = q] /\ UNCHANGED <<userid, open>>
      BY <1>10, <2>1, <2>3 DEF PeerDone, Peer
    <3> HIDE DEF q
    <3> QED
      BY <2>1, <2>2, <3>1, OneChanged
  <2>4. CASE ~ResendDue(p)
    BY <1>10, <2>4, NoneChanged DEF PeerDone, people
  <2> QED
    BY <2>3, <2>4
<1>11. CASE FWD_check_timeout
  <2> DEFINE q(u) == [peers[u] EXCEPT !.ps = "drop"]
  <2>1. \A u \in DOMAIN peers :
          q(u) \in Peer /\ q(u).from = peers[u].from /\ q(u).s = peers[u].s
    BY PeerChanges DEF States
  <2>2. /\ peers' = [u \in DOMAIN peers |-> IF TimedOut(peers[u]) THEN q(u) ELSE peers[u]]
        /\ UNCHANGED <<userid, open>>
    BY <1>11 DEF FWD_check_timeout
  <2> HIDE DEF q
  <2> QED
    BY <2>1, <2>2 DEF PeersKept
<1>12. CASE Tick
  <2>1. \A u \in DOMAIN peers :
          /\ Aged(peers[u]) \in Peer
          /\ Aged(peers[u]).from = peers[u].from /\ Aged(peers[u]).s = peers[u].s
    BY AgedPeer
  <2>2. peers' = [u \in DOMAIN peers |-> Aged(peers[u])] /\ UNCHANGED <<userid, open>>
    BY <1>12 DEF Tick
  <2> QED
    BY <2>1, <2>2 DEF PeersKept
<1>13. CASE UNCHANGED vars
  BY <1>13, NoneChanged DEF vars, people
<1> QED
  BY <1>1, <1>2, <1>3, <1>4, <1>5, <1>6, <1>7, <1>8, <1>9, <1>10, <1>11, <1>12, <1>13
     DEF Next, MainPacket, PeerPacket, Loop

-----------------------------------------------------------------------------
(* A new peer: a new number, a fresh socket and a peer of the asker.       *)
LEMMA NewPeer ==
  ASSUME TypeOK, NEW a \in Client, NEW chal \in ChallengeValue,
         NEW prx \in Server \cup {NoPrx, NoHost}, ConnectNew(a, chal, prx)
  PROVE  /\ userid' = userid + 1 /\ userid' \notin DOMAIN peers
         /\ DOMAIN peers' = DOMAIN peers \cup {userid'}
         /\ \A u \in DOMAIN peers : peers'[u] = peers[u]
         /\ peers'[userid'] \in Peer
         /\ peers'[userid'].from = a
         /\ peers'[userid'].ps = "challenge"
         /\ peers'[userid'].s \in Sock \ open
         /\ open' = open \cup {peers'[userid'].s}
<1> USE DEF TypeOK
<1>1. PICK s \in Sock \ open :
        /\ open' = open \cup {s}
        /\ peers' = [u \in DOMAIN peers \cup {userid'} |->
                       IF u = userid' THEN FreshPeer(a, prx, s, challenges[a].proto)
                       ELSE peers[u]]
  BY DEF ConnectNew
<1>2. userid' = userid + 1 /\ userid' \notin DOMAIN peers
  BY DEF ConnectNew
<1>3. prx \in Server /\ challenges[a].proto \in Protos
  BY DEF ConnectNew, ReachesPeerNew, CheckChallenge, Admissible, Table, Slot
<1>4. FreshPeer(a, prx, s, challenges[a].proto) \in Peer
  BY <1>1, <1>3 DEF FreshPeer, Peer, States, ChallengeValue
<1> QED
  BY <1>1, <1>2, <1>4 DEF FreshPeer

(* The list of peers and the open sockets stay well typed.                 *)
LEMMA PeopleTyped ==
  ASSUME TypeOK, OnePeerPerClient, [Next]_vars
  PROVE  /\ DOMAIN peers' \subseteq 1..userid'
         /\ peers' \in [DOMAIN peers' -> Peer]
         /\ userid' \in 0..MaxUserid
         /\ open' \subseteq Sock
<1> USE DEF TypeOK
<1>1. CASE PeersKept
  BY <1>1 DEF PeersKept
<1>2. ASSUME NEW a \in Client, NEW chal \in ChallengeValue,
             NEW prx \in Server \cup {NoPrx, NoHost}, ConnectNew(a, chal, prx)
      PROVE  /\ DOMAIN peers' \subseteq 1..userid'
             /\ peers' \in [DOMAIN peers' -> Peer]
             /\ userid' \in 0..MaxUserid
             /\ open' \subseteq Sock
  <2>1. userid < MaxUserid /\ peers' = [u \in DOMAIN peers' |-> peers'[u]]
    BY <1>2 DEF ConnectNew
  <2>2. userid' \in 1..MaxUserid /\ 1..userid \subseteq 1..userid'
    BY <1>2, <2>1, NewPeer
  <2> QED
    BY <1>2, <2>1, <2>2, NewPeer
<1>3. CASE FWD_check_drop
  BY <1>3 DEF FWD_check_drop
<1> QED
  BY <1>1, <1>2, <1>3, StepShape

(* The challenge table stays well typed.                                   *)
LEMMA TableTyped ==
  ASSUME TypeOK, OnePeerPerClient, [Next]_vars
  PROVE  challenges' \in Table
<1>1. ASSUME NEW a \in Client, NEW proto \in Protos, SVC_GetChallenge(a, proto)
      PROVE  challenges' \in Table
  <2>1. ForcedChallenge(a, proto) \in SUBSET ChallengeValue
    BY PeerByAddr DEF ForcedChallenge, TypeOK, Peer
  <2> QED
    BY <1>1, <2>1, AnswersTyped DEF SVC_GetChallenge, TypeOK
<1>2. CASE \E a \in Client, chal \in ChallengeValue, prx \in Server \cup {NoPrx, NoHost} :
             SVC_DirectConnect(a, chal, prx)
  BY <1>2 DEF TypeOK, SVC_DirectConnect, ConnectRefused, ConnectFull, ConnectFailed,
              ConnectNew, ConnectAgain
<1>3. CASE UNCHANGED challenges
  BY <1>3 DEF TypeOK
<1> QED
  BY <1>1, <1>2, <1>3
     DEF Next, MainPacket, PeerPacket, Loop, vars, Enquiry, ClientData, MainIgnored,
         CL_Challenge, CL_Accept, CL_Disconnect, CL_Print, ServerData, PeerIgnored,
         Commands, Select, MainDone, PeerDone, FWD_check_timeout, FWD_check_drop, Tick

(* Bans, whitelist and limit stay among the values they may take.          *)
LEMMA ConfigTyped ==
  ASSUME TypeOK, [Next]_vars
  PROVE  banned' \in BanLists /\ whitelist' \in Whitelists /\ maxclients' \in Limits
<1>1. CASE Commands
  BY <1>1 DEF Commands
<1>2. CASE UNCHANGED config
  BY <1>2 DEF config, TypeOK
<1> QED
  BY <1>1, <1>2
     DEF Next, MainPacket, PeerPacket, Loop, vars, SVC_GetChallenge, SVC_DirectConnect,
         ConnectRefused, ConnectFull, ConnectFailed, ConnectNew, ConnectAgain, Enquiry,
         ClientData, MainIgnored, CL_Challenge, CL_Accept, CL_Disconnect, CL_Print,
         ServerData, PeerIgnored, Select, MainDone, PeerDone, FWD_check_timeout,
         FWD_check_drop, Tick, config

(* The loop variable points to a peer exactly while the loop runs.         *)
LEMMA FrameTyped ==
  ASSUME TypeOK, OnePeerPerClient, [Next]_vars
  PROVE  /\ stage' \in {"commands", "select", "main", "peers", "timeout", "drop"}
         /\ cursor' \in DOMAIN peers' \cup {NoPeer}
         /\ stage' = "peers" <=> cursor' # NoPeer
         /\ rfds' \subseteq Sock
<1> USE DEF TypeOK
<1>1. CASE UNCHANGED frame
  <2>1. CASE PeersKept
    BY <1>1, <2>1 DEF frame, PeersKept
  <2>2. CASE \E a \in Client, chal \in ChallengeValue, prx \in Server \cup {NoPrx, NoHost} :
               ConnectNew(a, chal, prx)
    BY <1>1, <2>2, NewPeer DEF frame
  <2>3. CASE FWD_check_drop
    BY <1>1, <2>3 DEF frame, FWD_check_drop
  <2> QED
    BY <2>1, <2>2, <2>3, StepShape
<1>2. CASE MainDone
  <2>1. cursor' \in DOMAIN peers \cup {NoPeer} /\ DOMAIN peers' = DOMAIN peers
    BY <1>2 DEF MainDone, Follows, people
  <2> QED
    BY <1>2, <2>1 DEF MainDone
<1>3. CASE PeerDone
  <2>1. cursor' \in DOMAIN peers \cup {NoPeer} /\ DOMAIN peers' = DOMAIN peers
    BY <1>3 DEF PeerDone, Follows
  <2> QED
    BY <1>3, <2>1 DEF PeerDone
<1>4. CASE FWD_check_timeout
  BY <1>4 DEF FWD_check_timeout
<1>5. CASE FWD_check_drop
  BY <1>5 DEF FWD_check_drop
<1>6. CASE Commands
  BY <1>6 DEF Commands, people
<1>7. CASE Select
  <2>1. rfds' \subseteq Sock
    BY <1>7 DEF Select, Peer
  <2> QED
    BY <1>7, <2>1 DEF Select, people
<1> QED
  BY <1>1, <1>2, <1>3, <1>4, <1>5, <1>6, <1>7
     DEF Next, MainPacket, PeerPacket, Loop, vars, frame, SVC_GetChallenge,
         SVC_DirectConnect, ConnectRefused, ConnectFull, ConnectFailed, ConnectNew,
         ConnectAgain, Enquiry, ClientData, MainIgnored, CL_Challenge, CL_Accept,
         CL_Disconnect, CL_Print, ServerData, PeerIgnored, Tick

(* The fields of what the proxy says itself.                               *)
LEMMA OwnDatagram ==
  ASSUME NEW via \in Sock \cup {Main}, NEW dst \in Addr, NEW kind \in Kinds,
         NEW chal \in ChallengeValue
  PROVE  LET m == Own(via, dst, kind, chal)
         IN  m \in Datagram /\ m.via = via /\ m.dst = dst /\ m.by = Main
BY DEF Own, Datagram

(* The fields of what the proxy relays for another.                        *)
LEMMA RelayedDatagram ==
  ASSUME NEW via \in Sock \cup {Main}, NEW dst \in Addr, NEW kind \in Kinds,
         NEW origin \in Addr
  PROVE  LET m == Relay(via, dst, kind, origin)
         IN  m \in Datagram /\ m.via = via /\ m.dst = dst /\ m.by = origin
BY DEF Relay, Datagram, ChallengeValue

(* What the proxy itself says on its own port concerns nobody else.        *)
LEMMA ReplyIsolated ==
  ASSUME NEW a \in Client, NEW kind \in Kinds, NEW n \in ChallengeValue,
         sent' \subseteq Reply(a, kind, n)
  PROVE  \A m \in sent' : m \in Datagram /\ Isolated(m)'
BY OwnDatagram DEF Reply, Isolated, Addr

(* Everything sent is a datagram and stays within one client's game.       *)
LEMMA SentIsolated ==
  ASSUME TypeOK, OnePeerPerClient, [Next]_vars, RelayIsolation
  PROVE  \A m \in sent' : m \in Datagram /\ Isolated(m)'
<1> USE DEF TypeOK
<1>0. stage = "peers" => cursor \in DOMAIN peers /\ peers[cursor] \in Peer
  BY DEF NoPeer
<1>1. ASSUME NEW a \in Client, NEW proto \in Protos, SVC_GetChallenge(a, proto)
      PROVE  \A m \in sent' : m \in Datagram /\ Isolated(m)'
  <2>1. ForcedChallenge(a, proto) \in SUBSET ChallengeValue
    BY PeerByAddr DEF ForcedChallenge, Peer
  <2>2. challenges'[a].challenge \in ChallengeValue
    BY <1>1, <2>1, AnswersTyped DEF SVC_GetChallenge
  <2> QED
    BY <1>1, <2>2, ReplyIsolated DEF SVC_GetChallenge, Kinds
<1>2. ASSUME NEW a \in Client, NEW chal \in ChallengeValue,
             NEW prx \in Server \cup {NoPrx, NoHost}, SVC_DirectConnect(a, chal, prx)
      PROVE  \A m \in sent' : m \in Datagram /\ Isolated(m)'
  <2>1. \E kind \in Kinds : sent' \subseteq Reply(a, kind, NoChallenge)
    BY <1>2 DEF SVC_DirectConnect, ConnectRefused, ConnectFull, ConnectFailed,
                ConnectNew, ConnectAgain, ConnectReply, Kinds
  <2> QED
    BY <2>1, ReplyIsolated DEF ChallengeValue
<1>3. ASSUME NEW a \in Client, Enquiry(a)
      PROVE  \A m \in sent' : m \in Datagram /\ Isolated(m)'
  BY <1>3, ReplyIsolated DEF Enquiry, Kinds, ChallengeValue
<1>4. ASSUME NEW a \in Client, NEW kind \in {"data", "drop", "rcon"}, ClientData(a, kind)
      PROVE  \A m \in sent' : m \in Datagram /\ Isolated(m)'
  <2> DEFINE u == FWD_peer_by_addr(a)
             p == peers[u]
  <2>1. u \in DOMAIN peers /\ p \in Peer /\ p.from = a
    BY <1>4, PeerByAddr DEF ClientData
  <2>2. /\ sent' = IF p.ps = "connected"
                   THEN {Relay(p.s, p.to, IF kind = "rcon" THEN "oob" ELSE "data", a)}
                   ELSE {}
        /\ peers' = [peers EXCEPT
             ![u].ps   = IF kind = "drop" /\ p.proto = "qw" /\ p.ps = "connected"
                         THEN "drop" ELSE @,
             ![u].idle = 0]
    BY <1>4 DEF ClientData
  <2>3. /\ u \in DOMAIN peers'
        /\ peers'[u].s = p.s /\ peers'[u].to = p.to /\ peers'[u].from = a
    BY <2>1, <2>2 DEF Peer
  <2>4. p.s \in Sock /\ p.to \in Addr /\ a \in Addr
    BY <2>1 DEF Peer, Addr
  <2> HIDE DEF u, p
  <2>5. ASSUME NEW m \in sent'
        PROVE  m.via = p.s /\ m.dst = p.to /\ m.by = a /\ m \in Datagram
    <3>1. PICK k \in Kinds : m = Relay(p.s, p.to, k, a)
      BY <2>2, <2>5 DEF Kinds
    <3> QED
      BY <3>1, <2>4, RelayedDatagram
  <2> QED
    BY <2>3, <2>4, <2>5 DEF Isolated
<1>5. CASE sent' = {}
  BY <1>5
<1>6. ASSUME NEW x \in Addr, NEW n \in ChallengeValue, CL_Challenge(x, n)
      PROVE  \A m \in sent' : m \in Datagram /\ Isolated(m)'
  <2> DEFINE p == peers[cursor]
             q == IF NotesChallenge(p) THEN [p EXCEPT !.challenge = n] ELSE p
  <2>1. cursor \in DOMAIN peers /\ p \in Peer /\ x = p.to
    BY <1>0, <1>6 DEF CL_Challenge, HeardOnPeer, FromItsServer
  <2>2. q.s = p.s /\ q.to = p.to /\ q.challenge \in ChallengeValue /\ p.s \in Sock
    BY <2>1 DEF Peer
  <2>3. peers' = [peers EXCEPT ![cursor] = q] /\ sent' = ConnectPacket(q, x)
    BY <1>6 DEF CL_Challenge
  <2> HIDE DEF q
  <2>4. cursor \in DOMAIN peers' /\ peers'[cursor].s = p.s /\ peers'[cursor].to = x
    BY <2>1, <2>2, <2>3
  <2>5. ASSUME NEW m \in sent'
        PROVE  m.via = p.s /\ m.dst = x /\ m.by = Main /\ m \in Datagram
    <3>1. m = Own(p.s, x, "connect", q.challenge)
      BY <2>2, <2>3, <2>5 DEF ConnectPacket
    <3>2. "connect" \in Kinds
      BY DEF Kinds
    <3> QED
      BY <3>1, <3>2, <2>2, OwnDatagram
  <2> QED
    BY <2>2, <2>4, <2>5 DEF Isolated
<1>7. ASSUME NEW x \in Addr, CL_Disconnect(x) \/ CL_Print(x) \/ ServerData(x)
      PROVE  \A m \in sent' : m \in Datagram /\ Isolated(m)'
  <2> DEFINE p == peers[cursor]
  <2>1. cursor \in DOMAIN peers /\ p \in Peer /\ x = p.to
    BY <1>0, <1>7 DEF CL_Disconnect, CL_Print, ServerData, HeardOnPeer, FromItsServer
  <2>2. /\ cursor' = cursor /\ cursor \in DOMAIN peers'
        /\ peers'[cursor].from = p.from /\ peers'[cursor].to = x
    BY <1>7, <2>1 DEF CL_Disconnect, CL_Print, ServerData, people, frame, Peer
  <2>3. ASSUME NEW m \in sent'
        PROVE  m \in {Relay(Main, p.from, "oob", x), Relay(Main, p.from, "data", x)}
    BY <1>7, <2>3 DEF CL_Disconnect, CL_Print, ServerData
  <2>4. p.from \in Addr
    BY <2>1 DEF Peer, Addr
  <2> HIDE DEF p
  <2>5. ASSUME NEW m \in sent'
        PROVE  m.via = Main /\ m.dst = p.from /\ m.by = x /\ m \in Datagram
    <3>1. PICK k \in Kinds : m = Relay(Main, p.from, k, x)
      BY <2>3, <2>5 DEF Kinds
    <3> QED
      BY <3>1, <2>4, RelayedDatagram
  <2> QED
    BY <2>2, <2>5 DEF Isolated
<1>8. CASE PeerDone
  <2> DEFINE p == peers[cursor]
  <2>1. cursor \in DOMAIN peers /\ p \in Peer
    BY <1>0, <1>8 DEF PeerDone
  <2>2. /\ cursor \in DOMAIN peers'
        /\ peers'[cursor].s = p.s /\ peers'[cursor].to = p.to
    BY <1>8, <2>1 DEF PeerDone, Peer
  <2>3. p.s \in Sock /\ p.to \in Addr
    BY <2>1 DEF Peer, Addr
  <2>4. sent' \subseteq {Own(p.s, p.to, "getchallenge", NoChallenge)}
    BY <1>8 DEF PeerDone
  <2> HIDE DEF p
  <2>5. ASSUME NEW m \in sent'
        PROVE  m.via = p.s /\ m.dst = p.to /\ m.by = Main /\ m \in Datagram
    <3>1. m = Own(p.s, p.to, "getchallenge", NoChallenge)
      BY <2>4, <2>5
    <3>2. "getchallenge" \in Kinds /\ NoChallenge \in ChallengeValue
      BY DEF Kinds, ChallengeValue
    <3> QED
      BY <3>1, <3>2, <2>3, OwnDatagram
  <2> QED
    BY <2>2, <2>3, <2>5 DEF Isolated
<1>9. CASE FWD_check_timeout
  <2>1. ASSUME NEW m \in sent'
        PROVE  m \in Datagram /\ Isolated(m)'
    <3>1. PICK u \in DOMAIN peers :
            m = Own(peers[u].s, peers[u].to, "probe", NoChallenge)
      BY <1>9, <2>1 DEF FWD_check_timeout
    <3>2. /\ u \in DOMAIN peers'
          /\ peers'[u].s = peers[u].s /\ peers'[u].to = peers[u].to
      BY <1>9, <3>1 DEF FWD_check_timeout, Peer
    <3>3. peers[u].s \in Sock /\ peers[u].to \in Addr
      BY <3>1 DEF Peer, Addr
    <3>4. m.via = peers[u].s /\ m.dst = peers[u].to /\ m.by = Main /\ m \in Datagram
      <4>1. "probe" \in Kinds /\ NoChallenge \in ChallengeValue
        BY DEF Kinds, ChallengeValue
      <4> QED
        BY <4>1, <3>1, <3>3, OwnDatagram
    <3> QED
      BY <3>2, <3>3, <3>4 DEF Isolated
  <2> QED
    BY <2>1
<1>10. CASE UNCHANGED vars
  <2>1. peers' = peers /\ sent' = sent /\ cursor' = cursor
    BY <1>10 DEF vars, frame
  <2>2. ASSUME NEW m \in sent
        PROVE  m \in Datagram /\ Isolated(m)
    BY <2>2 DEF RelayIsolation
  <2> QED
    BY <2>1, <2>2 DEF Isolated
<1>11. CASE MainPacket
  BY <1>11, <1>1, <1>2, <1>3, <1>4, <1>5 DEF MainPacket, MainIgnored
<1>12. CASE PeerPacket
  BY <1>12, <1>5, <1>6, <1>7 DEF PeerPacket, CL_Accept, PeerIgnored
<1>13. CASE Loop \/ Tick
  BY <1>13, <1>5, <1>8, <1>9
     DEF Loop, Commands, Select, MainDone, FWD_check_drop, Tick
<1> QED
  BY <1>10, <1>11, <1>12, <1>13 DEF Next

-----------------------------------------------------------------------------
(* The parts of the invariant about who holds which peer and socket.       *)
LEMMA OnePeerKept ==
  ASSUME TypeOK, OnePeerPerClient, [Next]_vars
  PROVE  OnePeerPerClient'
<1>1. CASE PeersKept
  BY <1>1 DEF PeersKept, OnePeerPerClient
<1>2. ASSUME NEW a \in Client, NEW chal \in ChallengeValue,
             NEW prx \in Server \cup {NoPrx, NoHost}, ConnectNew(a, chal, prx)
      PROVE  OnePeerPerClient'
  <2>1. \A u \in DOMAIN peers : peers[u].from # a
    BY <1>2, PeerByAddr DEF ConnectNew
  <2> QED
    BY <1>2, <2>1, NewPeer DEF OnePeerPerClient
<1>3. CASE FWD_check_drop
  BY <1>3 DEF FWD_check_drop, OnePeerPerClient
<1> QED
  BY <1>1, <1>2, <1>3, StepShape

(* The open sockets remain those of the peers (FWD_peer_new, FWD_peer_free).*)
LEMMA SocketsKept ==
  ASSUME TypeOK, OnePeerPerClient, SocketsOwned, [Next]_vars
  PROVE  SocketsOwned'
<1>1. CASE PeersKept
  BY <1>1 DEF PeersKept, SocketsOwned
<1>2. ASSUME NEW a \in Client, NEW chal \in ChallengeValue,
             NEW prx \in Server \cup {NoPrx, NoHost}, ConnectNew(a, chal, prx)
      PROVE  SocketsOwned'
  <2>1. /\ DOMAIN peers' = DOMAIN peers \cup {userid'}
        /\ \A u \in DOMAIN peers : peers'[u] = peers[u]
        /\ peers'[userid'].s \notin open
        /\ open' = open \cup {peers'[userid'].s}
    BY <1>2, NewPeer
  <2>2. open' = {peers'[u].s : u \in DOMAIN peers'}
    BY <2>1 DEF SocketsOwned
  <2>3. ASSUME NEW u \in DOMAIN peers', NEW v \in DOMAIN peers',
               peers'[u].s = peers'[v].s
        PROVE  u = v
    <3>1. \A w \in DOMAIN peers : peers[w].s \in open
      BY DEF SocketsOwned
    <3> QED
      BY <2>1, <2>3, <3>1 DEF SocketsOwned
  <2> QED
    BY <2>2, <2>3 DEF SocketsOwned
<1>3. CASE FWD_check_drop
  <2> DEFINE kept == {u \in DOMAIN peers : peers[u].ps # "drop"}
  <2>1. /\ peers' = [u \in kept |-> peers[u]]
        /\ open' = open \ {peers[u].s : u \in DOMAIN peers \ kept}
    BY <1>3 DEF FWD_check_drop
  <2>2. open' = {peers'[u].s : u \in DOMAIN peers'}
    BY <2>1 DEF SocketsOwned
  <2> QED
    BY <2>1, <2>2 DEF SocketsOwned
<1> QED
  BY <1>1, <1>2, <1>3, StepShape

(* The list is finite, and a peer more is counted as one more.             *)
LEMMA PeersFinite ==
  ASSUME TypeOK
  PROVE  IsFiniteSet(DOMAIN peers) /\ FWD_peers_count \in Nat
<1>0. userid \in Int
  BY DEF TypeOK
<1>1. IsFiniteSet(1..userid)
  BY <1>0, FS_Interval
<1>2. IsFiniteSet(DOMAIN peers)
  BY <1>1, FS_Subset DEF TypeOK
<1> QED
  BY <1>2, FS_CardinalityType DEF FWD_peers_count

(* A new peer is only made below the limit in force (SVC_DirectConnect).    *)
LEMMA LimitKept ==
  ASSUME TypeOK, OnePeerPerClient, PeerLimit, [Next]_vars
  PROVE  PeerLimit'
<1>1. CASE PeersKept
  BY <1>1 DEF PeersKept, PeerLimit, FWD_peers_count
<1>2. ASSUME NEW a \in Client, NEW chal \in ChallengeValue,
             NEW prx \in Server \cup {NoPrx, NoHost}, ConnectNew(a, chal, prx)
      PROVE  PeerLimit'
  <2>1. DOMAIN peers' = DOMAIN peers \cup {userid'} /\ userid' \notin DOMAIN peers
    BY <1>2, NewPeer
  <2>2. FWD_peers_count' = FWD_peers_count + 1
    BY <2>1, PeersFinite, FS_AddElement DEF FWD_peers_count
  <2>3. ~ (FWD_peers_count >= maxclients)
    BY <1>2 DEF ConnectNew, ReachesPeerNew, ProxyIsFull
  <2>4. maxclients \in Limits /\ maxclients \in Nat
    BY DEF TypeOK
  <2>5. FWD_peers_count' <= maxclients
    BY <2>2, <2>3, <2>4, PeersFinite
  <2> QED
    BY <2>4, <2>5 DEF PeerLimit
<1>3. CASE FWD_check_drop
  <2>1. DOMAIN peers' \subseteq DOMAIN peers
    BY <1>3 DEF FWD_check_drop
  <2>2. FWD_peers_count' <= FWD_peers_count /\ FWD_peers_count' \in Nat
    BY <2>1, PeersFinite, FS_Subset, FS_CardinalityType DEF FWD_peers_count
  <2>3. PICK m \in Limits : FWD_peers_count <= m /\ m \in Nat
    BY DEF PeerLimit
  <2> QED
    BY <2>2, <2>3, PeersFinite DEF PeerLimit
<1> QED
  BY <1>1, <1>2, <1>3, StepShape

-----------------------------------------------------------------------------
(* Outside the loops over the sockets and the passes only time changes a   *)
(* peer, and it changes no state.                                          *)
LEMMA NoDroppedKept ==
  ASSUME TypeOK, NoDroppedBetweenFrames, [Next]_vars
  PROVE  NoDroppedBetweenFrames'
<1>1. CASE FWD_check_drop
  BY <1>1 DEF FWD_check_drop, NoDroppedBetweenFrames
<1>2. CASE Commands \/ Select
  BY <1>2 DEF Commands, Select, people, NoDroppedBetweenFrames
<1>3. CASE Tick
  <2>1. \A u \in DOMAIN peers : peers'[u].ps = peers[u].ps
    BY <1>3, AgedPeer DEF Tick, TypeOK
  <2>2. DOMAIN peers' = DOMAIN peers /\ stage' = stage
    BY <1>3 DEF Tick, frame
  <2> QED
    BY <2>1, <2>2 DEF NoDroppedBetweenFrames
<1>4. CASE UNCHANGED vars
  BY <1>4 DEF vars, NoDroppedBetweenFrames
<1>5. CASE MainPacket
  <2>1. stage = "main"
    BY <1>5
       DEF MainPacket, SVC_GetChallenge, SVC_DirectConnect, ConnectRefused, ConnectFull,
           ConnectFailed, ConnectNew, ConnectAgain, ReachesPeerNew, Enquiry, ClientData,
           MainIgnored, HeardOnMain
  <2>2. stage' = stage
    BY <1>5
       DEF MainPacket, SVC_GetChallenge, SVC_DirectConnect, ConnectRefused, ConnectFull,
           ConnectFailed, ConnectNew, ConnectAgain, Enquiry, ClientData, MainIgnored, frame
  <2> QED
    BY <2>1, <2>2 DEF NoDroppedBetweenFrames
<1>6. CASE PeerPacket
  BY <1>6
     DEF PeerPacket, CL_Challenge, CL_Accept, CL_Disconnect, CL_Print, ServerData,
         PeerIgnored, HeardOnPeer, frame, NoDroppedBetweenFrames
<1>7. CASE MainDone \/ PeerDone \/ FWD_check_timeout
  BY <1>7 DEF MainDone, PeerDone, FWD_check_timeout, NoDroppedBetweenFrames
<1> QED
  BY <1>1, <1>2, <1>3, <1>4, <1>5, <1>6, <1>7 DEF Next, Loop

(* p, if it is a connected qw peer, is on the server that accepted it.     *)
Accepted(p) == p.proto = "qw" /\ p.ps = "connected" => p.accepter = p.to

(* A connected qw peer remains on the server that accepted it.             *)
LEMMA AccepterKept ==
  ASSUME TypeOK, OnePeerPerClient, ConnectedToAccepter, [Next]_vars
  PROVE  ConnectedToAccepter'
<1> USE DEF TypeOK
<1>a. SUFFICES ASSUME NEW u \in DOMAIN peers'
               PROVE  Accepted(peers'[u])
  BY DEF Accepted, ConnectedToAccepter
<1>b. \A v \in DOMAIN peers : peers[v] \in Peer /\ Accepted(peers[v])
  BY DEF Accepted, ConnectedToAccepter
<1>c. stage = "peers" => cursor \in DOMAIN peers
  BY DEF NoPeer
<1>1. CASE UNCHANGED peers
  BY <1>1, <1>a, <1>b
<1>2. ASSUME NEW a \in Client, NEW chal \in ChallengeValue,
             NEW prx \in Server \cup {NoPrx, NoHost}, ConnectNew(a, chal, prx)
      PROVE  Accepted(peers'[u])
  BY <1>2, <1>b, NewPeer DEF Accepted
<1>3. ASSUME NEW a \in Client, NEW chal \in ChallengeValue,
             NEW prx \in Server \cup {NoPrx, NoHost}, ConnectAgain(a, chal, prx)
      PROVE  Accepted(peers'[u])
  <2> DEFINE v == FWD_peer_by_addr(a)
             q == ReusedPeer(peers[v], prx, challenges[a].proto)
  <2>1. v \in DOMAIN peers /\ peers[v] \in Peer
    BY <1>3, PeerByAddr DEF ConnectAgain
  <2>2. Accepted(q)
    BY <2>1 DEF ReusedPeer, Accepted, Peer
  <2>3. peers' = [peers EXCEPT ![v] = q]
    BY <1>3 DEF ConnectAgain
  <2> HIDE DEF v, q
  <2> QED
    BY <1>b, <2>1, <2>2, <2>3
<1>4. ASSUME NEW a \in Client, NEW kind \in {"data", "drop", "rcon"}, ClientData(a, kind)
      PROVE  Accepted(peers'[u])
  <2> DEFINE v == FWD_peer_by_addr(a)
             ps == IF kind = "drop" /\ peers[v].proto = "qw" /\ peers[v].ps = "connected"
                   THEN "drop" ELSE peers[v].ps
             q == [peers[v] EXCEPT !.ps = ps, !.idle = 0]
  <2>1. v \in DOMAIN peers /\ peers[v] \in Peer
    BY <1>4, PeerByAddr DEF ClientData
  <2>2. Accepted(q)
    BY <2>1, <1>b DEF Accepted, Peer
  <2>3. peers' = [peers EXCEPT ![v] = q]
    BY <1>4, <2>1 DEF ClientData, Peer
  <2> HIDE DEF v, q
  <2> QED
    BY <1>b, <2>1, <2>2, <2>3
<1>5. ASSUME NEW x \in Addr, NEW n \in ChallengeValue, CL_Challenge(x, n)
      PROVE  Accepted(peers'[u])
  <2> DEFINE p == peers[cursor]
             q == IF NotesChallenge(p) THEN [p EXCEPT !.challenge = n] ELSE p
  <2>1. cursor \in DOMAIN peers /\ p \in Peer /\ Accepted(p)
    BY <1>5, <1>b, <1>c DEF CL_Challenge, HeardOnPeer
  <2>2. Accepted(q)
    BY <2>1 DEF Accepted, Peer
  <2>3. peers' = [peers EXCEPT ![cursor] = q]
    BY <1>5 DEF CL_Challenge
  <2> HIDE DEF p, q
  <2> QED
    BY <1>b, <2>1, <2>2, <2>3
<1>6. ASSUME NEW x \in Addr, CL_Accept(x)
      PROVE  Accepted(peers'[u])
  <2> DEFINE p == peers[cursor]
             q == [p EXCEPT !.ps = "connected", !.accepter = x]
  <2>1. cursor \in DOMAIN peers /\ p \in Peer /\ x = p.to
    BY <1>6, <1>b, <1>c DEF CL_Accept, HeardOnPeer, FromItsServer
  <2>2. Accepted(q)
    BY <2>1 DEF Accepted, Peer
  <2>3. peers' = peers \/ peers' = [peers EXCEPT ![cursor] = q]
    BY <1>6, <2>1 DEF CL_Accept, Peer
  <2> HIDE DEF p, q
  <2> QED
    BY <1>b, <2>1, <2>2, <2>3
<1>7. ASSUME NEW x \in Addr, CL_Disconnect(x)
      PROVE  Accepted(peers'[u])
  <2> DEFINE q == [peers[cursor] EXCEPT !.ps = "drop"]
  <2>1. cursor \in DOMAIN peers /\ peers[cursor] \in Peer
    BY <1>7, <1>b, <1>c DEF CL_Disconnect, HeardOnPeer
  <2>2. Accepted(q)
    BY <2>1 DEF Accepted, Peer
  <2>3. peers' = [peers EXCEPT ![cursor] = q]
    BY <1>7, <2>1 DEF CL_Disconnect, Peer
  <2> HIDE DEF q
  <2> QED
    BY <1>b, <2>1, <2>2, <2>3
<1>8. CASE PeerDone
  <2> DEFINE q == [peers[cursor] EXCEPT !.since = 0]
  <2>1. cursor \in DOMAIN peers /\ peers[cursor] \in Peer /\ Accepted(peers[cursor])
    BY <1>8, <1>b, <1>c DEF PeerDone
  <2>2. Accepted(q)
    BY <2>1 DEF Accepted, Peer
  <2>3. peers' = peers \/ peers' = [peers EXCEPT ![cursor] = q]
    BY <1>8, <2>1 DEF PeerDone, Peer
  <2> HIDE DEF q
  <2> QED
    BY <1>b, <2>1, <2>2, <2>3
<1>9. CASE FWD_check_timeout
  BY <1>9, <1>b DEF FWD_check_timeout, Accepted, Peer
<1>10. CASE FWD_check_drop
  BY <1>10, <1>b DEF FWD_check_drop
<1>11. CASE Tick
  <2>1. u \in DOMAIN peers
    BY <1>11 DEF Tick
  <2>2. /\ peers'[u].ps = peers[u].ps /\ peers'[u].proto = peers[u].proto
        /\ peers'[u].to = peers[u].to /\ peers'[u].accepter = peers[u].accepter
    <3>1. peers[u] \in Peer /\ peers'[u] = Aged(peers[u])
      BY <1>11, <2>1 DEF Tick
    <3> QED
      BY <3>1, AgedPeer
  <2> QED
    BY <1>b, <2>1, <2>2 DEF Accepted
<1>12. CASE MainPacket
  BY <1>12, <1>1, <1>2, <1>3, <1>4
     DEF MainPacket, SVC_GetChallenge, SVC_DirectConnect, ConnectRefused, ConnectFull,
         ConnectFailed, Enquiry, MainIgnored, people
<1>13. CASE PeerPacket
  BY <1>13, <1>1, <1>5, <1>6, <1>7
     DEF PeerPacket, CL_Print, ServerData, PeerIgnored, people
<1>14. CASE Loop
  BY <1>14, <1>1, <1>8, <1>9, <1>10
     DEF Loop, Commands, Select, MainDone, people
<1> QED
  BY <1>1, <1>11, <1>12, <1>13, <1>14 DEF Next, vars

-----------------------------------------------------------------------------
(* The inductive invariant.                                                *)
Inv ==
  /\ TypeOK
  /\ OnePeerPerClient
  /\ SocketsOwned
  /\ PeerLimit
  /\ RelayIsolation
  /\ NoDroppedBetweenFrames
  /\ ConnectedToAccepter

(* The invariant holds when the proxy starts.                              *)
LEMMA Initially == Init => Inv
<1> SUFFICES ASSUME Init
             PROVE  Inv
  OBVIOUS
<1>1. TypeOK
  <2>1. challenges \in Table
    <3>1. challenges \in [{} -> Slot] /\ {} \in SUBSET Client
      BY DEF Init, StoreInit
    <3> QED
      BY <3>1 DEF Table
  <2> QED
    BY <2>1 DEF Init, TypeOK, NoPeer
<1>2. FWD_peers_count = 0
  BY FS_EmptySet DEF Init, FWD_peers_count
<1>3. PeerLimit
  BY <1>2 DEF Init, PeerLimit
<1> QED
  BY <1>1, <1>3
     DEF Init, Inv, OnePeerPerClient, SocketsOwned, RelayIsolation,
         NoDroppedBetweenFrames, ConnectedToAccepter

(* Every step keeps the invariant.                                         *)
LEMMA Inductive == Inv /\ [Next]_vars => Inv'
<1> SUFFICES ASSUME Inv, [Next]_vars
             PROVE  Inv'
  OBVIOUS
<1> USE DEF Inv
<1>1. TypeOK'
  <2>1. sent' \subseteq Datagram
    BY SentIsolated
  <2> QED
    BY <2>1, PeopleTyped, TableTyped, ConfigTyped, FrameTyped DEF TypeOK
<1>2. RelayIsolation'
  BY SentIsolated DEF RelayIsolation
<1> QED
  BY <1>1, <1>2, OnePeerKept, SocketsKept, LimitKept, NoDroppedKept, AccepterKept

(* What one step may do to a q3 peer that stays: a dropped one remains     *)
(* dropped, and a connected one keeps its challenge.                       *)
Allowed(p, q) ==
  /\ p.ps = "drop" /\ q.proto = "q3" => q.ps = "drop"
  /\ p.proto = "q3" /\ p.ps = "connected" => q.challenge = p.challenge

(* Every step of a peer that stays on the list is an allowed one.           *)
LEMMA AllowedSteps ==
  ASSUME Inv, [Next]_vars, NEW u \in DOMAIN peers \cap DOMAIN peers'
  PROVE  Allowed(peers[u], peers'[u])
<1> USE DEF TypeOK, Inv
<1>a. peers[u] \in Peer /\ Allowed(peers[u], peers[u])
  BY DEF Allowed
<1>b. \A v \in DOMAIN peers : peers[v] \in Peer
  OBVIOUS
<1>c. stage = "peers" => cursor \in DOMAIN peers
  BY DEF NoPeer
<1>1. CASE UNCHANGED peers
  BY <1>1, <1>a
<1>2. ASSUME NEW a \in Client, NEW chal \in ChallengeValue,
             NEW prx \in Server \cup {NoPrx, NoHost}, ConnectNew(a, chal, prx)
      PROVE  Allowed(peers[u], peers'[u])
  BY <1>2, <1>a, NewPeer
<1>3. ASSUME NEW a \in Client, NEW chal \in ChallengeValue,
             NEW prx \in Server \cup {NoPrx, NoHost}, ConnectAgain(a, chal, prx)
      PROVE  Allowed(peers[u], peers'[u])
  <2> DEFINE v == FWD_peer_by_addr(a)
             q == ReusedPeer(peers[v], prx, challenges[a].proto)
  <2>1. v \in DOMAIN peers /\ peers[v] \in Peer
    BY <1>3, PeerByAddr DEF ConnectAgain
  <2>2. Allowed(peers[v], q)
    BY <2>1 DEF ReusedPeer, Allowed, Peer
  <2>3. peers' = [peers EXCEPT ![v] = q]
    BY <1>3 DEF ConnectAgain
  <2> HIDE DEF v, q
  <2> QED
    BY <1>a, <2>1, <2>2, <2>3
<1>4. ASSUME NEW a \in Client, NEW kind \in {"data", "drop", "rcon"}, ClientData(a, kind)
      PROVE  Allowed(peers[u], peers'[u])
  <2> DEFINE v == FWD_peer_by_addr(a)
             ps == IF kind = "drop" /\ peers[v].proto = "qw" /\ peers[v].ps = "connected"
                   THEN "drop" ELSE peers[v].ps
             q == [peers[v] EXCEPT !.ps = ps, !.idle = 0]
  <2>1. v \in DOMAIN peers /\ peers[v] \in Peer
    BY <1>4, PeerByAddr DEF ClientData
  <2>2. Allowed(peers[v], q)
    BY <2>1 DEF Allowed, Peer
  <2>3. peers' = [peers EXCEPT ![v] = q]
    BY <1>4, <2>1 DEF ClientData, Peer
  <2> HIDE DEF v, q
  <2> QED
    BY <1>a, <2>1, <2>2, <2>3
<1>5. ASSUME NEW x \in Addr, NEW n \in ChallengeValue, CL_Challenge(x, n)
      PROVE  Allowed(peers[u], peers'[u])
  <2> DEFINE p == peers[cursor]
             q == IF NotesChallenge(p) THEN [p EXCEPT !.challenge = n] ELSE p
  <2>1. cursor \in DOMAIN peers /\ p \in Peer
    BY <1>5, <1>b, <1>c DEF CL_Challenge, HeardOnPeer
  <2>2. Allowed(p, q)
    BY <2>1 DEF Allowed, NotesChallenge, Peer
  <2>3. peers' = [peers EXCEPT ![cursor] = q]
    BY <1>5 DEF CL_Challenge
  <2> HIDE DEF q
  <2> QED
    <3>1. CASE u = cursor
      BY <2>1, <2>2, <2>3, <3>1
    <3>2. CASE u # cursor
      BY <1>a, <2>3, <3>2
    <3> QED
      BY <3>1, <3>2
<1>6. ASSUME NEW x \in Addr, CL_Accept(x)
      PROVE  Allowed(peers[u], peers'[u])
  <2> DEFINE p == peers[cursor]
             q == [p EXCEPT !.ps = "connected", !.accepter = x]
  <2>1. cursor \in DOMAIN peers /\ p \in Peer
    BY <1>6, <1>b, <1>c DEF CL_Accept, HeardOnPeer
  <2>2. Accepts(p) => Allowed(p, q)
    BY <2>1 DEF Allowed, Accepts, Peer
  <2>3. peers' = IF Accepts(p) THEN [peers EXCEPT ![cursor] = q] ELSE peers
    BY <1>6, <2>1 DEF CL_Accept, Peer
  <2> HIDE DEF q
  <2> QED
    BY <1>a, <2>1, <2>2, <2>3
<1>7. ASSUME NEW x \in Addr, CL_Disconnect(x)
      PROVE  Allowed(peers[u], peers'[u])
  <2> DEFINE q == [peers[cursor] EXCEPT !.ps = "drop"]
  <2>1. cursor \in DOMAIN peers /\ peers[cursor] \in Peer
    BY <1>7, <1>b, <1>c DEF CL_Disconnect, HeardOnPeer
  <2>2. Allowed(peers[cursor], q)
    BY <2>1 DEF Allowed, Peer
  <2>3. peers' = [peers EXCEPT ![cursor] = q]
    BY <1>7, <2>1 DEF CL_Disconnect, Peer
  <2> HIDE DEF q
  <2> QED
    BY <1>a, <2>1, <2>2, <2>3
<1>8. CASE PeerDone
  <2> DEFINE q == [peers[cursor] EXCEPT !.since = 0]
  <2>1. cursor \in DOMAIN peers /\ peers[cursor] \in Peer
    BY <1>8, <1>b, <1>c DEF PeerDone
  <2>2. Allowed(peers[cursor], q)
    BY <2>1 DEF Allowed, Peer
  <2>3. peers' = peers \/ peers' = [peers EXCEPT ![cursor] = q]
    BY <1>8, <2>1 DEF PeerDone, Peer
  <2> HIDE DEF q
  <2> QED
    BY <1>a, <2>1, <2>2, <2>3
<1>9. CASE FWD_check_timeout
  BY <1>9, <1>a DEF FWD_check_timeout, Allowed, Peer
<1>10. CASE FWD_check_drop
  BY <1>10, <1>a DEF FWD_check_drop
<1>11. CASE Tick
  <2>1. peers'[u] = Aged(peers[u])
    BY <1>11 DEF Tick
  <2> QED
    BY <1>a, <2>1, AgedPeer DEF Allowed
<1>12. CASE MainPacket
  BY <1>12, <1>1, <1>2, <1>3, <1>4
     DEF MainPacket, SVC_GetChallenge, SVC_DirectConnect, ConnectRefused, ConnectFull,
         ConnectFailed, Enquiry, MainIgnored, people
<1>13. CASE PeerPacket
  BY <1>13, <1>1, <1>5, <1>6, <1>7
     DEF PeerPacket, CL_Print, ServerData, PeerIgnored, people
<1>14. CASE Loop
  BY <1>14, <1>1, <1>8, <1>9, <1>10
     DEF Loop, Commands, Select, MainDone, people
<1> QED
  BY <1>1, <1>11, <1>12, <1>13, <1>14 DEF Next, vars

-----------------------------------------------------------------------------
(* The invariant holds in every state.                                     *)
THEOREM Invariance == Spec => []Inv
BY Initially, Inductive, PTL DEF Spec

(* The variables of the forwarder always have their types: in particular   *)
(* the loop variable never points to a peer that was freed.                *)
THEOREM TypeCorrect == Spec => []TypeOK
<1>1. Inv => TypeOK
  BY DEF Inv
<1> QED
  BY <1>1, Invariance, PTL

(* No client ever holds two peers, however often it connects.              *)
THEOREM NoDoublePeer == Spec => []OnePeerPerClient
<1>1. Inv => OnePeerPerClient
  BY DEF Inv
<1> QED
  BY <1>1, Invariance, PTL

(* No socket leaks, none is shared, none is closed under a peer and none   *)
(* of a dropped peer is open in the next frame.                            *)
THEOREM NoSocketLeak == Spec => []NoSocketLeft
<1>1. Inv => NoSocketLeft
  BY DEF Inv, NoSocketLeft
<1> QED
  BY <1>1, Invariance, PTL

(* There are never more peers than the largest maxclients in use.          *)
THEOREM NeverOverLimit == Spec => []PeerLimit
<1>1. Inv => PeerLimit
  BY DEF Inv
<1> QED
  BY <1>1, Invariance, PTL

(* What is relayed to a client came in on its own peer's socket, from the  *)
(* server it is on; what leaves that socket is the client's or the proxy's.*)
THEOREM RelaysIsolated == Spec => []RelayIsolation
<1>1. Inv => RelayIsolation
  BY DEF Inv
<1> QED
  BY <1>1, Invariance, PTL

(* No frame starts with a dropped peer on the list.                        *)
THEOREM DroppedAreFreed == Spec => []NoDroppedBetweenFrames
<1>1. Inv => NoDroppedBetweenFrames
  BY DEF Inv
<1> QED
  BY <1>1, Invariance, PTL

(* A connected qw peer was accepted by the server it talks to.             *)
THEOREM ConnectedByServer == Spec => []ConnectedToAccepter
<1>1. Inv => ConnectedToAccepter
  BY DEF Inv
<1> QED
  BY <1>1, Invariance, PTL

(* Nothing revives a dropped q3 peer.                                      *)
THEOREM DropHolds == Spec => DropIsFinal
<1>1. Inv /\ [Next]_vars =>
        [\A u \in DOMAIN peers \cap DOMAIN peers' :
           peers[u].ps = "drop" /\ peers'[u].proto = "q3"
             => peers'[u].ps = "drop"]_vars
  BY AllowedSteps DEF Allowed
<1> QED
  BY <1>1, Invariance, PTL DEF Spec, DropIsFinal

(* Nothing changes the challenge of a connected q3 peer.                   *)
THEOREM ChallengeHolds == Spec => ChallengeFixedOnceConnected
<1>1. Inv /\ [Next]_vars =>
        [\A u \in DOMAIN peers \cap DOMAIN peers' :
           peers[u].proto = "q3" /\ peers[u].ps = "connected"
             => peers'[u].challenge = peers[u].challenge]_vars
  BY AllowedSteps DEF Allowed
<1> QED
  BY <1>1, Invariance, PTL DEF Spec, ChallengeFixedOnceConnected
=============================================================================
