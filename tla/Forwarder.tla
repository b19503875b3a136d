------------------------------ MODULE Forwarder ------------------------------
(***************************************************************************)
(* The proxy proper: the table of peers, the two loops over the sockets    *)
(* and the timeout and drop passes that make up one frame (FWD_update_peers*)
(* in peer.c), with the requests of clients (svc.c) and the answers of the *)
(* servers they play on (clc.c).                                           *)
(*                                                                         *)
(* The environment is open: any address may send the proxy any datagram at *)
(* any point where the code reads a socket, so that loss, duplication,     *)
(* delay and reordering need no model of their own.  The datagrams a step  *)
(* sends are in `sent' until the next step.                                *)
(*                                                                         *)
(* A peer is known by its userid.  FWD_peer_new numbers peers upwards and  *)
(* links them at the head of the list, and nothing else orders the list:   *)
(* list order is descending userid.                                        *)
(***************************************************************************)
EXTENDS ChallengeStore, Integers

CONSTANTS
  Server,         \* addresses a "prx" key can name: servers and other proxies
  Sock,           \* sockets the OS can hand out for peers
  Main,           \* net_socket, the proxy's own port
  NoPrx,          \* a connect request whose "prx" key is missing or has a bad port
  NoHost,         \* a "prx" key that does not resolve
  NoServer,       \* `accepter' of a peer that no server accepted
  Timeout,        \* seconds of silence after which a peer is dropped (15)
  ResendAfter,    \* seconds that must be exceeded to repeat getchallenge (2)
  QuietAfter,     \* seconds that must be exceeded for the q3 helper (1)
  BanLists,       \* contents the ban list may take, as the addresses it covers
  Whitelists,     \* contents the whitelist may take
  Limits,         \* values the maxclients cvar may take
  MaxUserid       \* bound of the model: peers created in one behaviour

Addr == Client \cup Server

ASSUME ForwarderAssumption ==
  /\ Main \notin Sock
  /\ NoPrx \notin Server /\ NoHost \notin Server /\ NoServer \notin Server
  /\ Timeout \in Nat /\ ResendAfter \in Nat /\ QuietAfter \in Nat
  /\ BanLists \subseteq SUBSET Addr
  /\ Whitelists \subseteq SUBSET Server
  /\ Limits \subseteq Nat
  /\ MaxUserid \in Nat

VARIABLES
  peers,       \* userid -> peer, for the peers on the list
  userid,      \* the last userid given
  open,        \* peer sockets the process has open
  banned,      \* addresses the ban list covers
  whitelist,   \* addresses of the whitelist; empty: no restriction
  maxclients,  \* the cvar
  stage,       \* where the frame is
  cursor,      \* `p' of the loop over the peers' sockets, 0 for NULL
  rfds,        \* the peer sockets select() watched in this frame
  sent         \* the datagrams the last step sent

table  == <<challenges>>
people == <<peers, userid, open>>
config == <<banned, whitelist, maxclients>>
frame  == <<stage, cursor, rfds>>
vars   == <<challenges, peers, userid, open, banned, whitelist, maxclients,
            stage, cursor, rfds, sent>>

-----------------------------------------------------------------------------
(***************************************************************************)
(* The data.  idle and since are the ages of p->last and p->connect in     *)
(* seconds, counted no further than the comparisons of the code can see;   *)
(* accepter is not in the code: the server that last accepted the peer.    *)
(***************************************************************************)
States == {"drop", "challenge", "connected"}

Peer == [from      : Client,
         to        : Server,
         s         : Sock,
         ps        : States,
         proto     : Protos,
         challenge : ChallengeValue,
         idle      : 0..Timeout,
         since     : 0..(ResendAfter + 1),
         accepter  : Server \cup {NoServer}]

Kinds == {"challenge", "accept", "print", "full", "reconnect", "reply",
          "getchallenge", "connect", "probe", "oob", "data"}

(***************************************************************************)
(* A datagram the proxy sends: from which of its sockets, to whom, what,   *)
(* with which challenge number, and whose words it carries.                *)
(***************************************************************************)
Datagram == [via  : Sock \cup {Main},
             dst  : Addr,
             kind : Kinds,
             chal : ChallengeValue,
             by   : Addr \cup {Main}]

Own(via, dst, kind, chal) ==
  [via |-> via, dst |-> dst, kind |-> kind, chal |-> chal, by |-> Main]

Relay(via, dst, kind, origin) ==
  [via |-> via, dst |-> dst, kind |-> kind, chal |-> NoChallenge, by |-> origin]

NoPeer == 0

(* Mutant: a peer that is being dropped no longer counts as the client's.  *)
MutLivePeerByAddr(a) ==
  LET owned == {u \in DOMAIN peers : peers[u].from = a /\ peers[u].ps # "drop"}
  IN  IF owned = {} THEN NoPeer
      ELSE CHOOSE u \in owned : \A v \in owned : v <= u

FWD_peer_by_addr(a) ==
  LET owned == {u \in DOMAIN peers : peers[u].from = a}
  IN  IF owned = {} THEN NoPeer
      ELSE CHOOSE u \in owned : \A v \in owned : v <= u

FWD_peers_count == Cardinality(DOMAIN peers)

SV_IsBanned(a) == a \in banned

SV_IsWhitelisted(a) == whitelist = {} \/ a \in whitelist

CheckChallenge(a, chal) ==
  a \in DOMAIN challenges /\ challenges[a].challenge = chal

(* v follows u on the list; NoPeer follows the last peer.                  *)
Follows(u, v) ==
  \/ v \in DOMAIN peers /\ v < u /\ \A w \in DOMAIN peers : w < u => w <= v
  \/ v = NoPeer /\ \A w \in DOMAIN peers : ~ (w < u)

-----------------------------------------------------------------------------
(***************************************************************************)
(* The main socket: svc.c, and the first loop of FWD_network_update.       *)
(***************************************************************************)

MutHeardOnMain(a) == stage = "main"    \* mutant: no ban check

(* A datagram of `a' is read from the main socket and is not thrown away.  *)
HeardOnMain(a) == stage = "main" /\ ~SV_IsBanned(a)

Reply(a, kind, chal) == {Own(Main, a, kind, chal)}

(* p->challenge of a connected q3 client, the "overwrite trick".           *)
ForcedChallenge(a, proto) ==
  LET u == FWD_peer_by_addr(a)
  IN  IF proto = "q3" /\ u # NoPeer /\ peers[u].ps = "connected"
      THEN {peers[u].challenge}
      ELSE {}

SVC_GetChallenge(a, proto) ==
  /\ HeardOnMain(a)
  /\ challenges' \in Answers(challenges, a, proto, ForcedChallenge(a, proto))
  /\ sent' = Reply(a, "challenge", challenges'[a].challenge)
  /\ UNCHANGED <<people, config, frame>>

-----------------------------------------------------------------------------
(* The refusals of SVC_DirectConnect, in the order of the code.  A request *)
(* whose version or userinfo is not valid ends like one with a wrong       *)
(* challenge: with a message and nothing else.                             *)
MutProxyIsFull == FWD_peers_count > maxclients    \* mutant: off by one

ProxyIsFull == FWD_peers_count >= maxclients

ConnectRefused(a, chal, prx) ==
  /\ HeardOnMain(a)
  /\ \/ ~CheckChallenge(a, chal)
     \/ ~ProxyIsFull /\ prx = NoPrx
  /\ sent' = Reply(a, "print", NoChallenge)
  /\ UNCHANGED <<challenges, people, config, frame>>

ConnectFull(a, chal) ==
  /\ HeardOnMain(a)
  /\ CheckChallenge(a, chal)
  /\ ProxyIsFull
  /\ sent' = Reply(a, "full", NoChallenge)
  /\ UNCHANGED <<challenges, people, config, frame>>

(* The request gets as far as FWD_peer_new.                                *)
ReachesPeerNew(a, chal, prx) ==
  HeardOnMain(a) /\ CheckChallenge(a, chal) /\ ~ProxyIsFull /\ prx # NoPrx

(* FWD_peer_new accepts the server the client asks for.                    *)
Admissible(prx) ==
  prx \in Server /\ SV_IsWhitelisted(prx) /\ ~SV_IsBanned(prx)

(* FWD_peer_new returns NULL and SVC_DirectConnect says nothing.           *)
ConnectFailed(a, chal, prx) ==
  /\ ReachesPeerNew(a, chal, prx)
  /\ \/ ~Admissible(prx)
     \/ FWD_peer_by_addr(a) = NoPeer /\ Sock \subseteq open
  /\ sent' = {}
  /\ UNCHANGED <<challenges, people, config, frame>>

(* A new peer.  p->connect is zero, that is, long ago.                     *)
FreshPeer(a, to, s, proto) ==
  [from |-> a, to |-> to, s |-> s, ps |-> "challenge", proto |-> proto,
   challenge |-> NoChallenge, idle |-> 0, since |-> ResendAfter + 1,
   accepter |-> NoServer]

ConnectNew(a, chal, prx) ==
  /\ ReachesPeerNew(a, chal, prx)
  /\ Admissible(prx)
  /\ FWD_peer_by_addr(a) = NoPeer
  /\ userid < MaxUserid
  /\ userid' = userid + 1
  /\ \E s \in Sock \ open :
       /\ open' = open \cup {s}
       /\ peers' = [u \in DOMAIN peers \cup {userid'} |->
                      IF u = userid'
                      THEN FreshPeer(a, prx, s, challenges[a].proto)
                      ELSE peers[u]]
  /\ sent' = IF challenges[a].proto = "qw"
             THEN Reply(a, "accept", NoChallenge) ELSE {}
  /\ UNCHANGED <<challenges, config, frame>>

(* The peer of a client that connects again.  Socket, userid, challenge    *)
(* and p->connect stay; q3 keeps the state as well.                        *)
MutReusedPeer(p, to, proto) ==    \* mutant: no protocol resets the state
  [p EXCEPT !.to = to, !.proto = proto, !.idle = 0]

ReusedPeer(p, to, proto) ==
  [p EXCEPT !.to    = to,
            !.ps    = IF proto = "q3" THEN p.ps ELSE "challenge",
            !.proto = proto,
            !.idle  = 0]

(* What SVC_DirectConnect tells a client whose peer is p.                  *)
ConnectReply(a, p, chal) ==
  IF p.proto = "qw" THEN Reply(a, "accept", NoChallenge)
  ELSE IF p.ps # "connected" THEN {}
  ELSE IF p.challenge = chal THEN Reply(a, "accept", NoChallenge)
  ELSE Reply(a, "reconnect", NoChallenge)

ConnectAgain(a, chal, prx) ==
  LET u == FWD_peer_by_addr(a)
  IN  /\ ReachesPeerNew(a, chal, prx)
      /\ Admissible(prx)
      /\ u # NoPeer
      /\ peers' = [peers EXCEPT ![u] =
                     ReusedPeer(peers[u], prx, challenges[a].proto)]
      /\ sent' = ConnectReply(a, peers'[u], chal)
      /\ UNCHANGED <<challenges, userid, open, config, frame>>

SVC_DirectConnect(a, chal, prx) ==
  \/ ConnectRefused(a, chal, prx)
  \/ ConnectFull(a, chal)
  \/ ConnectFailed(a, chal, prx)
  \/ ConnectNew(a, chal, prx)
  \/ ConnectAgain(a, chal, prx)

-----------------------------------------------------------------------------
(* Requests about the proxy itself: ping, status, pingstatus.              *)
Enquiry(a) ==
  /\ HeardOnMain(a)
  /\ sent' = Reply(a, "reply", NoChallenge)
  /\ UNCHANGED <<challenges, people, config, frame>>

(* Datagrams that neither change nor send anything: those of banned        *)
(* addresses, of addresses without a peer, unknown requests, answers to    *)
(* the proxy's own queries.                                                *)
MainIgnored ==
  /\ stage = "main"
  /\ sent' = {}
  /\ UNCHANGED <<challenges, people, config, frame>>

(* A datagram that goes to the server: game data, "rcon", or the "drop"    *)
(* command by which a qw client leaves (sent three times over).            *)
ClientData(a, kind) ==
  LET u == FWD_peer_by_addr(a)
      p == peers[u]
  IN  /\ HeardOnMain(a)
      /\ u # NoPeer
      /\ peers' = [peers EXCEPT
           ![u].ps   = IF kind = "drop" /\ p.proto = "qw" /\ p.ps = "connected"
                       THEN "drop" ELSE @,
           ![u].idle = 0]
      /\ sent' = IF p.ps = "connected"
                 THEN {Relay(p.s, p.to, IF kind = "rcon" THEN "oob" ELSE "data", a)}
                 ELSE {}
      /\ UNCHANGED <<challenges, userid, open, config, frame>>

(* The queue of the main socket is empty: on to the peers' sockets.        *)
MutMainDone ==    \* mutant: the loop is entered with no peer on the list
  /\ stage = "main"
  /\ Follows(userid + 1, cursor')
  /\ stage' = "peers"
  /\ sent' = {}
  /\ UNCHANGED <<challenges, people, config, rfds>>

MainDone ==
  /\ stage = "main"
  /\ Follows(userid + 1, cursor')
  /\ stage' = IF cursor' = NoPeer THEN "timeout" ELSE "peers"
  /\ sent' = {}
  /\ UNCHANGED <<challenges, people, config, rfds>>

-----------------------------------------------------------------------------
(***************************************************************************)
(* The peers' sockets: clc.c, and the second loop of FWD_network_update.   *)
(***************************************************************************)

(* A datagram of x read from a peer's socket is the word of its server.    *)
MutFromItsServer(p, x) == ~SV_IsBanned(x)    \* mutant: any sender will do

FromItsServer(p, x) == x = p.to /\ ~SV_IsBanned(x)

(* The current peer's socket is read and gives a datagram of x.            *)
HeardOnPeer(x) ==
  /\ stage = "peers"
  /\ peers[cursor].s \in rfds
  /\ FromItsServer(peers[cursor], x)

(* CL_SendConnectPacket_QW and _Q3: only while the peer is in challenge.   *)
ConnectPacket(p, x) ==
  IF p.ps = "challenge" THEN {Own(p.s, x, "connect", p.challenge)} ELSE {}

(* The server's challenge: qw notes it in any state, q3 only in challenge. *)
MutNotesChallenge(p) == TRUE    \* mutant: q3 as careless as qw

NotesChallenge(p) == p.proto = "qw" \/ p.ps = "challenge"

CL_Challenge(x, n) ==
  LET p == peers[cursor]
      q == IF NotesChallenge(p) THEN [p EXCEPT !.challenge = n] ELSE p
  IN  /\ HeardOnPeer(x)
      /\ peers' = [peers EXCEPT ![cursor] = q]
      /\ sent' = ConnectPacket(q, x)
      /\ UNCHANGED <<challenges, userid, open, config, frame>>

(* The server's acceptance moves a peer to connected: for q3 only from     *)
(* challenge, for qw from any lesser state.                                *)
MutAccepts(p) == p.ps # "connected"    \* mutant: q3 as careless as qw

Accepts(p) == IF p.proto = "q3" THEN p.ps = "challenge" ELSE p.ps # "connected"

CL_Accept(x) ==
  /\ HeardOnPeer(x)
  /\ peers' = IF Accepts(peers[cursor])
              THEN [peers EXCEPT ![cursor].ps       = "connected",
                                 ![cursor].accepter = x]
              ELSE peers
  /\ sent' = {}
  /\ UNCHANGED <<challenges, userid, open, config, frame>>

(* A q3 server ends the game; the client gets to hear it.                  *)
CL_Disconnect(x) ==
  LET p == peers[cursor]
  IN  /\ HeardOnPeer(x)
      /\ p.proto = "q3"
      /\ peers' = [peers EXCEPT ![cursor].ps = "drop"]
      /\ sent' = {Relay(Main, p.from, "oob", x)}
      /\ UNCHANGED <<challenges, userid, open, config, frame>>

(* A message of the server for the player, relayed in any state.           *)
CL_Print(x) ==
  /\ HeardOnPeer(x)
  /\ sent' = {Relay(Main, peers[cursor].from, "oob", x)}
  /\ UNCHANGED <<challenges, people, config, frame>>

(* Game data of the server, relayed to a connected client.                 *)
MutServerData(x) ==    \* mutant: whose data it is, is looked up by the server
  \E u \in DOMAIN peers :
    /\ HeardOnPeer(x)
    /\ peers[u].to = x
    /\ sent' = IF peers[u].ps = "connected"
               THEN {Relay(Main, peers[u].from, "data", x)} ELSE {}
    /\ UNCHANGED <<challenges, people, config, frame>>

ServerData(x) ==
  LET p == peers[cursor]
  IN  /\ HeardOnPeer(x)
      /\ sent' = IF p.ps = "connected" THEN {Relay(Main, p.from, "data", x)} ELSE {}
      /\ UNCHANGED <<challenges, people, config, frame>>

(* Datagrams of strangers and of banned servers, and unknown ones.         *)
PeerIgnored ==
  /\ stage = "peers"
  /\ sent' = {}
  /\ UNCHANGED <<challenges, people, config, frame>>

(* The queue is empty: repeat getchallenge if it is due, go to p->next.    *)
MutResendDue(p) == p.ps = "challenge" /\ p.since <= ResendAfter    \* mutant: inverted

ResendDue(p) == p.ps = "challenge" /\ p.since > ResendAfter

PeerDone ==
  LET p == peers[cursor]
  IN  /\ stage = "peers"
      /\ peers' = IF ResendDue(p) THEN [peers EXCEPT ![cursor].since = 0] ELSE peers
      /\ sent' = IF ResendDue(p)
                 THEN {Own(p.s, p.to, "getchallenge", NoChallenge)} ELSE {}
      /\ Follows(cursor, cursor')
      /\ stage' = IF cursor' = NoPeer THEN "timeout" ELSE "peers"
      /\ UNCHANGED <<challenges, userid, open, config, rfds>>

-----------------------------------------------------------------------------
(***************************************************************************)
(* The passes at the end of a frame, and the rest of the main loop.        *)
(***************************************************************************)

(* The probe by which a q3 server is made to say "disconnect".  How often  *)
(* it is sent depends on fractions of a second: `probed' is any choice.    *)
Probeable(p) == p.proto = "q3" /\ p.idle > QuietAfter /\ p.ps = "connected"

TimedOut(p) == p.idle >= Timeout

FWD_check_timeout ==
  /\ stage = "timeout"
  /\ stage' = "drop"
  /\ peers' = [u \in DOMAIN peers |->
                 IF TimedOut(peers[u]) THEN [peers[u] EXCEPT !.ps = "drop"]
                                       ELSE peers[u]]
  /\ \E probed \in SUBSET {u \in DOMAIN peers : Probeable(peers[u])} :
       sent' = {Own(peers[u].s, peers[u].to, "probe", NoChallenge) : u \in probed}
  /\ rfds' = {}
  /\ UNCHANGED <<challenges, userid, open, config, cursor>>

(* FWD_peer_free of every dropped peer: unlink, close the socket.          *)
MutShortDrop ==    \* mutant: the walk over the list ends with the first peer freed
  LET gone == {u \in DOMAIN peers : /\ peers[u].ps = "drop"
                                    /\ \A v \in DOMAIN peers :
                                         peers[v].ps = "drop" => v <= u}
  IN  /\ stage = "drop"
      /\ stage' = "commands"
      /\ peers' = [u \in DOMAIN peers \ gone |-> peers[u]]
      /\ open' = open \ {peers[u].s : u \in gone}
      /\ sent' = {}
      /\ UNCHANGED <<challenges, userid, config, cursor, rfds>>

FWD_check_drop ==
  LET kept == {u \in DOMAIN peers : peers[u].ps # "drop"}
  IN  /\ stage = "drop"
      /\ stage' = "commands"
      /\ peers' = [u \in kept |-> peers[u]]
      /\ open' = open \ {peers[u].s : u \in DOMAIN peers \ kept}
      /\ sent' = {}
      /\ UNCHANGED <<challenges, userid, config, cursor, rfds>>

(* SV_CleanBansIPList and Cbuf_Execute: bans expire, commands are run.     *)
Commands ==
  /\ stage = "commands"
  /\ stage' = "select"
  /\ banned' \in BanLists
  /\ whitelist' \in Whitelists
  /\ maxclients' \in Limits
  /\ sent' = {}
  /\ UNCHANGED <<challenges, people, cursor, rfds>>

(* select() watches the sockets of the peers there are now; it may report  *)
(* nothing, or fail.                                                       *)
Select ==
  /\ stage = "select"
  /\ stage' \in {"main", "timeout"}
  /\ rfds' = {peers[u].s : u \in DOMAIN peers}
  /\ sent' = {}
  /\ UNCHANGED <<challenges, people, config, cursor>>

(* A second passes, at any point of a frame.                               *)
Older(age, most) == IF age < most THEN age + 1 ELSE age

Aged(p) == [p EXCEPT !.idle  = Older(p.idle, Timeout),
                     !.since = Older(p.since, ResendAfter + 1)]

Tick ==
  /\ peers' = [u \in DOMAIN peers |-> Aged(peers[u])]
  /\ sent' = {}
  /\ UNCHANGED <<challenges, userid, open, config, frame>>

-----------------------------------------------------------------------------
Init ==
  /\ StoreInit
  /\ peers = [u \in {} |-> NoPeer]
  /\ userid = 0
  /\ open = {}
  /\ banned \in BanLists
  /\ whitelist \in Whitelists
  /\ maxclients \in Limits
  /\ stage = "commands"
  /\ cursor = NoPeer
  /\ rfds = {}
  /\ sent = {}

MainPacket ==
  \/ \E a \in Client, proto \in Protos : SVC_GetChallenge(a, proto)
  \/ \E a \in Client, chal \in ChallengeValue, prx \in Server \cup {NoPrx, NoHost} :
       SVC_DirectConnect(a, chal, prx)
  \/ \E a \in Client : Enquiry(a)
  \/ \E a \in Client, kind \in {"data", "drop", "rcon"} : ClientData(a, kind)
  \/ MainIgnored

PeerPacket ==
  \/ \E x \in Addr, n \in ChallengeValue : CL_Challenge(x, n)
  \/ \E x \in Addr : CL_Accept(x)
  \/ \E x \in Addr : CL_Disconnect(x)
  \/ \E x \in Addr : CL_Print(x)
  \/ \E x \in Addr : ServerData(x)
  \/ PeerIgnored

Loop ==
  \/ Commands
  \/ Select
  \/ MainDone
  \/ PeerDone
  \/ FWD_check_timeout
  \/ FWD_check_drop

Next == MainPacket \/ PeerPacket \/ Loop \/ Tick

Spec == Init /\ [][Next]_vars

(***************************************************************************)
(* FWD_proc loops without end, select() returns within 100 ms and a queue  *)
(* that is not refilled runs empty: each stage of the frame ends.  And     *)
(* time passes.                                                            *)
(***************************************************************************)
Fairness == WF_vars(Loop) /\ WF_vars(Tick)

FairSpec == Spec /\ Fairness

-----------------------------------------------------------------------------
(* The types of the variables.                                             *)
TypeOK ==
  /\ challenges \in Table
  /\ DOMAIN peers \subseteq 1..userid
  /\ peers \in [DOMAIN peers -> Peer]
  /\ userid \in 0..MaxUserid
  /\ open \subseteq Sock
  /\ banned \in BanLists
  /\ whitelist \in Whitelists
  /\ maxclients \in Limits
  /\ stage \in {"commands", "select", "main", "peers", "timeout", "drop"}
  /\ cursor \in DOMAIN peers \cup {NoPeer}
  /\ stage = "peers" <=> cursor # NoPeer
  /\ rfds \subseteq Sock
  /\ sent \subseteq Datagram

(* No client ever holds two peers: a client that connects again, changes   *)
(* protocol or server, or connects in the frame in which it is dropped,    *)
(* gets its old peer back (FWD_peer_new).                                  *)
OnePeerPerClient ==
  \A u, v \in DOMAIN peers : peers[u].from = peers[v].from => u = v

(* Every open peer socket belongs to exactly one peer and every peer has   *)
(* its own: refused requests, reuse and drops leak no socket and close     *)
(* none that is in use (FWD_peer_new, FWD_peer_free).                      *)
SocketsOwned ==
  /\ open = {peers[u].s : u \in DOMAIN peers}
  /\ \A u, v \in DOMAIN peers : peers[u].s = peers[v].s => u = v

(* There are never more peers than the largest maxclients in use allows.   *)
PeerLimit == \E m \in Limits : FWD_peers_count <= m

(* A connected peer was accepted by the very server it now talks to: a     *)
(* client that turns to another server goes through the handshake again    *)
(* before anything is forwarded there.  Only for qw, see ReadyMeansReady.  *)
ConnectedToAccepter ==
  \A u \in DOMAIN peers :
    peers[u].proto = "qw" /\ peers[u].ps = "connected"
      => peers[u].accepter = peers[u].to

(* Nobody hears another's game.  What the proxy relays to a client came in *)
(* on the socket of that client's peer and was said by the server the peer *)
(* is on; and what leaves a peer's socket goes to that server and was said *)
(* by that client or the proxy.  Late words of the server the client was   *)
(* on before go nowhere, nor do words for another client of that server.   *)
Isolated(m) ==
  /\ m.via = Main /\ m.by # Main =>
       /\ cursor \in DOMAIN peers
       /\ peers[cursor].from = m.dst /\ peers[cursor].to = m.by
  /\ m.via # Main =>
       \E u \in DOMAIN peers : /\ peers[u].s = m.via
                               /\ peers[u].to = m.dst
                               /\ m.by \in {Main, peers[u].from}

RelayIsolation == \A m \in sent : Isolated(m)

(* A frame leaves no dropped peer behind: a new frame never starts with    *)
(* one on the list, whoever dropped it (client, server, timeout).          *)
NoDroppedBetweenFrames ==
  stage \in {"commands", "select"} =>
    \A u \in DOMAIN peers : peers[u].ps # "drop"

(* A socket is open for as long as its peer is in use and no longer: each  *)
(* belongs to one peer of its own, and none that was dropped, by whomever  *)
(* and together with however many others, keeps its socket into the next   *)
(* frame (FWD_check_drop, FWD_peer_free).                                  *)
NoSocketLeft == SocketsOwned /\ NoDroppedBetweenFrames

(* A dropped q3 peer stays dropped until it is freed: neither a late       *)
(* connectResponse nor a new q3 connect of the client revives it.          *)
DropIsFinal ==
  [][\A u \in DOMAIN peers \cap DOMAIN peers' :
       peers[u].ps = "drop" /\ peers'[u].proto = "q3"
         => peers'[u].ps = "drop"]_vars

(* The challenge of a connected q3 peer does not change, whatever the      *)
(* server and the client send: the game's packets are encrypted with it    *)
(* (SVC_GetChallenge, CL_ConnectionlessPacket_Q3).                         *)
ChallengeFixedOnceConnected ==
  [][\A u \in DOMAIN peers \cap DOMAIN peers' :
       peers[u].proto = "q3" /\ peers[u].ps = "connected"
         => peers'[u].challenge = peers[u].challenge]_vars

(* A client that is banned for good loses its peer for good, though no     *)
(* code looks for peers of banned clients: its datagrams are not read any  *)
(* more, so its peer times out, and it cannot connect again.               *)
BannedClientLeaves ==
  \A a \in Client : <>[](a \in banned) => <>[](FWD_peer_by_addr(a) = NoPeer)

(* A peer in challenge keeps asking its server until it leaves that state, *)
(* although a frame in which nothing arrives skips the loop that asks.     *)
ChallengeRepeated ==
  \A u \in 1..MaxUserid :
    []<>(\/ u \notin DOMAIN peers
         \/ peers[u].ps # "challenge"
         \/ \E m \in sent : m.kind = "getchallenge" /\ m.via = peers[u].s)

-----------------------------------------------------------------------------
(* What the source says and the code does not do.                          *)

(* svc.c:315, "ok, we are really really ready to transfer data": a q3      *)
(* client that is told connectResponse has a peer its server accepted.     *)
ReadyMeansReady ==
  \A m \in sent :
    m.kind = "accept" =>
      \A u \in DOMAIN peers :
        peers[u].from = m.dst /\ peers[u].proto = "q3"
          => peers[u].accepter = peers[u].to
=============================================================================
