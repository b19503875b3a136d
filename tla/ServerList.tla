------------------------------ MODULE ServerList ------------------------------
(***************************************************************************)
(* The list of game servers the proxy keeps for `pingstatus' (query.c):    *)
(* masters report servers, the proxy visits one server of the list at a    *)
(* time and pings it, gives up those that are silent for an hour and drops *)
(* those an administrator filters.                                         *)
(*                                                                         *)
(* The walk over the list is by index, while new servers are linked at the *)
(* head and others are unlinked under it.  Times are kept as ages, counted *)
(* no further than the comparisons of the code can see.                    *)
(***************************************************************************)
EXTENDS Lists, FiniteSets, SequencesExt

CONSTANTS
  Address,      \* addresses of servers that masters may report
  HostOf,       \* address -> the host it is a port of
  FilterLists,  \* sets of hosts `masters_filter_servers' may name
  MaxServers,   \* MAX_SERVERS (512)
  MinPing,      \* seconds between two pings of a server (60)
  DeadTime,     \* seconds of silence that must be exceeded to give one up (3600)
  MaxReported   \* bound of the model: servers in one datagram of a master

Host == {HostOf[a] : a \in Address}

ASSUME ServerListAssumption ==
  /\ HostOf \in [Address -> Host]
  /\ FilterLists \subseteq SUBSET Host
  /\ MaxServers \in Nat \ {0} /\ MinPing \in Nat \ {0}
  /\ DeadTime \in Nat /\ MaxReported \in Nat

VARIABLES
  servers,        \* the linked list, its head first
  sv_count,       \* the counter beside it
  idx,            \* the pseudo index of the walk
  rested,         \* a tenth of a second has passed since the last visit
  filter,         \* the hosts in server_filter
  wanted,         \* the hosts the cvar masters_filter_servers names
  modified,       \* the cvar was set since QRY_Frame last looked
  masters_query,  \* the cvar: keep the list at all
  uptime,         \* Sys_DoubleTime()
  stage,          \* "packets": QRY_Frame is not running; "ping": it is half done
  pinged          \* addresses the last step sent a ping to

vars == <<servers, sv_count, idx, rested, filter, wanted, modified,
          masters_query, uptime, stage, pinged>>

list   == <<servers, sv_count>>
walk   == <<idx, rested>>
cvars  == <<wanted, modified, masters_query>>

-----------------------------------------------------------------------------
(***************************************************************************)
(* sent and heard are the ages of ping_sent_at and ping_reply_at, which is *)
(* zero, the start of the program, before the first answer; silent is how  *)
(* long before the last ping the server was last heard, zero once it has   *)
(* answered that ping.  quiet and answered are not in the code: the age of *)
(* the last answer, or of the entry before the first one.                  *)
(***************************************************************************)
Server == [addr     : Address,
           reply    : BOOLEAN,
           sent     : 0..MinPing,
           heard    : 0..(DeadTime + 1),
           silent   : 0..(DeadTime + 1),
           quiet    : 0..(DeadTime + 1),
           answered : BOOLEAN]

NewServer(a) ==
  [addr |-> a, reply |-> FALSE, sent |-> MinPing, heard |-> uptime, silent |-> 0,
   quiet |-> 0, answered |-> FALSE]

AddressesOf(l) == {l[i].addr : i \in DOMAIN l}

Listed == AddressesOf(servers)

QRY_FL_Filtered(a) == HostOf[a] \in filter

(* sv_count when the list has grown to l.                                  *)
Counted(l) == sv_count + (Len(l) - Len(servers))

(* QRY_SV_new takes a into the list l.                                     *)
Admits(l, a) ==
  Counted(l) < MaxServers /\ a \notin AddressesOf(l) /\ ~QRY_FL_Filtered(a)

QRY_SV_new(l, a) == IF Admits(l, a) THEN <<NewServer(a)>> \o l ELSE l

Reports == UNION {[1..n -> Address] : n \in 1..MaxReported}

(* The list after the servers reported are taken into it, one by one.      *)
Taken(reported) ==
  LET l[n \in 0..Len(reported)] ==
        IF n = 0 THEN servers ELSE QRY_SV_new(l[n - 1], reported[n])
  IN  l[Len(reported)]

(* A registered master reports servers.                                    *)
SVC_QRY_ParseMasterReply(reported) ==
  /\ stage = "packets"
  /\ masters_query
  /\ servers' = Taken(reported)
  /\ sv_count' = Counted(servers')
  /\ pinged' = {}
  /\ UNCHANGED <<walk, filter, cvars, uptime, stage>>

MutAnswered(sv) ==    \* mutant: ping_reply_at is not written
  [sv EXCEPT !.reply = TRUE, !.silent = 0, !.quiet = 0, !.answered = TRUE]

Answered(sv) ==
  [sv EXCEPT !.reply = TRUE, !.heard = 0, !.silent = 0,
             !.quiet = 0, !.answered = TRUE]

(* An A2A_ACK of a, asked for or not.                                      *)
QRY_SV_PingReply(a) ==
  /\ stage = "packets"
  /\ masters_query
  /\ a \in Listed
  /\ servers' = [i \in DOMAIN servers |->
                   IF servers[i].addr = a THEN Answered(servers[i]) ELSE servers[i]]
  /\ pinged' = {}
  /\ UNCHANGED <<sv_count, walk, filter, cvars, uptime, stage>>

-----------------------------------------------------------------------------
(* QRY_FL_RemoveFilteredServers: for each filter, QRY_SV_ByAddrEx finds    *)
(* the first server of that host, which is freed.                          *)
Found(f) ==
  {servers[i].addr : i \in {i \in DOMAIN servers :
     /\ HostOf[servers[i].addr] \in f
     /\ \A j \in DOMAIN servers :
          HostOf[servers[j].addr] = HostOf[servers[i].addr] => i <= j}}

Staying(f) ==
  {servers[i] : i \in {i \in DOMAIN servers : servers[i].addr \notin Found(f)}}

Freed(n) == sv_count - n

(* The first call of QRY_Frame.                                            *)
QRY_FL_CheckVarsModified ==
  /\ stage = "packets"
  /\ stage' = "ping"
  /\ modified' = FALSE
  /\ IF modified
     THEN /\ filter' = wanted
          /\ servers' = Kept(servers, Staying(wanted))
          /\ sv_count' = Freed(Cardinality(Found(wanted)))
     ELSE UNCHANGED <<filter, servers, sv_count>>
  /\ pinged' = {}
  /\ UNCHANGED <<walk, wanted, masters_query, uptime>>

-----------------------------------------------------------------------------
(* QRY_SV_PingServers, the last call of QRY_Frame.                         *)

(* The index that is visited, 0 for the head: idx, or 0 if there is no     *)
(* such server.                                                            *)
Visited == IF idx < Len(servers) THEN (IF idx < 0 THEN 0 ELSE idx) ELSE 0

(* idx after the visit: one further, but after a wrap still 0.             *)
MutStepped == Visited    \* mutant: idx stays where it is

MutUnwrapped == idx + 1    \* mutant: no wrap

Stepped == IF idx < Len(servers) THEN Visited + 1 ELSE 0

MutDead(sv) == ~sv.reply /\ sv.silent >= DeadTime + 2    \* mutant: never reached

Dead(sv) == ~sv.reply /\ sv.silent > DeadTime

Asked(sv) == [sv EXCEPT !.reply = FALSE, !.sent = 0, !.silent = sv.heard]

Visitable == stage = "ping" /\ masters_query /\ servers # <<>> /\ rested

GiveUp ==
  /\ Visitable
  /\ Dead(servers[Visited + 1])
  /\ servers' = RemoveAt(servers, Visited + 1)
  /\ sv_count' = Freed(1)
  /\ idx' = Stepped - 1
  /\ pinged' = {}

PingTooSoon ==
  /\ Visitable
  /\ ~Dead(servers[Visited + 1])
  /\ servers[Visited + 1].sent < MinPing
  /\ idx' = Stepped
  /\ pinged' = {}
  /\ UNCHANGED list

Ping ==
  /\ Visitable
  /\ ~Dead(servers[Visited + 1])
  /\ servers[Visited + 1].sent >= MinPing
  /\ servers' = [servers EXCEPT ![Visited + 1] = Asked(@)]
  /\ idx' = Stepped
  /\ pinged' = {servers[Visited + 1].addr}
  /\ UNCHANGED sv_count

QRY_SV_PingServers ==
  /\ stage = "ping"
  /\ stage' = "packets"
  /\ \/ /\ GiveUp \/ PingTooSoon \/ Ping
        /\ rested' = FALSE
     \/ /\ ~Visitable
        /\ pinged' = {}
        /\ UNCHANGED <<list, walk>>
  /\ UNCHANGED <<filter, cvars, uptime>>

-----------------------------------------------------------------------------
(* An administrator sets masters_filter_servers or masters_query.          *)
SetFilter(f) ==
  /\ stage = "packets"
  /\ wanted' = f
  /\ modified' = TRUE
  /\ pinged' = {}
  /\ UNCHANGED <<list, walk, filter, masters_query, uptime, stage>>

SetMastersQuery ==
  /\ stage = "packets"
  /\ masters_query' = ~masters_query
  /\ pinged' = {}
  /\ UNCHANGED <<list, walk, filter, wanted, modified, uptime, stage>>

Rest ==
  /\ rested' = TRUE
  /\ pinged' = {}
  /\ UNCHANGED <<list, idx, filter, cvars, uptime, stage>>

Older(age, most) == IF age < most THEN age + 1 ELSE age

Tick ==
  /\ uptime' = Older(uptime, DeadTime + 1)
  /\ servers' = [i \in DOMAIN servers |->
       [servers[i] EXCEPT !.sent  = Older(@, MinPing),
                          !.heard = Older(@, DeadTime + 1),
                          !.quiet = Older(@, DeadTime + 1)]]
  /\ rested' = TRUE
  /\ pinged' = {}
  /\ UNCHANGED <<sv_count, idx, filter, cvars, stage>>

(* The first QRY_Frame has read the filters: before it no master is        *)
(* registered, and nothing can be reported.                                *)
Init ==
  /\ servers = <<>>
  /\ sv_count = 0
  /\ idx = 0
  /\ rested = FALSE
  /\ wanted \in FilterLists
  /\ filter = wanted
  /\ modified = FALSE
  /\ masters_query \in BOOLEAN
  /\ uptime = 0
  /\ stage = "ping"
  /\ pinged = {}

Frame == QRY_FL_CheckVarsModified \/ QRY_SV_PingServers

Next ==
  \/ \E reported \in Reports : SVC_QRY_ParseMasterReply(reported)
  \/ \E a \in Address : QRY_SV_PingReply(a)
  \/ Frame
  \/ \E f \in FilterLists : SetFilter(f)
  \/ SetMastersQuery
  \/ Rest
  \/ Tick

Spec == Init /\ [][Next]_vars

(* FWD_proc calls QRY_Frame in every frame, and time passes.               *)
Fairness == WF_vars(Frame) /\ WF_vars(Tick)

FairSpec == Spec /\ Fairness

-----------------------------------------------------------------------------
(* The types of the variables; however often masters report a server, it   *)
(* is on the list once; the counter that limits the list agrees with it,   *)
(* whichever of the three ways a server comes or goes; the walk is never   *)
(* beyond the end by more than the one step it takes past the last server  *)
(* (QRY_SV_new, QRY_SV_free, QRY_SV_PingServers).                          *)
TypeOK ==
  /\ servers \in Seq(Server) /\ Len(servers) <= MaxServers
  /\ \A i, j \in DOMAIN servers : servers[i].addr = servers[j].addr => i = j
  /\ sv_count = Len(servers)
  /\ idx \in -1..MaxServers
  /\ rested \in BOOLEAN
  /\ filter \in FilterLists \cup {{}}
  /\ wanted \in FilterLists
  /\ modified \in BOOLEAN /\ masters_query \in BOOLEAN
  /\ uptime \in 0..(DeadTime + 1)
  /\ stage \in {"packets", "ping"}
  /\ pinged \subseteq Address

(* A step gives up the server at i, which no filter asks for.              *)
GivesUp(i) ==
  /\ servers[i].addr \notin AddressesOf(servers')
  /\ HostOf[servers[i].addr] \notin filter'

(* A server that has answered since it is on the list is only given up     *)
(* after DeadTime of silence, although pings and answers are lost.         *)
GivenUpAfterSilence ==
  [][\A i \in DOMAIN servers :
       GivesUp(i) /\ servers[i].answered => servers[i].quiet > DeadTime]_vars

(* Once the filters are left alone, every server on the list is pinged     *)
(* again and again, although others are linked before it and unlinked      *)
(* under the index of the walk.                                            *)
PingedAgain ==
  <>[](~modified) =>
    \A a \in Address : []<>(a \notin Listed \/ a \in pinged \/ ~masters_query)

(* A server that does not answer any more leaves the list.                 *)
SilentServerGoes ==
  <>[](~modified) =>
    \A a \in Address :
      []<>(\/ ~masters_query
           \/ \A i \in DOMAIN servers :
                servers[i].addr = a => servers[i].quiet <= DeadTime)

-----------------------------------------------------------------------------
(* What the source says and the code does not do.                          *)

(* query.c:654, "remove filtered servers if any": no server of a filtered  *)
(* host is on the list.                                                    *)
FilteredAreRemoved == \A a \in Listed : ~QRY_FL_Filtered(a)
=============================================================================
