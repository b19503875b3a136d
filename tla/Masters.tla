------------------------------- MODULE Masters -------------------------------
(***************************************************************************)
(* The master servers of the proxy (query.c): a fixed array of masters,    *)
(* filled from the cvar `masters' through a name service that changes and  *)
(* fails, filled anew when a cvar was set and once a day; queries for the  *)
(* list of game servers, put off by an answer; and heartbeats.             *)
(*                                                                         *)
(* Slots are used from the front and only freed all together, so that the  *)
(* array is a sequence.  Times are kept as ages, counted no further than   *)
(* the comparisons of the code can see.  The sequence number and the count *)
(* of players in a heartbeat are left out.                                 *)
(***************************************************************************)
EXTENDS Integers, FiniteSets, Sequences

CONSTANTS
  Name,              \* names `masters' may list
  Addr,              \* addresses they may resolve to
  NoAddr,            \* a name does not resolve
  Lists,             \* values of `masters', sequences of names
  Resolutions,       \* states of the name service, functions from names
  MaxMasters,        \* MAX_MASTERS (8)
  QueryTime,         \* seconds a query is put off by an answer (1800)
  QueryTimeShort,    \* seconds between two queries (60)
  ForceReInit,       \* QW_MASTERS_FORCE_RE_INIT (a day)
  HeartbeatSeconds   \* seconds between two heartbeats (300)

ASSUME MastersAssumption ==
  /\ NoAddr \notin Addr
  /\ Lists \subseteq Seq(Name)
  /\ Resolutions \subseteq [Name -> Addr \cup {NoAddr}]
  /\ MaxMasters \in Nat
  /\ QueryTime \in Nat /\ QueryTimeShort \in Nat
  /\ QueryTimeShort <= QueryTime
  /\ ForceReInit \in Nat /\ HeartbeatSeconds \in Nat

VARIABLES
  master,             \* the used slots of the array
  init_time,          \* age of masters.init_time
  last_heartbeat,     \* age of masters.last_heartbeat
  list,               \* the cvar `masters'
  masters_query,      \* the cvar: ask masters for servers
  masters_heartbeat,  \* the cvar: send heartbeats
  modified,           \* `masters' or `masters_query' was set
  todo,               \* the names still to be added
  stage,              \* what QRY_Frame does next; "commands" is the rest of the loop
  dns,                \* the name service
  sent,               \* packets of the last step
  asked,              \* not in the code: age of the last query to an address
  heard               \* not in the code: age of its last answer

vars == <<master, init_time, last_heartbeat, list, masters_query,
          masters_heartbeat, modified, todo, stage, dns, sent, asked, heard>>

ages   == <<init_time, last_heartbeat, asked, heard>>
cvars  == <<list, masters_query, masters_heartbeat>>

-----------------------------------------------------------------------------
(* next_query is kept as the seconds until then, -1 for any time past.     *)
(* name is not in the code: the name the master was added for.             *)
Master == [name : Name, addr : Addr, next_query : -1..QueryTime]

Addresses(ms) == {ms[i].addr : i \in DOMAIN ms}

Packet(kind, a) == [kind |-> kind, to |-> a]

(* An age that nothing in the code tells from a longer one.                *)
LongAsked == QueryTimeShort + 1
LongHeard == QueryTime + 1

MutMastersInit ==    \* mutant: a heartbeat has to wait after the array was cleared
  /\ master' = <<>>
  /\ init_time' = 0
  /\ last_heartbeat' = 0
  /\ asked' = [a \in Addr |-> LongAsked]
  /\ heard' = [a \in Addr |-> LongHeard]

(* The memory is cleared, and a heartbeat is due.                          *)
QRY_MastersInit ==
  /\ master' = <<>>
  /\ init_time' = 0
  /\ last_heartbeat' = HeartbeatSeconds
  /\ asked' = [a \in Addr |-> LongAsked]
  /\ heard' = [a \in Addr |-> LongHeard]

MutForced == FALSE    \* mutant: the array is only filled when a cvar was set

Forced == init_time > ForceReInit

(* QRY_CheckMastersModified, up to the loop over the names.                *)
MutReInit ==    \* mutant: masters are added to those that are there
  /\ stage = "check"
  /\ modified \/ Forced
  /\ stage' = "adding"
  /\ todo' = list
  /\ init_time' = 0
  /\ last_heartbeat' = HeartbeatSeconds
  /\ sent' = {}
  /\ UNCHANGED <<master, asked, heard, cvars, modified, dns>>

ReInit ==
  /\ stage = "check"
  /\ modified \/ Forced
  /\ stage' = "adding"
  /\ todo' = list
  /\ QRY_MastersInit
  /\ sent' = {}
  /\ UNCHANGED <<cvars, modified, dns>>

NotModified ==
  /\ stage = "check"
  /\ ~modified /\ ~Forced
  /\ stage' = "query"
  /\ sent' = {}
  /\ UNCHANGED <<master, ages, cvars, modified, todo, dns>>

MutAddable(a) ==    \* mutant: the same master is added again
  a # NoAddr /\ Len(master) < MaxMasters

MutRoom(a) ==    \* mutant: the end of the array is one slot too far
  /\ a # NoAddr
  /\ a \notin Addresses(master)
  /\ Len(master) <= MaxMasters

(* A name that resolves to an address no master has yet, and a free slot.  *)
Addable(a) ==
  /\ a # NoAddr
  /\ a \notin Addresses(master)
  /\ Len(master) < MaxMasters

QRY_AddMaster ==
  /\ stage = "adding"
  /\ todo # <<>>
  /\ LET a == dns[Head(todo)]
     IN  master' = IF Addable(a)
                   THEN Append(master, [name |-> Head(todo), addr |-> a, next_query |-> -1])
                   ELSE master
  /\ todo' = Tail(todo)
  /\ sent' = {}
  /\ UNCHANGED <<ages, cvars, modified, stage, dns>>

Added ==
  /\ stage = "adding"
  /\ todo = <<>>
  /\ modified' = FALSE
  /\ stage' = "query"
  /\ sent' = {}
  /\ UNCHANGED <<master, ages, cvars, todo, dns>>

Due(i) == masters_query /\ master[i].next_query < 0

QRY_QueryMasters ==
  /\ stage = "query"
  /\ LET due == {i \in DOMAIN master : Due(i)}
         to  == {master[i].addr : i \in due}
     IN  /\ master' = [i \in DOMAIN master |->
                         IF i \in due
                         THEN [master[i] EXCEPT !.next_query = QueryTimeShort]
                         ELSE master[i]]
         /\ sent' = {Packet("query", a) : a \in to}
         /\ asked' = [a \in Addr |-> IF a \in to THEN 0 ELSE asked[a]]
  /\ stage' = "heartbeat"
  /\ UNCHANGED <<init_time, last_heartbeat, heard, cvars, modified, todo, dns>>

QRY_HeartbeatMasters ==
  /\ stage = "heartbeat"
  /\ IF masters_heartbeat /\ last_heartbeat >= HeartbeatSeconds
     THEN /\ last_heartbeat' = 0
          /\ sent' = {Packet("heartbeat", a) : a \in Addresses(master)}
     ELSE /\ UNCHANGED last_heartbeat
          /\ sent' = {}
  /\ stage' = "commands"
  /\ UNCHANGED <<master, init_time, asked, heard, cvars, modified, todo, dns>>

(* The loop of FWD_proc comes to QRY_Frame again.                          *)
QRY_Frame ==
  /\ stage = "commands"
  /\ stage' = "check"
  /\ sent' = {}
  /\ UNCHANGED <<master, ages, cvars, modified, todo, dns>>

-----------------------------------------------------------------------------
MutPutOff == QueryTimeShort    \* mutant: an answer puts off no longer than a query

PutOff == QueryTime

(* An answer is taken, asked for or not, if it comes from a master; what   *)
(* it reports goes to the list of servers.                                 *)
SVC_QRY_ParseMasterReply(a) ==
  /\ stage = "commands"
  /\ masters_query
  /\ a \in Addresses(master)
  /\ master' = [i \in DOMAIN master |->
                  IF master[i].addr = a
                  THEN [master[i] EXCEPT !.next_query = PutOff] ELSE master[i]]
  /\ heard' = [heard EXCEPT ![a] = 0]
  /\ sent' = {}
  /\ UNCHANGED <<init_time, last_heartbeat, asked, cvars, modified, todo, stage, dns>>

QRY_Cmd_Heartbeat_f ==
  /\ stage = "commands"
  /\ last_heartbeat' = HeartbeatSeconds
  /\ sent' = {}
  /\ UNCHANGED <<master, init_time, asked, heard, cvars, modified, todo, stage, dns>>

(* Setting a cvar marks it even if its value is the same.                  *)
SetMasters(l) ==
  /\ stage = "commands"
  /\ list' = l
  /\ modified' = TRUE
  /\ sent' = {}
  /\ UNCHANGED <<master, ages, masters_query, masters_heartbeat, todo, stage, dns>>

SetMastersQuery(b) ==
  /\ stage = "commands"
  /\ masters_query' = b
  /\ modified' = TRUE
  /\ sent' = {}
  /\ UNCHANGED <<master, ages, list, masters_heartbeat, todo, stage, dns>>

SetMastersHeartbeat(b) ==
  /\ stage = "commands"
  /\ masters_heartbeat' = b
  /\ sent' = {}
  /\ UNCHANGED <<master, ages, list, masters_query, modified, todo, stage, dns>>

(* The name service changes at any time, between two look-ups too.         *)
DnsChanges(r) ==
  /\ dns' = r
  /\ sent' = {}
  /\ UNCHANGED <<master, ages, cvars, modified, todo, stage>>

Older(age, bound) == IF age < bound THEN age + 1 ELSE age

Tick ==
  /\ init_time' = Older(init_time, ForceReInit + 1)
  /\ last_heartbeat' = Older(last_heartbeat, HeartbeatSeconds)
  /\ asked' = [a \in Addr |-> Older(asked[a], LongAsked)]
  /\ heard' = [a \in Addr |-> Older(heard[a], LongHeard)]
  /\ master' = [i \in DOMAIN master |->
                  IF master[i].next_query >= 0
                  THEN [master[i] EXCEPT !.next_query = @ - 1] ELSE master[i]]
  /\ sent' = {}
  /\ UNCHANGED <<cvars, modified, todo, stage, dns>>

Init ==
  /\ master = <<>>
  /\ init_time = 0
  /\ last_heartbeat = HeartbeatSeconds
  /\ list \in Lists
  /\ masters_query \in BOOLEAN
  /\ masters_heartbeat \in BOOLEAN
  /\ modified = TRUE
  /\ todo = <<>>
  /\ stage = "commands"
  /\ dns \in Resolutions
  /\ sent = {}
  /\ asked = [a \in Addr |-> LongAsked]
  /\ heard = [a \in Addr |-> LongHeard]

Frame ==
  \/ QRY_Frame
  \/ ReInit \/ NotModified \/ QRY_AddMaster \/ Added
  \/ QRY_QueryMasters
  \/ QRY_HeartbeatMasters

Next ==
  \/ Frame
  \/ \E a \in Addr : SVC_QRY_ParseMasterReply(a)
  \/ QRY_Cmd_Heartbeat_f
  \/ \E l \in Lists : SetMasters(l)
  \/ \E b \in BOOLEAN : SetMastersQuery(b) \/ SetMastersHeartbeat(b)
  \/ \E r \in Resolutions : DnsChanges(r)
  \/ Tick

Spec == Init /\ [][Next]_vars

(* FWD_proc calls QRY_Frame in every frame, name look-ups end, and time    *)
(* passes.                                                                 *)
Fairness == WF_vars(Frame) /\ WF_vars(Tick)

FairSpec == Spec /\ Fairness

-----------------------------------------------------------------------------
Stages == {"commands", "check", "adding", "query", "heartbeat"}

(* The types of the variables.                                             *)
TypeOK ==
  /\ master \in Seq(Master)
  /\ Len(master) <= MaxMasters
  /\ init_time \in 0..(ForceReInit + 1)
  /\ last_heartbeat \in 0..HeartbeatSeconds
  /\ list \in Lists
  /\ masters_query \in BOOLEAN /\ masters_heartbeat \in BOOLEAN
  /\ modified \in BOOLEAN
  /\ todo \in Seq(Name)
  /\ stage \in Stages
  /\ dns \in Resolutions
  /\ sent \subseteq [kind : {"query", "heartbeat"}, to : Addr]
  /\ asked \in [Addr -> 0..LongAsked]
  /\ heard \in [Addr -> 0..LongHeard]

(* No master has two slots, though two names may resolve to one address    *)
(* and a name to another address from one look-up to the next: a second    *)
(* slot would be asked twice, and an answer would put off only the first.  *)
OneSlotPerMaster ==
  \A i, j \in DOMAIN master : master[i].addr = master[j].addr => i = j

(* Since the array was filled last, a master is left alone for a minute    *)
(* after a query and for half an hour after an answer, whichever order the *)
(* two come in (QW_MASTER_QUERY_TIME and QW_MASTER_QUERY_TIME_SHORT).      *)
QueriesSpaced ==
  [][\A a \in Addr :
       Packet("query", a) \in sent'
         => asked[a] > QueryTimeShort /\ heard[a] > QueryTime]_vars

(* Packets only go to masters of the present list: once `masters' was set, *)
(* the former masters are neither asked nor told that the proxy is alive.  *)
PacketsFollowTheList ==
  \A p \in sent :
    \E i \in DOMAIN master :
      master[i].addr = p.to /\ \E k \in DOMAIN list : list[k] = master[i].name

(* When the name service and the list no longer change, the array comes to *)
(* hold the addresses the list resolves to, as many as fit: an address     *)
(* that was wrong or missing when the list was read is set right within a  *)
(* day ("so we add proper masters if there was some ip/dns changes").      *)
Holds(l, r) ==
  LET resolved == {r[l[k]] : k \in DOMAIN l} \ {NoAddr}
  IN  /\ Addresses(master) \subseteq resolved
      /\ \/ Addresses(master) = resolved
         \/ Cardinality(Addresses(master)) = MaxMasters

MastersFollowDns ==
  \A l \in Lists, r \in Resolutions :
    <>[](list = l /\ dns = r) => <>[](stage # "adding" => Holds(l, r))

(* A master gets heartbeats again and again, even if the array is filled   *)
(* anew, and the time of the last heartbeat with it, all the time.         *)
HeartbeatsGoOn ==
  \A a \in Addr :
    []<>(\/ ~masters_heartbeat
         \/ stage = "commands" /\ a \notin Addresses(master)
         \/ Packet("heartbeat", a) \in sent)
=============================================================================
