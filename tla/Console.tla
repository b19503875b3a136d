------------------------------- MODULE Console -------------------------------
(***************************************************************************)
(* The proxy as its administrator sees it: the command buffer (cmd.c),     *)
(* which runs the configuration file, the console, aliases and the commands*)
(* that commands queue; SIGHUP and the reload it causes (main.c); the whitelist *)
(* (whitelist.c); and the ban list with its file (ban.c), through clean    *)
(* exits, kills and restarts.                                              *)
(*                                                                         *)
(* A command is a record and takes one unit of the buffer.  A command that *)
(* is malformed or has no effect here is "other".                          *)
(***************************************************************************)
EXTENDS Lists, FiniteSets, SequencesExt

CONSTANTS
  Key,           \* what a filter covers: an address or a network
  FreeSpot,      \* the filter 255.255.255.255, which marks a slot as free
  Host,          \* addresses a whitelist may name
  MaxFilters,    \* MAX_IPFILTERS
  MaxWhitelist,  \* WHITELIST_MAX_ADDRS
  MaxBuf,        \* MAXCMDBUF, in commands
  Command,       \* the commands that files, lines and aliases may have
  Configs,       \* contents qwfwd.cfg may have; <<>> is also a missing file
  Lines,         \* lines the administrator may type, as commands
  MaxTime,       \* bound of the model: the clock stops there
  MaxTyped       \* bound of the model: lines typed in one behaviour

ASSUME ConsoleAssumption ==
  /\ MaxFilters \in Nat /\ MaxWhitelist \in Nat /\ MaxBuf \in Nat \ {0}
  /\ MaxTime \in Nat \ {0} /\ MaxTyped \in Nat

VARIABLES
  buf,         \* the text between text_start and text_end
  stage,       \* which call of FWD_proc is running
  reload,      \* set by SIGHUP
  wanttoexit,  \* set by quit
  whitelist,   \* its addresses; empty: no restriction
  filters,     \* the array ipfilters
  file,        \* qwfwd_listip.cfg, as commands
  cfg,         \* qwfwd.cfg, as commands
  now,         \* time(NULL)
  aliases,     \* cmd_alias: the text of every alias, by name
  loaded,      \* not in the code: the contents of qwfwd.cfg when last read
  typed        \* bound of the model: lines typed so far

vars == <<buf, stage, reload, wanttoexit, whitelist, filters, file, cfg, now,
          aliases, loaded, typed>>

loop   == <<stage, reload, wanttoexit>>
bans   == <<filters, file>>
world  == <<cfg, now, typed>>
script == <<aliases, loaded>>

-----------------------------------------------------------------------------
(* The commands.  The time of addip is seconds from `now' or since the     *)
(* epoch, zero for ever.  A name that is no command may be an alias's.     *)
Plain(op) == [op |-> op]    \* wait, writeip, quit, whitelistpurge, a name

Exec(name) == [op |-> "exec", name |-> name]

Whitelisting(op, a) == [op |-> op, addr |-> a]

RemoveIP(k) == [op |-> "removeip", key |-> k]

AddIP(k, type, time, from) ==
  [op |-> "addip", key |-> k, type |-> type, time |-> time, from |-> from]

BanIP(k, d) == [op |-> "banip", key |-> k, time |-> d]

BanRemove(id) == [op |-> "banremove", id |-> id]

Alias(name, text) == [op |-> "alias", text |-> text, name |-> name]

UnAlias(name) == [op |-> "unalias", name |-> name]

If(then, else) == [op |-> "if", then |-> then, else |-> else]

Types == {"ban", "safe"}

AddIPs == [op : {"addip"}, key : Key, type : Types, time : Nat, from : {"now", "epoch"}]

(* What a command is given.  An alias comes out of the buffer with its text*)
ASSUME CommandAssumption ==
  /\ Configs \cup Lines \subseteq Seq(Command)
  /\ \A c \in Command :
       /\ c.op \in {"whitelistadd", "whitelistremove"} => c.addr \in Host
       /\ c.op = "addip" => c \in AddIPs
       /\ c.op \in {"removeip", "banip"} => c.key \in Key
       /\ c.op = "banip" => c.time \in Nat
       /\ c.op = "banremove" => c.id \in Nat
       /\ c.op = "alias" => c.text \in Seq(Command) /\ Len(c.text) <= MaxBuf
       /\ c.op = "if" => c.then \in Seq(Command) /\ c.else \in Seq(Command)

(* What may be in the buffer: also what the program queues.                *)
Pending == Command \cup AddIPs \cup {Plain("writeip"), Exec("cfg"), Exec("listip")}

(* Registered by Cmd_Init, FWD_proc and Whitelist_Init, before any text    *)
(* runs.                                                                   *)
FirstCommands == {"exec", "wait", "if", "alias", "unalias", "unaliasall",
                  "quit", "whitelistadd", "whitelistremove", "whitelistpurge"}

(* Registered by Ban_Init, after the configuration ran for the first time. *)
BanCommands == {"addip", "removeip", "banip", "banremove", "writeip"}

(* Text goes in before or behind what is pending; if it does not fit, none *)
(* of it goes in.                                                          *)
Cbuf_InsertText(b, text) == IF Len(text) + Len(b) > MaxBuf THEN b ELSE text \o b

Cbuf_AddText(b, text) == IF Len(text) + Len(b) > MaxBuf THEN b ELSE b \o text

Executing == {"start", "bans", "cmdline", "reload", "commands"}

MutRegistered(c) ==    \* mutant: Ban_Init runs its file before it adds the commands
  \/ c.op \in FirstCommands
  \/ c.op \in BanCommands /\ stage \notin {"start", "bans"}

(* Cmd_ExecuteString finds the command c among the functions, which it     *)
(* searches before the aliases.                                            *)
Registered(c) ==
  \/ c.op \in FirstCommands
  \/ c.op \in BanCommands /\ stage # "start"

(* Cbuf_Execute has a command to run; and it is a command op.              *)
HasText == stage \in Executing /\ buf # <<>>

Runs(op) == HasText /\ Head(buf).op = op /\ Registered(Head(buf))

(* Cbuf_Execute returns and leaves `rest' in the buffer.                   *)
NextStage(s) ==
  CASE s = "start"    -> "bans"
    [] s = "bans"     -> "cmdline"
    [] s = "cmdline"  -> "top"
    [] s = "reload"   -> "commands"
    [] s = "commands" -> "network"

Returns(rest) ==
  /\ stage' = NextStage(stage)
  /\ buf' = IF stage = "start" THEN Cbuf_InsertText(rest, <<Exec("listip")>>)
                               ELSE rest
  /\ reload' = (reload /\ stage # "reload")

ExecuteDone ==
  /\ stage \in Executing
  /\ buf = <<>>
  /\ Returns(<<>>)
  /\ UNCHANGED <<wanttoexit, whitelist, bans, world, script>>

MutWait ==    \* mutant: wait does not make Cbuf_Execute return
  /\ Runs("wait")
  /\ buf' = Tail(buf)
  /\ UNCHANGED <<loop, whitelist, bans, world, script>>

Cmd_Wait_f ==
  /\ Runs("wait")
  /\ Returns(Tail(buf))
  /\ UNCHANGED <<wanttoexit, whitelist, bans, world, script>>

Cmd_Exec_f ==
  /\ Runs("exec")
  /\ LET text == IF Head(buf).name = "listip" THEN file ELSE cfg
     IN  buf' = Cbuf_InsertText(Tail(buf), text)
  /\ loaded' = IF Head(buf).name = "listip" THEN loaded ELSE cfg
  /\ UNCHANGED <<loop, whitelist, bans, world, aliases>>

Cmd_Quit_f ==
  /\ Runs("quit")
  /\ wanttoexit' = TRUE
  /\ buf' = Tail(buf)
  /\ UNCHANGED <<stage, reload, whitelist, bans, world, script>>

(* The condition compares words and variables; the text chosen runs next.  *)
Cmd_If_f ==
  /\ Runs("if")
  /\ \E text \in {Head(buf).then, Head(buf).else} :
       buf' = Cbuf_InsertText(Tail(buf), text)
  /\ UNCHANGED <<loop, whitelist, bans, world, script>>

(* alias gives a name, perhaps that of a command, a text or a new one;     *)
(* unalias and unaliasall take it away.                                    *)
Aliased(as, c) ==
  CASE c.op = "alias"      -> [name \in DOMAIN as \cup {c.name} |->
                                 IF name = c.name THEN c.text ELSE as[name]]
    [] c.op = "unalias"    -> Restrict(as, DOMAIN as \ {c.name})
    [] c.op = "unaliasall" -> <<>>

AliasCommand ==
  /\ \E op \in {"alias", "unalias", "unaliasall"} : Runs(op)
  /\ aliases' = Aliased(aliases, Head(buf))
  /\ buf' = Tail(buf)
  /\ UNCHANGED <<loop, whitelist, bans, world, loaded>>

(* The text of an alias runs in its place.                                 *)
RunAlias ==
  /\ HasText
  /\ ~Registered(Head(buf)) /\ Head(buf).op \in DOMAIN aliases
  /\ buf' = Cbuf_InsertText(Tail(buf), aliases[Head(buf).op])
  /\ UNCHANGED <<loop, whitelist, bans, world, script>>

(* A name that is unknown so far, or of something else.                    *)
Ignored ==
  /\ HasText
  /\ ~Registered(Head(buf)) /\ Head(buf).op \notin DOMAIN aliases
  /\ buf' = Tail(buf)
  /\ UNCHANGED <<loop, whitelist, bans, world, script>>

-----------------------------------------------------------------------------
(* The whitelist after the command c, or the same for other commands.      *)
MutWhitelisted(w, c) ==    \* mutant: the test of the limit is off by one
  CASE c.op = "whitelistadd"    -> IF Cardinality(w) <= MaxWhitelist
                                   THEN w \cup {c.addr} ELSE w
    [] c.op = "whitelistremove" -> w \ {c.addr}
    [] c.op = "whitelistpurge"  -> {}
    [] OTHER                    -> w

Whitelisted(w, c) ==
  CASE c.op = "whitelistadd"    -> IF Cardinality(w) < MaxWhitelist
                                   THEN w \cup {c.addr} ELSE w
    [] c.op = "whitelistremove" -> w \ {c.addr}
    [] c.op = "whitelistpurge"  -> {}
    [] OTHER                    -> w

(* The whitelist after the first n commands of text.                       *)
WhitelistAfter(text, n) ==
  LET w[i \in 0..Len(text)] == IF i = 0 THEN {} ELSE Whitelisted(w[i - 1], text[i])
  IN  w[n]

WhitelistCommand ==
  /\ \E op \in {"whitelistadd", "whitelistremove", "whitelistpurge"} : Runs(op)
  /\ whitelist' = Whitelisted(whitelist, Head(buf))
  /\ buf' = Tail(buf)
  /\ UNCHANGED <<loop, bans, world, script>>

-----------------------------------------------------------------------------
(* The filters.                                                            *)
Filter(k, type, until) == [key |-> k, type |-> type, until |-> until]

Covers(fs, k, type) == \E i \in DOMAIN fs : fs[i].key = k /\ fs[i].type = type

(* The slots addip may overwrite; it takes the first.                      *)
Spots(k) == {i \in DOMAIN filters : filters[i].key \in {FreeSpot, k}}

Until(c) == IF c.from = "now" THEN now + c.time ELSE c.time

SV_AddIP_f ==
  /\ Runs("addip")
  /\ LET c     == Head(buf)
         f     == Filter(c.key, c.type, Until(c))
         spots == Spots(c.key)
     IN  filters' = IF spots # {}
                    THEN [filters EXCEPT
                           ![CHOOSE i \in spots : \A j \in spots : i <= j] = f]
                    ELSE IF Len(filters) < MaxFilters THEN Append(filters, f)
                    ELSE filters
  /\ buf' = Tail(buf)
  /\ UNCHANGED <<loop, whitelist, file, world, script>>

(* removeip removes the first filter given in the same way.                *)
SV_RemoveIP_f ==
  /\ Runs("removeip")
  /\ LET found == {i \in DOMAIN filters : filters[i].key = Head(buf).key}
     IN  filters' = IF found = {} THEN filters
                    ELSE RemoveAt(filters, CHOOSE i \in found : \A j \in found : i <= j)
  /\ buf' = Tail(buf)
  /\ UNCHANGED <<loop, whitelist, file, world, script>>

OfType(type) == {filters[i] : i \in {i \in DOMAIN filters : filters[i].type = type}}

MutWritten ==    \* mutant: the safe filters are skipped in both loops
  LET fs == Kept(filters, OfType("ban"))
  IN  [i \in DOMAIN fs |-> AddIP(fs[i].key, "ban", fs[i].until, "epoch")]

(* What writeip writes: the safe filters, then the others.                 *)
Written ==
  LET lines(type) ==
        LET fs == Kept(filters, OfType(type))
        IN  [i \in DOMAIN fs |-> AddIP(fs[i].key, type, fs[i].until, "epoch")]
  IN  lines("safe") \o lines("ban")

SV_WriteIP_f ==
  /\ Runs("writeip")
  /\ file' = Written
  /\ buf' = Tail(buf)
  /\ UNCHANGED <<loop, whitelist, filters, world, script>>

SV_CanAddBan(k) == ~Covers(filters, k, "safe")

(* banip queues an addip, with an end if the time is not zero, and a       *)
(* writeip.                                                                *)
MutQueued(b, k, d) ==    \* mutant: the two are queued the other way round
  Cbuf_AddText(Cbuf_AddText(b, <<Plain("writeip")>>),
               <<AddIP(k, "ban", d, IF d = 0 THEN "epoch" ELSE "now")>>)

Queued(b, k, d) ==
  Cbuf_AddText(Cbuf_AddText(b, <<AddIP(k, "ban", d, IF d = 0 THEN "epoch" ELSE "now")>>),
               <<Plain("writeip")>>)

SV_Cmd_Banip_f ==
  /\ Runs("banip")
  /\ buf' = IF SV_CanAddBan(Head(buf).key)
            THEN Queued(Tail(buf), Head(buf).key, Head(buf).time)
            ELSE Tail(buf)
  /\ UNCHANGED <<loop, whitelist, bans, world, script>>

(* banremove counts filters from zero and leaves the safe ones alone.      *)
SV_Cmd_Banremove_f ==
  /\ Runs("banremove")
  /\ LET i == Head(buf).id + 1
     IN  IF i \in DOMAIN filters /\ filters[i].type = "ban"
         THEN /\ filters' = RemoveAt(filters, i)
              /\ buf' = Cbuf_AddText(Tail(buf), <<Plain("writeip")>>)
         ELSE /\ buf' = Tail(buf)
              /\ UNCHANGED filters
  /\ UNCHANGED <<loop, whitelist, file, world, script>>

Expired(f) == f.until # 0 /\ f.until <= now

InForce == {filters[i] : i \in {i \in DOMAIN filters : ~Expired(filters[i])}}

SV_CleanBansIPList ==
  /\ stage = "clean"
  /\ stage' = "top"
  /\ filters' = Kept(filters, InForce)
  /\ UNCHANGED <<buf, reload, wanttoexit, whitelist, file, world, script>>

-----------------------------------------------------------------------------
(* The rest of the loop of FWD_proc.                                       *)
MutReload ==    \* mutant: the reload leaves its commands to the next Cbuf_Execute
  /\ stage = "top" /\ ~wanttoexit /\ reload
  /\ stage' = "commands"
  /\ reload' = FALSE
  /\ whitelist' = {}
  /\ buf' = Cbuf_InsertText(buf, <<Exec("cfg")>>)
  /\ UNCHANGED <<wanttoexit, bans, world, script>>

Reload ==
  /\ stage = "top" /\ ~wanttoexit /\ reload
  /\ stage' = "reload"
  /\ whitelist' = {}
  /\ buf' = Cbuf_InsertText(buf, <<Exec("cfg")>>)
  /\ UNCHANGED <<reload, wanttoexit, bans, world, script>>

NoReload ==
  /\ stage = "top" /\ ~wanttoexit /\ ~reload
  /\ stage' = "commands"
  /\ UNCHANGED <<buf, reload, wanttoexit, whitelist, bans, world, script>>

(* FWD_update_peers, in which the console is read.                         *)
NothingTyped ==
  /\ stage = "network"
  /\ stage' = "clean"
  /\ UNCHANGED <<buf, reload, wanttoexit, whitelist, bans, world, script>>

Typed(line) ==
  /\ stage = "network"
  /\ stage' = "clean"
  /\ typed < MaxTyped
  /\ typed' = typed + 1
  /\ buf' = Cbuf_InsertText(buf, line)
  /\ UNCHANGED <<reload, wanttoexit, whitelist, bans, cfg, now, script>>

sighup_handler ==
  /\ stage # "down"
  /\ reload' = TRUE
  /\ UNCHANGED <<buf, stage, wanttoexit, whitelist, bans, world, script>>

(* The process ends: what it held in memory is gone.                       *)
Gone ==
  /\ stage' = "down"
  /\ buf' = <<>>
  /\ reload' = FALSE
  /\ wanttoexit' = FALSE
  /\ whitelist' = {}
  /\ filters' = <<>>
  /\ aliases' = <<>>
  /\ loaded' = <<>>

Exits ==
  /\ stage = "top" /\ wanttoexit
  /\ Gone
  /\ UNCHANGED <<file, world>>

(* A kill at any point; writeip may leave the first part of its file.      *)
Killed ==
  /\ stage # "down"
  /\ Gone
  /\ \/ UNCHANGED file
     \/ Runs("writeip") /\ \E n \in 0..Len(Written) : file' = SubSeq(Written, 1, n)
  /\ UNCHANGED world

Starts ==
  /\ stage = "down"
  /\ stage' = "start"
  /\ buf' = Cbuf_InsertText(<<>>, <<Exec("cfg")>>)
  /\ UNCHANGED <<reload, wanttoexit, whitelist, bans, world, script>>

EditCfg(c) ==
  /\ cfg' = c
  /\ UNCHANGED <<buf, loop, whitelist, bans, now, typed, script>>

Tick ==
  /\ now < MaxTime
  /\ now' = now + 1
  /\ UNCHANGED <<buf, loop, whitelist, bans, cfg, typed, script>>

Init ==
  /\ buf = <<>>
  /\ stage = "down"
  /\ reload = FALSE
  /\ wanttoexit = FALSE
  /\ whitelist = {}
  /\ filters = <<>>
  /\ file = <<>>
  /\ cfg \in Configs
  /\ now = 1
  /\ aliases = <<>>
  /\ loaded = <<>>
  /\ typed = 0

Execute ==
  \/ ExecuteDone \/ Cmd_Wait_f \/ Cmd_Exec_f \/ Cmd_Quit_f
  \/ Cmd_If_f \/ AliasCommand \/ RunAlias \/ Ignored
  \/ WhitelistCommand
  \/ SV_AddIP_f \/ SV_RemoveIP_f \/ SV_WriteIP_f
  \/ SV_Cmd_Banip_f \/ SV_Cmd_Banremove_f

Next ==
  \/ Execute
  \/ Reload \/ NoReload \/ NothingTyped \/ SV_CleanBansIPList
  \/ \E line \in Lines : Typed(line)
  \/ sighup_handler
  \/ Exits \/ Killed \/ Starts
  \/ \E c \in Configs : EditCfg(c)
  \/ Tick

Spec == Init /\ [][Next]_vars

(* The process runs: FWD_proc goes on, whatever is typed and edited.       *)
Proceeds ==
  Execute \/ Reload \/ NoReload \/ NothingTyped \/ SV_CleanBansIPList \/ Exits

FairSpec == Spec /\ WF_vars(Proceeds)

-----------------------------------------------------------------------------
(* The types of the variables; neither the buffer nor the filters outgrow  *)
(* their arrays.                                                           *)
TypeOK ==
  /\ buf \in Seq(Pending) /\ Len(buf) <= MaxBuf
  /\ stage \in Executing \cup {"top", "network", "clean", "down"}
  /\ reload \in BOOLEAN /\ wanttoexit \in BOOLEAN
  /\ whitelist \subseteq Host /\ Cardinality(whitelist) <= MaxWhitelist
  /\ filters \in Seq([key : Key, type : Types, until : Nat])
  /\ Len(filters) <= MaxFilters
  /\ file \in Seq(AddIPs)
  /\ \A name \in DOMAIN aliases :
       aliases[name] \in Seq(Command) /\ Len(aliases[name]) <= MaxBuf
  /\ cfg \in Configs /\ loaded \in Configs \cup {<<>>}
  /\ now \in 1..MaxTime

(* Whenever datagrams are handled the whitelist is the one of the file as  *)
(* it was last read.  A reload purges it first, and an empty list means no *)
(* restriction, so that a `wait' in the file must not let the loop get to  *)
(* the network before the rest of the file has run (FWD_proc).             *)
WhitelistIsTheFiles ==
  stage = "network" => whitelist = WhitelistAfter(loaded, Len(loaded))

(* When the proxy opens its port, every ban in the file that has not       *)
(* expired is in force (main.c:147, "so you don't have to put it in        *)
(* qwfwd.cfg"; ban.c:24, "so it can be execed at a later date").           *)
BansBackBeforeService ==
  stage = "cmdline" =>
    \A i \in DOMAIN file :
      file[i].type = "ban" /\ ~(file[i].time # 0 /\ file[i].time <= now)
        => Covers(filters, file[i].key, "ban")

(* Once nothing is pending, every ban made by banip and in force is in the *)
(* file with its end, though banip only queues the two commands that see to*)
(* it (ban.c:447-452): a restart or a kill from there on loses no ban.     *)
BansOnFile ==
  buf = <<>> =>
    \A i \in DOMAIN filters :
      filters[i].type = "ban" =>
        \E j \in DOMAIN file :
          file[j] = AddIP(filters[i].key, "ban", filters[i].until, "epoch")

(* An address has one filter at most, however it was added, removed, saved *)
(* and added again: removeip and banremove take one away, and what the     *)
(* administrator is told is removed must be gone (SV_AddIP_f, which        *)
(* overwrites the filter of the same address).                             *)
OneFilterPerKey ==
  \A i, j \in DOMAIN filters : filters[i].key = filters[j].key => i = j

(* The filters and the lines of the file, by key.                          *)
RulesOf(fs) ==
  [k \in {fs[i].key : i \in DOMAIN fs} |->
     LET i == CHOOSE i \in DOMAIN fs : fs[i].key = k
     IN  [type |-> fs[i].type, until |-> fs[i].until]]

FiltersOf(text) ==
  [i \in DOMAIN text |-> Filter(text[i].key, text[i].type, text[i].time)]

BansOf == INSTANCE BanList
  WITH rules <- RulesOf(filters), saved <- RulesOf(FiltersOf(file)), up <- (stage # "down")

(* The array of filters, shifted and overwritten by seven commands and by  *)
(* the expiry, and the file that is written from it and executed into it,  *)
(* are the list of bans and its copy, through kills and restarts (ban.c);  *)
(* no filter hides behind another of the same address.                     *)
ImplementsBanList == BansOf!ListSpec /\ []OneFilterPerKey

(* The proxy gets back to its clients for as long as it runs, although     *)
(* text makes text: files, commands that queue commands, and an alias that *)
(* runs itself and so never lets the buffer run empty, but waits in        *)
(* between (Cbuf_ExecuteEx, which stops at a wait).                        *)
KeepsServing == []<>(stage \in {"network", "down"})
=============================================================================
