# A verification project for qwfwd

qwfwd is a single-threaded UDP proxy for QuakeWorld and Quake III clients. A
client that wants to play somewhere connects to the proxy and names the server
in the `prx` key of its userinfo. The proxy opens a socket of its own for the
client, goes through the server's handshake in the client's place and from then
on relays datagrams in both directions. Beside that it keeps a list of game
servers, which it learns from master servers and pings, and tells the masters
that it is alive.

This directory holds TLA+ models of that program, the TLC runs that check them
on small instances, and proofs of the most important invariants for every value
of the constants. Paths below are relative to `src/src/`.

## Inventory

| Component | State | Operations | Talks to |
|---|---|---|---|
| Peers and relay, `peer.c` | the list of `peer_t` (client, server, socket, state, protocol, challenge, two times), `userid` | `FWD_peer_new`, `FWD_peer_free`, the two loops of `FWD_network_update`, `FWD_check_timeout`, `FWD_check_drop` | called by the main loop; calls svc, clc, bans, whitelist, net |
| Requests of clients, `svc.c` | the array of 1024 challenges | getchallenge, connect, ping, status, rcon | reads and creates peers, reads `maxclients` |
| Answers of servers, `clc.c` | none of its own | challenge, acceptance, print, disconnect, for two dialects | changes the peer whose socket was read |
| Server list, `query.c` | linked list and its counter, index of the walk, filters | new, free, ping one server, answer, filter | filled by masters, answers `pingstatus` |
| Masters, `query.c` | 8 slots, times of queries and heartbeats | re-initialise, query, heartbeat, reply | fills the server list |
| Bans, `ban.c` | 1024 filters with expiry, a file | addip, removeip, banip, banremove, writeip, expiry | `banip` goes through the command buffer |
| Whitelist, `whitelist.c` | 4096 addresses | add, remove, purge, look-up | purged at reload |
| Main loop, `main.c` | `reload`, `wanttoexit` | start, frame, SIGHUP | calls everything |
| Command buffer, aliases, exec, `cmd.c`, `token.c` | text buffer of 16384 bytes, `wait`, aliases | append, insert, execute | runs the commands of all parts |
| Variables, `cvar.c` | list and hash of cvars, `ps.info` | get, set, force, toggle, inc, `serverinfo` | `modified` flags are polled by `query.c`; mirrored values go into the info string of status answers |
| Sockets, `net.c` | the main socket, the last datagram and its sender | receive, send, open, compare | used by all network code |
| Data, `info.c`, `msg.c`, `huff.c` | none | info strings, message buffers, packet compression | used by svc and clc |
| Files and system, `fs.c`, `sys.c` | none | file access, console input, string helpers | |

There are no threads: the program is one loop (commands, sockets, timeouts,
drops, queries, bans). Its concurrency is that of its environment. Any number of
clients, servers and masters send it datagrams, which are lost, doubled, delayed
and forged at will; an administrator types commands and sends SIGHUP; time
passes. What is hard in it, and what the properties are for:

* a datagram is matched to a peer by address alone, and the peer may have been
  moved to another server, reused, or marked as dropped since the datagram was
  caused;
* handshakes are repeated, and late answers arrive in a state that has moved on;
* sockets are opened in the middle of a function with five ways to fail;
* lists are changed while they are walked, by pointer or by index;
* a limit, a ban, a whitelist or a filter changes while it is in use;
* several things are only ever done by a part of the frame that can be skipped,
  so that they are done eventually, or not;
* tables of fixed size overflow, and times are whole seconds.

`PROJECT.json` lists every hazard with its line and the properties that would
show it going wrong.

What makes each part correct: the peer table never holds two peers of a client,
leaks no socket and shares none, and what is relayed stays between a client and
its server; a server's word about the handshake is only believed from that
server and in the state it belongs to; the challenge table gives an address one
number at a time and forgets as little as it can; the server list holds no
server twice, visits all of them, and drops exactly the dead; a ban or a limit
takes effect in the end; commands run whole and in order, wherever the buffer
keeps them; a status answer has each key once and says what the variables say;
the proxy and its peer expand what the other compressed.

## Modules

| Module | Contents |
|---|---|
| `ChallengeStore` | what the challenge table promises: a function from addresses to challenges, that may forget an address only when it is full and a new one asks |
| `ChallengeTable` | the table as the code keeps it: an array, the search, the choice of the oldest; implements `ChallengeStore` |
| `ChallengeHistory` | how many addresses came since another did, counted beside the table, and how long a challenge is kept |
| `Forwarder` | the proxy proper: `peer.c`, `svc.c`, `clc.c` and the frame around them; extends `ChallengeStore`, whose variable it uses in place of the array |
| `ForwarderProofs` | its inductive invariant, and all its safety properties, proved |
| `ServerList` | the server list and the filters of `query.c` |
| `ServerListProofs` | its types, with the counter and uniqueness, and that servers are only given up after silence, proved |
| `Masters` | the masters of `query.c`: their array, re-initialisation, queries, heartbeats |
| `MastersProofs` | its inductive invariant, and all its safety properties, proved |
| `BanList` | what the ban list promises: a rule for each address, a copy in a file, of which a kill may leave a part |
| `Console` | start-up, command buffer, SIGHUP and reload, whitelist, bans and their file, kills and restarts: `main.c`, `cmd.c`, `whitelist.c`, `ban.c`; implements `BanList` |
| `ConsoleProofs` | its inductive invariants, all its safety properties and the refinement, proved |
| `CommandText` | what the command buffer promises: a text of limited length, of which lines are taken |
| `CommandBuffer` | the buffer of `cmd.c` as an array of bytes with the text somewhere in it; implements `CommandText` |
| `CommandBufferProofs` | its invariants and the refinement, proved |
| `Serverinfo` | variables and the info string: `cvar.c`, `info.c`, the command `serverinfo`, start-up |
| `ServerinfoProofs` | its inductive invariants, and all its safety properties, proved |
| `Huffman` | the connect packet of q3 through compression and expansion: `huff.c`, with the ends of it in `clc.c`, `svc.c` and `msg.c` |
| `HandshakeProofs` | what the handshake rests on, proved: the invariants and the refinement of `ChallengeTable`, and how long it keeps a challenge; that every string of a connect packet arrives, and that the lists of both trees of `Huffman` stay in order |
| `Lists` | the part of a list that stays, which `Console` and `ServerList` share |
| `ListProofs` | induction over numbers and what it gives about lists, for the proofs of `Console`, `ServerList`, `Serverinfo` and `Huffman` |
| `MC...` | instances for TLC |

### Forwarder

One behaviour is one run of the program. `stage` says where the frame is:
`commands` (Cbuf_Execute and the expiry of bans), `select`, `main` (the loop
over the main socket), `peers` (the loop over the peers' sockets, `cursor` being
its `p`), `timeout`, `drop`. A step is the whole handling of one datagram, one
pass of the frame, or a second that passes. `QRY_Frame`, which shares no state
with the peers except their count in a heartbeat, is not part of this frame.

* The list of peers is a function from userids. `FWD_peer_new` numbers upwards
  and links at the head, and nothing else orders the list, so list order is
  descending userid, and `Follows` is `p->next`. A peer linked while the main
  socket is read comes before every other one and is walked in the same frame,
  though `rfds` does not have its socket.
* `FWD_peer_new` gives the three outcomes `ConnectFailed`, `ConnectNew` and
  `ConnectAgain`, `SVC_DirectConnect` adds its refusals in their order.
* Times are ages: `idle` of `p->last`, `since` of `p->connect`, saturating one
  beyond the comparison that reads them. The clock does not step back.
* `sent` holds the datagrams of the last step, with their socket, destination
  and author. The three copies of a qw "drop" are one element of the set.
* `accepter` of a peer is not in the code: the server whose acceptance connected
  it last. It is written and never read by the actions.

The environment is open. Every handler is enabled for every address that can
send, whenever its socket is read, with any contents: loss, duplication, delay
and forgery of a source address are all behaviours of the model without being
modelled one by one. `PeerIgnored` and `MainIgnored` are the datagrams that are
read and thrown away.

Left out of `Forwarder`: the text of userinfo and of messages, compression, the
chaining of proxies in `prx` (it only rewrites userinfo), names and colours.
A request with a wrong version or userinfo ends, as one with a wrong challenge,
with a message and no change, and is the same disjunct. A missing key and a bad
port are both `NoPrx`; a name that does not resolve is `NoHost`. The interval of
0.05 s between probes is a choice. Errors of `recvfrom` end the inner loop like
an empty queue; those that end the program (`Sys_Error`) end the behaviour.

### ChallengeTable

`slots` is the array in zeroed memory, `IsOldest` what the search loop leaves in
`oldest`, the sentinel 0x7fffffff included (`OldestTime`), `KnownAddress` and
`NewAddress` the two ways through `SVC_GetChallenge`. The table cannot know
whether a connected q3 peer stands behind the address, so the number that peer
would force is any.

`ImplementsStore` maps an array to the function from the owners of its slots to
their contents and says that every step is a step of `ChallengeStore` or a
stutter. This is why `Forwarder` may use the store.

### ChallengeHistory

The variables `second` and `later` are not in the code; no action reads them. They
count the addresses that were new to the table in this second, and since the
beginning of the second in which an address was itself new. `KeptForATableful` is
what the table does: an address keeps its challenge until `MaxChallenges` others
have come, counted from the beginning of its second. Counted from its own answer
there may be fewer, see Findings.

### ServerList

`servers` is the linked list, head first. `QRY_Frame` is two steps, the filters
and the ping; nothing else can happen between them, except that time passes. The
function `QRY_SV_PingServers` keeps `idx` across calls and visits one server per
tenth of a second (`rested`): `Visited` and `Stepped` are its index arithmetic,
including that a walk that wraps visits the head twice. `uptime` is
`Sys_DoubleTime()`, which starts at zero, as do the times of a new server:
`heard` of a new entry is therefore the uptime. `silent` is the difference the
code takes between the last ping and the last answer. `quiet` and `answered` are
not in the code: the age of the last answer, or of the entry.

Masters are not in this module (see `Masters`): a reply of a registered master
is an event, with any servers in it. `FilterLists` are the sets of hosts the filter cvar can
resolve to. Before the first frame no master is registered, so `Init` is the
state after the first reading of the filters.

### Masters

`QRY_Frame` is the steps `ReInit` or `NotModified`, `QRY_AddMaster` once for each
name, `Added`, `QRY_QueryMasters` and `QRY_HeartbeatMasters`, between which time
passes and the name service changes: a look-up blocks, and a list takes as many
look-ups as it has names. Answers, commands and the setting of cvars come in the
rest of the loop (`stage = "commands"`).

* Slots are used from the front and freed all together, so the array is the
  sequence `master`. `modified` is true when either of the two cvars is marked,
  which is all `QRY_CheckMastersModified` looks at; both marks are cleared at its
  end (`Added`).
* `init_time` and `last_heartbeat` are ages, `next_query` is the seconds until
  then, -1 standing for any time past, as `current_time <= next_query` reads it.
* `asked`, `heard` and the `name` in a slot are not in the code: the ages of the
  last query to an address and of its last answer since the array was filled, and
  the name the slot was filled for. Actions write them and never read them.
* A heartbeat's sequence number and player count are left out, and so is what an
  answer reports, which `ServerList` has.

### Console

A step is one command, or one stage of `FWD_proc`. `stage` names the call that
is running: `start`, `bans` and `cmdline` are the three `Cbuf_Execute` of the
start-up, `top` the test of the loop, `reload` and `commands` its two
`Cbuf_Execute`, `network` FWD_update_peers, in which the console is read, `clean`
SV_CleanBansIPList, `down` no process.

* `buf` is the text between `text_start` and `text_end`, as a sequence of
  commands; its size is counted in commands, and how the text moves in the byte
  array is the question of `CommandBuffer`. `Cbuf_InsertText` and `Cbuf_AddText` drop what does not
  fit. A command runs as `Cmd_ExecuteString` finds it: the ban commands are
  unknown until `Ban_Init` (`Registered`), and a name that is no command yet may
  be an alias's, whose text runs in its place.
* `aliases` is the list of aliases and its hash at once, a map of names to texts.
  No alias has the name of a variable, which would come first.
* An `if` takes either branch: variables are not of this module.
* `Command` has every command that files, lines and the texts in them may have,
  and `CommandAssumption` says what each is given. The commands the program queues
  itself join them in `Pending`.
* `cfg` and `file` are qwfwd.cfg and qwfwd_listip.cfg; the former is edited at any
  time, a missing one is empty. Neither has a second copy in a directory that
  `exec` searches first. `writeip` may be cut short by a kill, at a whole line.
* A filter covers a key, an address or a network; `Spots`, `Until` and `Written`
  are the slot `addip` takes, its time, and the order of the file.
* `loaded` is not in the code: qwfwd.cfg as it was when last read. `typed` counts
  the lines typed, a bound.
* `writeip` finds its file writable.
* `quit` with an argument is a kill. Cvars and the commands of the command line
  are left out.

`ImplementsBanList` maps the array of filters to a function from the keys in it to
their type and end (`RulesOf`), the lines of the file likewise, and a stage other than
`down` to `up`. `addip` is then `Put`, which may also find the list full; `removeip` and
`banremove` are `Lift`, `SV_CleanBansIPList` is `Expire`, `writeip` is `Save`, `Tick` is
`Time`, `Starts` is `Start`, and an exit and a kill are `End`. So that no filter is
missing in the function because another has the same key, the property includes
`OneFilterPerKey`. Everything else is a stutter: the buffer, and with it what is still to happen, is no part of the promise.
That a file executed at a start brings the rules back is not part of it either, but
the question of `BansBackBeforeService`.

### CommandBuffer

`text_buf`, `text_start` and `text_end` are the fields of `cbuf_t`. Each of the
two functions that put text in has three outcomes: with the array as it is, with
the text moved to the middle, and overflow. `Cbuf_ExecuteEx` is one turn of the
loop: it takes a line, which `Cmd_ExecuteString` gets as `line`. What the command
then inserts and adds are the next steps; `wait` only ends the loop, and is in
`Console`. A DOS end of line, one byte that is taken off the copy of the line,
is left out.

`ImplementsText` maps the array to the text between its two ends. The promise
stated in `CommandText` is that of the comments in `cmd.c`: text goes in behind
everything, or before it with a newline, whole or not at all, and comes out in
order, line by line.

`Cbuf_AddTextEx` moves the text with `memcpy` (`cmd.c:101`), and the two places
overlap as soon as the text is longer than the distance. C leaves the result
undefined. `CopyOrders` has the orders of copying that are considered; the text
always moves towards the start, so that an upward copy (or a memcpy that is a
memmove, as that of glibc for x86-64 is) keeps it. That is what the run and the
proofs assume. With a `memcpy` that copies downwards, `ImplementsText` fails:
set `CopyOrders = {"up", "down"}` in `MCCommandBuffer.cfg` to see it. The
function beside it, `Cbuf_InsertTextEx`, uses `memmove` (`cmd.c:142`), as it has
to: it moves in both directions.

### Serverinfo

* A string is a value with a length, the string that is left without control
  characters, and the one in lower case. The info string `\key\value\...` is the
  sequence of its pairs; `Size` is its `strlen`.
* `cvars` is the list of variables and the hash at once: `Key` gives names that
  differ in case the same chain, variables are linked into both in one place, and
  nothing unlinks them. (`Cvar_Delete`, which would leave the wrong successor in
  the chain, `cvar.c:313`, has no caller.)
* `Register` is one `Cvar_Get` of the start-up, in the order of the program, or
  the `Cvar_FullSet` by which `NET_Init` gives port and address of the command
  line their place. `Console` says when commands run: while the configuration is
  read, with the first variables there, and when all are. `initialized` is
  `ps.initialized`.
* The number in a variable matters to `toggle` only: zero or not. The sum `inc`
  makes is any number.

### Huffman

One behaviour is a sequence of packets. `EncryptByte` and `DecryptByte` are one
turn of the loops of `Huff_EncryptPacket` and `Huff_DecryptPacket`; the message
grows by the byte that is compressed, which is the same as compressing a message
that is there. The tree is the memory it lives in: records with left, right,
parent, next, prev and head, the cells and the list of free cells. A node's index
is its number in the array, so the first, the node for new bytes, is 1 and no
node 0. Symbols are `Width` bits wide: 8 in the code. Of a message in `wire` the
two bytes of length are left out, which `InLen` counts. So are its limits: the
code compresses no more than `MAX_HUFF_BUF_SIZE` bytes and expands no more than the
message has room for, both beyond what a connect packet needs.

The recursion of `Huff_IncrementFreq_r` is written as two recursive functions:
`ClimbUp` raises one node after the other up to the root and keeps them on a
stack, `ComeBack` does for each of them, last first, what stands behind the
recursive call.

A tree that is left by its root at the wrong time, a bit behind the end and a
loop that gives up early leave the model without a step, which is a deadlock.
The static coder of `huff.c` has no caller and is not modelled.

## Runs

| Run | Instance | What it shows |
|---|---|---|
| `forwarder_table` | 3 clients, 3 sockets, 2 servers, qw, limit 1 or 2, 3 userids | the table under contention: types, one peer per client, sockets, limit, isolation, drops |
| `forwarder_switch` | 1 client that may be banned, 2 servers, qw and q3, 2 challenges, two whitelists, fairness | handshakes that cross a change of server or of protocol; banned clients leave; the handshake is retried |
| `forwarder_ready` | as `forwarder_switch`, q3, nobody banned | a finding |
| `challenge_table` | 4 addresses, 3 slots, 3 seconds | one slot per address, eviction, refinement |
| `server_list` | 3 servers on 2 hosts, a list of 2, death after 1, fairness | types with counter and uniqueness, death, the walk |
| `server_filter` | the same | a finding |
| `console` | 2 keys, 2 filters, a whitelist of 2 and 3 addresses, 2 files, 8 lines of which 3 are typed, 3 seconds, fairness | the whitelist is the file's, bans are on file and back before service, the array and its file implement `BanList`, the loop gets back to the clients |
| `console_listip` | 4 filters, a buffer of 3 commands | a finding |
| `masters` | 3 names, 3 addresses, 2 slots, 2 lists, 3 states of the name service, fairness | uniqueness, spacing of queries, packets follow the list, recovery, heartbeats |
| `command_buffer` | an array of 8 bytes, lines of less than 4, 4 texts to insert, 2 to add | the array implements the text; commands stay apart |
| `serverinfo` | 3 variables, 5 names, 6 values, an info string of 21 bytes | unique keys, size, mirroring, protection |
| `huffman` | bytes of 3 bits, 4 of them printed, strings of up to 6 | the string arrives; the trees are Huffman trees |

Bounds, and why they are enough. Two clients are what it takes to confuse their
peers; the third, with a limit of two, makes the table full while a peer is
dropped and not yet freed. Three sockets let a new peer take over a socket that
was just closed. `MaxUserid` ends a behaviour's supply of new peers, not its
length: each client can leave and come back, and every other action goes on; a
peer is only compared by the order of its number. Two servers are what it takes
to be on the wrong one, and one client is enough there because peers of
different clients share nothing but the table and what a socket receives after it
changed hands. `forwarder_table` covers both: its clients turn from one of two
servers to the other and take over each other's sockets, so that late words of a
server the client has left, and words for another client of the same server, are
among what `RelayIsolation` has to keep apart. Its protocol is qw; that a q3 peer
stays connected when it turns makes no difference to that property, which is
proved for both.
Two challenge numbers make right and wrong; 0 is a third, of a peer that has
none. Ages need one value beyond each comparison: the real 15, 2 and 1 seconds
become small numbers that keep the comparisons apart, and in `forwarder_ready`
some are zero, which only makes retries more frequent. The challenge table needs
one address more than slots, and three seconds for a tie and two orders. In the
server list one server more than fits reaches the limit, two ports of a host
reach the filter's look-up, and a death time of one tick passes within the walk.
All safety properties, but that the code of `huffman` is as short as any, are also
proved without these bounds, see below.

In `console` two keys and two filters fill the list; the lines typed have the
two kinds of ban (with and without end), both removals, a safe entry, a line
that leaves commands in the buffer behind a `wait`, an alias that runs itself
after a `wait`, and the end of aliases; one file defines an alias that bans, the
other one with the name of a command that is registered only later. Three lines are enough to
ban, displace and remove, or to ban twice and quit. The buffer is large enough
there for a file, a line and what they queue: the limit is the question of
`console_listip`. Each of its two files has one `wait`. A second one in the same
file would let the loop reach the network with an unfinished whitelist: one is
absorbed by the `Cbuf_Execute` of the reload, the next by that of the frame. The
typed lines leave the whitelist alone, since what an administrator types on top
of the file is not the file's; bans are only made by `banip`, since an `addip`
typed by hand is on file only after a `writeip`.

In `masters` two slots and three names fill the array, with a third that is left
out, two names of one address, or a name that does not resolve until later. The
intervals 3, 1, 3 and 2 stand for 1800, 60, 86400 and 300 seconds; that a day is
no longer than the long interval only makes re-initialisation more frequent.

In `command_buffer` the texts are an empty line, two commands in one, a quoted
semicolon, and one that fits only into an empty buffer; added are one command and
two. Eight bytes make the text meet both ends, be moved in both directions, with
and without overlap, and overflow; a line of four bytes is too long. Every text
that is added ends in a newline, as the only caller of `Cbuf_AddText`, `ban.c`, writes
it; whatever the console and the files have is inserted, and gets its newline there.

In `serverinfo` a readonly star variable, a mirrored one and a noset one stand
for the program's; names and keys are theirs, the mirrored one's in capitals, and
one of no variable. Values are empty, ordinary, too long for a key, with a
quote, with a control character that is thrown away, and with nothing but one. The info string has
room for the star key and one other, or two short ones.

In `huffman` six bytes of a 3 bit alphabet with one that readers skip, and the
end of the string, make trees of up to eleven nodes, in which nodes change places
in every way the code tells apart: with a neighbour, a sibling, an uncle and a
parent, and cells are freed and used again.

Symmetry is used for clients and sockets (addresses, in the challenge table)
only in runs without liveness. Deadlock is checked everywhere but in the
challenge table, whose clock and supply of numbers end by the bounds.

Fairness. `FWD_proc` is an endless loop, `select` waits at most 100 ms, and each
pass over a list ends, so each stage of a frame is left (weak fairness of
`Loop`, of `Frame` in `ServerList` and `Masters`, of `Proceeds` in `Console`), provided that a socket's queue runs empty
at some time: `peer.c:249` has no bound on the datagrams it reads at once, and
under a stream that never ends the proxy does nothing else. Time passes (weak
fairness of `Tick`). No fairness is assumed of any client, server, master or
administrator.

`BannedClientLeaves` is the reason that the ban check may stand at the reading of
a datagram only: a ban silences the client, silence times the peer out, the peer
is freed, and a new one cannot be asked for. `ChallengeRepeated` is about a retry
that sits in a loop which a frame without input skips. `MastersFollowDns` is the
reason of the daily re-initialisation: nothing else looks a name up again, so a
name service that fails once at start-up would cost the masters for good, as it
costs them up to a day now. `HeartbeatsGoOn` holds although every
re-initialisation forgets when the last heartbeat was sent. `KeepsServing` says
that `Cbuf_Execute` returns however text makes text; it is false of an alias that
runs itself without a `wait`, which would hang the proxy, and the lines typed
have none. Starting again after a kill is left to the administrator.

## Findings

* `forwarder_ready`: a connected q3 client that connects to another server is
  told that it is connected, without that server having been asked, since the
  state is kept and `to` is not (`peer.c:71-72`). For qw the state is reset, and
  `ConnectedToAccepter` is proved.
* `server_filter`: of the servers of a filtered host one is removed.
* `console_listip`: a file of bans longer than the command buffer, some hundreds
  of filters of the 1024 allowed, is not restored at a start, not even in part.

Smaller ones, which the models have and no run is spent on:

* `svc.c:19-21` says that `MAX_CHALLENGES` is large so that challenges are not cycled
  out before their owners connect. Times are whole seconds and ties go to the
  first slot (`svc.c:85`): once all slots are of one second, each new address of
  that second takes slot 0 from the one before it, however large the table is.
  `KeptForATableful` is what remains of the promise: it counts from the beginning of
  the second.
* A full proxy refuses a client that already has a peer: the test in `svc.c:240`
  precedes the look-up; the one in `peer.c:59`, marked "for NEW peer only", is
  where the comment wants it.
* The silence of a server that never answered is counted from the start of the
  program, not from its entry in the list (`query.c:473`): a server that joins
  after an hour of uptime and loses its first ping is given up at its second
  visit. `GivenUpAfterSilence` is therefore about servers that have answered.
* A value that does not fit, is 64 bytes long or longer or has a quote in it
  changes the variable and not the info string, without a message:
  `ChangesMirrored` names these exceptions to "mirrored to serverinfo"
  (`cvar.h:59`).
* A key with a control character is removed from the info string as it is given
  and appended without that character (`info.c:162-182`), so it may be there
  twice. `KeysUnique` is about keys without.
* A ban of 255.255.255.255 marks its own slot as free (`ban.c:182`): the next `addip`
  overwrites it, and gives an address that has a filter behind it a second one.
* `memcpy` of overlapping bytes in `Cbuf_AddTextEx`, see `CommandBuffer`.

## Proofs

`ForwarderProofs` proves, for every value of the constants that satisfies
`StoreAssumption` and `ForwarderAssumption` (socket and server names distinct
from the special ones, natural bounds, finite sets nowhere required beyond what
a finite number of peers needs), that `Inv` is an invariant of `Spec`:

* `TypeOK` says that the cursor points to a listed peer exactly in the loop;
* `OnePeerPerClient` is inductive because `ConnectNew` needs a client without a
  peer, whatever state that peer is in, and nothing else changes `from`;
* `SocketsOwned` needs both of its halves: a new peer takes a socket that is not
  open, hence no peer's, and a drop closes sockets that no kept peer shares;
* `PeerLimit` needs that the number of peers is finite and that the limit
  compared was one of `Limits`, though it may be lower the next second;
* `RelayIsolation` is about the last step only: what goes to a client must have
  come in on the socket of its own peer, from the server this peer is on. The
  proof needs the types and, for `ClientData`, that the peer found by address is
  the client's;
* `ConnectedToAccepter` and `NoDroppedBetweenFrames` are carried through the
  stages: the latter holds in `commands` and `select` because the drop pass is
  the only way there and nobody drops a peer in them. `NoSocketLeft`, which the run
  checks, is `SocketsOwned` and `NoDroppedBetweenFrames` together: a peer that the
  drop pass forgot would keep its socket.

`DropIsFinal` and `ChallengeFixedOnceConnected` are action properties proved of
every step from a state with `Inv`. There is one lemma per action, with a step
for each conjunct it can disturb.

`HandshakeProofs` proves, of the challenge table, `OneSlotPerAddress` with the strengthening
`TypeOK` and `UnusedAreOldest` (an unused slot has time 0, a used one a later time: without it
the search might evict an owner while a slot is free) and from it the refinement
of `ChallengeStore`: the owners after an answer are those `Owners` allows, and
the cardinality argument there is that a table with an unused slot has fewer
owners than slots. `KeptForATableful` is proved with `HistoryInv`: for each
address, the slots besides its own that are of its second or later are no more than
were counted (`NotOlder`), and those of this second no more than `second`
(`OfThisSecond`). So when its slot is the oldest, all others were counted. Assumed
are clocks that stay below the sentinel.

Of the coder it proves `StringArrives`, `NeverShort` (the test of the end of the
packet never ends the expansion early) and `TreesInOrder`, the half of
`HuffmanTree` about the lists: for bytes of any width, any alphabet and strings of
any length, with `HuffmanAssumption` only.

* The inductive invariant is `Alternation`. That both sides have the same tree is
  true of no state but the first and the last, for the decoder is behind. So the
  invariant names the sequence of trees both go through and where on the wire the
  bits of each byte end (`Sent`): the encoder has the last of these trees, the
  decoder the one after as many bytes as it wrote, and it stands at that cut
  (`Agreed`); what it wrote is what the encoder had printed (`Copied`). A byte of a
  step is decoded right because a tree sends each byte in bits it reads as that
  byte: `PathDecodes` for a byte the tree has, `ByteDecodes` with `ValueOfBits` for one
  that is sent behind the path of the node for new bytes.
* This needs that the tree is a tree. `Stable` is its form between two bytes: the
  pointers make a binary tree (`Shape`); the list has each node at its place `pos`,
  ordered by frequency, with a cell for each frequency that holds the last node of
  it, and a chain of free cells (`Listed`); an inner node weighs what its children
  weigh (`Sum`); the node for new bytes, its sibling and their parent begin the
  list. `TreesInOrder` follows from it (`StableInOrder`).
* Inside `Huff_IncrementFreq_r` less is true. `Growing` allows one node to be one
  behind its children, the one to be raised next. Raising a node swaps it with the
  last of its frequency, which must not be one of its ancestors; the list shows
  that, as every node is before its parent there, with one exception the code
  provides for: s, the sibling of the node for new bytes, weighs as much as their
  parent a, and once raised it has passed it. `Climbing` says which of three
  states this is in (`Plain`, `Caught`, `Past`), `Descending` that s is still to be put
  back or has been, on the way back through the recursion. This is where the line
  that looks superfluous, the exchange behind the recursive call, is needed.

`MastersProofs` proves that its `Inv` is inductive: to the four properties it
adds `FromTheList` (while the array is being filled or in use, and until `masters`
is set, its names and those still to be added are on the list, which is what a
polled flag amounts to) and `NotBefore` (`next_query` has not passed while the last
query or answer is too young, and addresses that are no master's have neither).
`QueriesSpaced` is an action property and follows from `NotBefore`. The one
assumption it needs beyond types is that the short interval is not the longer:
otherwise an answer would bring a query forward.

`CommandBufferProofs` proves, for any size of the array and any texts, that the
text stays inside it, that commands stay apart, and that the array implements
`CommandText`. `TypeOK` is inductive by itself. The refinement has one lemma per
outcome: which bytes an array holds after bytes were written somewhere in it, and
that an upward copy to an earlier place leaves the text as it was. Assumed: the
order of `memcpy` is upward, and for `CommandsApart` that added texts end in a
newline.

`ServerinfoProofs` proves `TypeOK`, `KeysUnique` and `Protected` with the
inductive invariant `IInv`. It adds to the first two where the readonly and
mirrored variables come from: they are of the program, and while the first
variables are registered the info string has the keys of variables only, so that
a variable never finds its key, in other letters, put there by a command. Assumed
are names without control characters (`PlainNames`), and that mirrored variables
of the program whose names begin with a star are readonly (`StarsReadonly`), as
its only one is.

`InfoFits` and `ChangesMirrored` need more, `FitInv`: the info string fits, and its
values have no control characters. Both are proved of every way a pair is
removed, appended or refused, from what the size of an info string is after a
pair was taken out of it or put behind it. The delicate case is that
`Info_SetValueForStarKeyEx` removes the old pair before the second test of the size
can refuse the new one: the first test covers it, and it is made only when the
old value is not empty (`info.c:150-178`). A value that is nothing but control
characters is stored as an empty one, so its pair may indeed be lost when the next
value is refused; an earlier form of `ChangesMirrored`, by which the info string then
is as it was, is not true of the code. Nobody who looks a key up can tell, and
that is what the property says now: each key has the value it had.
`ChangesMirrored` also assumes that no variable of the program has an empty name
(`NamesNotEmpty`).

`ServerListProofs` proves that `TypeOK` is inductive together with `Heard`: the age
of an answer and the silence the code computes agree. What is left of the list
after a filter, and what a master's report makes of it server by server, are
recursions over the list; the proofs go along them (see below).
`GivenUpAfterSilence` is an action property of every step from such a state. No
assumption is made beyond `ServerListAssumption`.

`ConsoleProofs` proves the types of `Console` with `IInv`, which adds that the file of
bans is `OrderedFile`: commands with absolute times, no more than there are
filters, the safe ones first, also when `writeip` was cut short; and that an alias
has the text of some `alias` command. Three of the other properties each have an
invariant of their own, and are theorems about the behaviours in which certain
texts find room in the command buffer, since `cmd.c` drops a text that does not
fit with a message only:

* `BansReachTheFile` (`BansOnFile`). `QueueInv` says that in the pending text every
  ban is followed by a `writeip`, except for the lines of the file itself while
  `Ban_Init` executes them; `FiledInv` that a `writeip` is pending or every ban is on
  file. It needs `[]RoomToQueue`: `banip` never finds the buffer so full that its `addip`
  goes in and its `writeip` does not. Assumed is `NoBansByHand`: files, lines and aliases
  make bans by `banip` only, since a ban added by `addip` is on file only after a `writeip`
  by hand.
* `BansComeBack` (`BansBackBeforeService`). `BackInv` counts the lines of the file that
  were executed: they are in force, the others come first in the buffer, and there
  are no more filters than lines, so that none is refused. That safe entries are
  written first is needed here: `addip` of a safe entry displaces a ban of the same
  key, never the other way round in a file of this order. It needs
  `[]RoomForList`, which is the finding of `console_listip` turned into a hypothesis,
  and assumes `ConfigsLeaveBans` (qwfwd.cfg has no commands of the bans, nor an `if`
  or an alias that could hide one) and `FreeSpotIsNoKey` (nobody bans
  255.255.255.255, the mark of a free slot).
* `WhitelistFollowsTheFile` (`WhitelistIsTheFiles`). `RestrictInv` follows the execution of
  qwfwd.cfg: it is still to be read (`Fresh`), or q of its commands were executed
  and the whitelist is what they make of the empty one (`Going`), the stage being one
  from which the rest runs before the network does. Assumed are `PlainConfigs` (a file
  waits once at most and executes no other text; see above for what a second wait
  does) and `OnlyTheFileRestricts` (neither lines nor aliases have commands of the
  whitelist, nor do they execute a file). It needs `[]RoomForConfig`.

`KeepsTheList` (`ImplementsBanList`) needs of the array only that no key is in it twice
(`Once`), which `OneFilterEach` states by itself and the property includes: `addip` takes the
first slot of its key or a free one, which is no better than a new one only because no
slot is ever free: it would have to be marked by a ban of 255.255.255.255
(`FreeSpotIsNoKey`). Otherwise a free slot in front of a filter would give its key a
second one, and `removeip` would take away only the first of them. The refinement has a
lemma for what each change of the array does to the rules: with a filter put
(`RulesPut`), taken out (`RulesLifted`) or without those that are over (`RulesExpired`);
and one for the file, of which every first part has rules of the array and the whole has
all of them (`RulesWritten`), though it is written in another order.

The instance of the run `console` satisfies all these assumptions, and every one
of its states has the room and satisfies these invariants: TLC was
given them as invariants before they were proved. So the theorems are not about
an empty set of behaviours, and in `console_listip`, where the room is missing,
the property fails.

What a recursive function computes is proved by induction over numbers. The
library's theorems take the predicate as an operator, which the provers cannot
instantiate; `ListProofs` takes the set of the numbers that have it instead
(`InductionTo`, from the least element of a set of naturals) and derives from it that
the recursive functions of the models satisfy their equations (`RecursionTo`), that
`Kept` picks the elements of a list in their order and as many as there are
(`KeptPicks`, `KeptLength`), and so on.

Only model-checked: liveness (`BannedClientLeaves`, `ChallengeRepeated`,
`PingedAgain`, `SilentServerGoes`, `MastersFollowDns`, `HeartbeatsGoOn`, `KeepsServing`), which is out of this prover's reach, and `Optimal`, the
other half of `HuffmanTree`: it compares a sum over the leaves with a merge of the
sorted counts, both of which would need induction over trees of any form. The findings are counterexamples of TLC.

## Not modelled, and the plan

Not modelled: the expansion of variables and the splitting of a line into words (`cmd.c`, `token.c`); reading and writing of messages beyond the
string of the connect packet (`msg.c`); errors of sockets (`net.c`); the static
coder of `huff.c` and `Cvar_Delete`, which nothing calls.

Worth doing next, in this order:

1. `Session`: a client, the proxy and a server in a closed system with losses,
   to ask whether a handshake gets through, and what a silent network does to
   the retry that `select` can skip.
2. `Masters` and `ServerList` composed, the report being a step of both.
3. A clock that steps, for the ages of `Forwarder`.

Left out for good: formatting and parsing of text, logging, file access, the
Windows and DLL variants, and the duration of steps (a blocking name resolution
stops the whole proxy, which no model of steps shows).
