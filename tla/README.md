# A verification project for ircII

ircII is a terminal IRC client in C: one process, one thread, a `select()` loop
(`source/irc.c`, `irc_io()`), and global tables that every command, timer and
server message reads and writes. What makes it hard is not parallelism but
re-entrance and order: a handler calls `close_server()`, which calls the
channel code, which changes windows, whose upkeep closes other servers; a
decision taken when a line was typed is carried out when the network answers,
many loop iterations later, against tables that have changed since.

## Inventory

| Part | State | Operations | Interacts with |
|---|---|---|---|
| server list (`server.c`) | `server_list[]`: descriptors, `flags` (CONNECTED, LOGGED_IN, CLOSE_PENDING, CLEAR_PENDING), `connected`, `eof`, `close_serv`, `res0`, group, channel list; `primary_server`, `from_server`, the counter `times` | `/SERVER`, `/DISCONNECT`, `connect_to_server`, `do_server`, `login_to_server`, `get_connected`, `close_server`, `remove_from_server_list` | windows, channels, WHOIS queue, parser |
| windows (`window.c`) | window list, `server`, `prev_server`, `server_group`, `sticky`, current channel | `/WINDOW ...`, `new_window`, `delete_window`, `window_set_server`, `window_check_servers` | servers, channels, screens, hold, lastlog |
| channels (`names.c`) | per server a list: name, `connected` (LIMBO, JOINING, JOINED, ...), nicks, mode, window | join, part, kick, mode, `switch_channels`, `reconnect_all_channels`, moves between servers | windows, servers |
| WHOIS queue (`whois.c`) | per server a FIFO of requests | `add_to_whois_queue`, one handler per numeric, `clean_whois_queue` | servers, notify, ignore, DCC |
| DCC (`dcc.c`) | list of clients: type, flags, descriptors, counters | offer, accept, `dcc_check`, `register_dcc_offer`, close | CTCP, main loop |
| CTCP (`ctcp.c`) | per server flood table, encryption keys | `do_ctcp`, replies, `ctcp_refresh_flood` | parser, DCC |
| flood (`flood.c`) | table of users with a count and a time | `check_flooding` | parser |
| notify (`notify.c`) | list of nicks with a state | `do_notify`, `notify_mark` | WHOIS queue (ISON) |
| `/QUEUE` (`queue.c`) | named lists of commands | add, do, show, flush, list | alias |
| hold (`hold.c`) | per window a list of held lines | `add_to_hold_list`, `remove_from_hold_list`, `hold_output`, `hold_mode` | screen |
| timers and prompts (`edit.c`, `input.c`) | a sorted list of timers, a queue of prompts | `/TIMER`, `execute_timer`, `add_wait_prompt` | main loop |
| processes (`exec.c`) | `process_list[]`: pipes, exit state, server, target | `/EXEC`, `do_processes`, `check_process_limits` | servers, main loop |
| line input (`newio.c`) | per descriptor what was read and not used | `dgets`, `new_select`, `new_close` | processes, servers, DCC |
| display (`window.c`, `screen.c`, `output.c`, `translat.c`) | one line at a time: the buffer it is read into, and its bold, reverse, underlined and coloured state | `split_up_line`, `output_line` | windows, hold, lastlog |
| main loop (`irc.c`) | descriptor sets, signal counters | `irc_io`, handlers | everything |
| scripting (`alias.c`, `if.c`, `hook.c`, `list.c`) | aliases, hooks by serial number | `/ALIAS`, `/ON`, `do_hook` | everything |
| ignore, lastlog, history, log | lists | add, remove, search | output |
| parser (`parse.c`, `numbers.c`, `notice.c`) | the message being handled, its level and sender; nickname, modes, away | one handler per message | everything |
| ICB (`icb.c`) | the packet being read, the one group, a count of lines of members | one handler per packet | channels, servers |
| keys (`keys.c`), input line (`input.c`, `history.c`) | bindings in nine maps, the meta keys hit; the line, cut buffer, questions, history | `/BIND`, `/TYPE`, `edit_char`, the editing functions | prompts, everything typed |
| TLS and proxies (`ssl.c`, `server.c`) | what OpenSSL holds, the stage of the login | `ssl_read`, `login_to_server` | line input |
| variables (`vars.c`) | the table with what global script and user have set, the two files that a start loads | `/SET`, `/SAVE`, a new start | everything that follows a variable |
| screens, terminal, status, help, menus, crypto, portability | display and data | - | - |

`PROJECT.json` lists them all with what is modelled, and under `hazards` the
lines where things can go wrong in a way tests hardly reach.

What makes each correct: the server list keeps the user connected, never closes
the working connection before the new one works, undoes all of a failed switch
and leaves no connection behind; the windows name only live servers; channel
lists survive a failed switch; the WHOIS queue pairs each reply with its
request; DCC never confuses two transfers; hold releases lines in order and
counts them right; bounded tables stay bounded; timers fire in order and once.

## Modules

| Part | Modules | Proofs | Checked in |
|---|---|---|---|
| servers, switching between them | `Servers` | `ServersProofs`, `SwitchProofs` | `ServersSwitch`, `ServersAll`, `ServersLive`, `ServersRefused` |
| WHOIS queue and notify list | `Whois` | `WhoisProofs` | `PartsWire`, `PartsLive` |
| channels and nicknames | `Channels` | `ChannelsProofs` | `PartsWire` |
| DCC | `Dcc` | `PartsLiveProofs` | `PartsTalk`, `PartsLive` |
| hold mode, display, log | `Paging` | `PagingProofs` | `PartsAll` |
| lines of the screen made of a long one | `Splits` | `PagingProofs` | `PartsTalk` |
| the command WHO | `Who` | `PartsUserProofs` | `PartsTalk` |
| processes | `Exec` | | `PartsAll` |
| windows of a screen | `Windows` | | `WindowsAll`, `WindowsFreed` |
| timers | `Timers`, which implements `Alarms` | `PartsLiveProofs` | `PartsLive` |
| lines of a connection, TLS, proxy | `Streams` | | `PartsNet`, `PartsLive` |
| login: nickname, modes, away | `Login` | `PartsNetProofs` | `PartsNet` |
| messages, their levels and CTCPs | `Messages` | | `PartsNet` |
| floods | `Floods` | `PartsNetProofs` | `PartsNet` |
| ignores | `Ignores` | `PartsNetProofs` | `PartsNet` |
| channels in windows | `Targets` | | `PartsNet` |
| ICB | `Icb` | | `PartsNet` |
| input line and history | `InputLine` | | `PartsUser` |
| key bindings | `Keys` | | `PartsUser` |
| hooks | `Hooks` | `PartsUserProofs` | `PartsUser` |
| aliases | `Aliases` | | `PartsUser` |
| expressions | `Expressions` | | `PartsUser` |
| `/QUEUE` | `Queues` | `PartsUserProofs` | `PartsUser` |
| `/LOAD` | `Loading` | | `PartsUser` |
| loops | `Loops` | | `PartsUser` |
| variables, `/SET`, `/SAVE` | `Settings` | | `PartsUser` |

Names of the modules are disjoint, so that a module `MCParts...` can extend several
and let the initial state choose which one a behaviour is of: few runs, each with
many properties (see "Several components in one run"). A property that a run
checks is often a conjunction of named parts, each with a comment of its own.

What is left to do, in this order:

1. Proofs: `TalkIsShown`, `WindowsArranged`, `ExecHolds`, `IcbAgreed`, `AsGiven`.
2. An abstract specification `Switch` of what a change of server promises (one
   server in use, at most one being left, never neither), implemented by `Servers`
   for a patient user: `OneSwitch` of `SwitchProofs` is most of what its mapping needs.
3. Composition of components that share a table: `Servers` with `Targets` (groups of
   windows and sticky channels), `Whois` with `Messages` (a message that waits for the
   user@host).
4. The rest of DCC (RAW, rename), of `/ON` (hooks that wait), of scripting (array
   variables) and of `/EXEC` (`-IN`, `WAIT` lists).

## Servers

State: the globals of `server.c` and the `server` field of each window, in one
record `world`. Each C function that changes them is an operator from a world
to the world it leaves, because the functions call each other in the middle of
their own updates and the order matters; each handler the main loop may run is
an action. Between two handlers only the network moves (`NetAccept`,
`NetFail`). A descriptor is abstracted to what its peer has done: `none`,
`pending` (EINPROGRESS), `up`, `dead` (refused, reset or closed).

| Operator or action | C function |
|---|---|
| `Closed`, `CloseServer` | `close_server()` |
| `WindowCheckServers`, `Prime`, `Swept` | `window_check_servers()` |
| `SetPrimary`, `SetWindow`, `MoveWindows`, `MoveChannels` | `window_set_server()`, `channels_move_server_simple()` |
| `Resume`, `ReestablishCloseServer` | `reestablish_close_server()`, end of `disconnectcmd()` |
| `LoginToServer`, `FinishSwitch` | `login_to_server()`, `login_to_server_nonblocking()` |
| `ConnectToServer`, `Dialled`, `Hung` | `connect_to_server()` and `_direct()` |
| `GetConnected`, `GroupGetConnectedNext` | `get_connected()`, `server_group_get_connected_next()` |
| `ServerEof`, `PrimaryLost`, `Redial`, `DoServer...` | `do_server()` |
| `Welcome`, `Killed`, `NoPermission`, `GetPassword`, `Banned` | the messages 001/NOTICE, KILL, 463, 464, 465 |
| `ServerCmd`, `ServerStep`, `WindowServer`, `Disconnect`, `DeleteServer` | `/SERVER`, `/WINDOW SERVER`, `/DISCONNECT` |

`get_connected()` is a loop over the list; it is written without recursion, by
the set of positions the loop reaches and the one where it ends, so that proofs
can use it. `Sane` stops the model where the code would index `server_list`
with a number that deletion left out of range.

Left out: window groups and sticky channels, `prev_server` and `/SERVER .`, the
ircio process, the separate states of the proxy dialogue (they are one answer
of `LoginOutcomes`), the kludge of `/DISCONNECT` without a server, the nicks,
modes and join state of channels.

### Runs

| Run | What it shows |
|---|---|
| `ServersSwitch` | 3 plain servers, or 2 of which each may be a TLS one and hold a channel; 1 window; `/SERVER` and `/DISCONNECT`; connects that fail or stay pending: `SwitchConsistent` (`PendingHasOneHolder`, `HolderIsUndecided`, `NoOrphan`, `ClearOnlyIfPending`), `ConnectedIsOpen`, `OldConnectionKept` (`OldServerKeptForSsl`, `KeptChannels`). Three entries are needed for a switch (two) with a failover to a third during it. A connect that succeeds at once adds no states, only ways to reach them; `ServersLive` has it. |
| `ServersAll` | 2 servers, 2 windows, every command: `TypeOK`. |
| `ServersLive` | `SwitchDecided` under `FairSpec`, 2 plain servers, in one group and in two. |
| `ServersRefused` | violation of `OldServerKept`: a refused plain connection is logged in, and the working one is closed. |

`Ssls` says which kinds of server there are (TRUE: TLS or proxy, with a
handshake that may say "wait" or fail), `Commands` and `Outcomes` what the user
and `connect()` may do. Bounds: `MaxServers` entries; above `MaxRich` entries all
servers are plain and channels are left out, so that a list of three stays
small. `Patient` restricts the user to one unfinished switch at a time, which
the properties of `ServersSwitch` need. Deadlock is not checked: a client with
no server and nothing typed is idle. In `ServersAll` windows are symmetric;
servers are not, the code orders them.

What the runs with other settings of the same constants show to go wrong, and
the properties therefore do not claim:

- `Patient = FALSE`: `/SERVER` repeated for the server being connected to closes
  the half-open connection (server.c:1350); if `connect()` then fails at once, the
  old server keeps CLOSE_PENDING and stays open without a window (`NoOrphan`).
- `"password"` in `Commands`: `password_sendline()` opens a connection whose
  windows have moved away in the meantime (`NoOrphan`).
- `"delete"` in `Commands`: `remove_from_server_list()` lowers the numbers above
  the deleted entry, not those equal to it, and no `close_serv`: windows,
  `primary_server` and a later switch name the wrong entry or none. `Sane` stops
  the model where the code would index `server_list` with such a number.
- the counter `times` of `do_server()` is never reset, so the third loss of a
  primary server in the life of the client is answered by giving up.

Fairness (`FairSpec`, used only for `SwitchDecided`): the kernel decides every
`connect()` it has started, and the main loop, which calls `do_server()` on
every iteration, serves a descriptor that stays readable or accepted. The user,
and a server's messages, owe nothing. A TLS or proxy dialogue has no limit in
the code, so `SwitchDecided` is about plain servers.

### Proofs

`ServersProofs` proves, for any number of servers, windows and channels,
`TypeCorrect` (`[]TypeOK`), `ConnectedAlwaysOpen` (`[]ConnectedIsOpen`) and
`ClearOnlyWhileClosing` (`[]ClearOnlyIfPending`), from the assumptions of
`Servers` on its constants alone. The argument: `SafeWorld` adds to the types
that each entry that counts as connected has a descriptor and that each entry
marked for clearing is marked for closing. One lemma per C function shows that
it takes a safe world to a safe world. One function does not: `Resume` marks
the old server as connected without looking whether it still is. Its result is
a `LooseWorld`, where such an entry is at least not CLOSE_PENDING, so that the
`window_check_servers()` its callers make afterwards can close it (`CheckSafe`);
this is what the mutant `SweptIfOpen` breaks.

`SwitchProofs` proves `SwitchesAreConsistent` (`[]SwitchConsistent`) and
`OldConnectionIsKept` (`OldConnectionKept`, an action property), also for any
number of servers, windows and channels, whatever `connect()`, handshakes and
peers do, plain servers and TLS ones mixed. Both theorems have the hypothesis
`OnlySwitches`: the user is patient and types `/SERVER` and `/DISCONNECT` only,
which are the constants of `ServersSwitch`; what the other commands break is the
list above. `SwitchConsistent` is not inductive: it does not say where the
windows are, and `window_check_servers()` closes what has none. The invariant is
`SafeWorld` with `OneSwitch`: every window is with the primary server, only the
primary server holds another one back, only that one is CLOSE_PENDING, and
nothing else is open. Within a handler it does not hold: the lemmas go from one
named weaker state to the next, `Ready` (dialled, the windows not moved yet),
`Failed` (the new server is closed, the old one still waits), `Gathered` (the
windows moved, what has none not closed yet), `Still` (no switch at all), in the
order of the calls. `get_connected()` is cut down to its end once
(`GetConnectedEnds`). For the action property each operator gets a second lemma,
`...Keeps`: what waits to be closed stays open unless a login succeeds, and after
the step nobody waits but entries whose channels are what they were.

Only model-checked: `SwitchDecided`, because liveness is outside the prover's
reach.

## Whois

State: the fields of `whois_queue` and `whois_stuff` of one server, the flag of
each nick of `notify_list`, what the client believes about the server (`whois`:
it sends 318; `has262`: it knows ISON), and the two halves of the TCP stream.
The server is external: it answers in order, each WHOIS by 311 and 317 or by
401, then by 318 if it `ends`. Requests have a number that only the properties
read. What kind of server and client this is (`Setting`) is in the variable
`env`, chosen by `Init` and never changed, so that one run covers several.

| Operator or action | C function |
|---|---|
| `Enqueue`, `Sent`, `Type` | `typed_add_to_whois_queue()`, `add_to_whois_queue()`, `add_ison_to_whois()` |
| `Ask`, `AskRaw` | the callers: `/USERHOST`, `/ISON`, message handlers; and `/WHOIS`, `/QUOTE`, which go past the queue |
| `NotifyAdd`, `NotifyRemove`, `DoNotify`, `NotifyMark`, `IsonMarks` | `notify()`, `do_notify()`, `notify_mark()`, `ison_notify()` |
| `WhoisName`, `WhowasName`, `WhoisLastcom`, `EndOfWhois`, `NoSuchNickname`, `IsonReturned`, `UserhostReturned` | the handlers of 311, 314, 317, 318, 401, 303, 302 |
| `DummyAnswered` | 401 for the `!nick` that marks the end on a server without 318 |
| `UnknownCommand`, `ConvertToWhois` | 421, `convert_to_whois()` |
| `Lose`, `Welcome`, `CleanWhoisQueue` | `close_server()`, 001, `clean_whois_queue()` |

Left out: how lines are shown, 301 and the other lines between 311 and 318 that
only change what is shown, the marks that JOIN, QUIT and messages put on the
notify list, the limit of forty nicks per poll, a second server's queue (it
appears only as `CleanWhoisQueue`, and with it the marks `ignore_whois_crap` and
`eat_away`, which the queues of all servers share, whois.c:70), the notify list under
a server that is not the primary one.

| Run | What it shows |
|---|---|
| `PartsWire` (part "whois") | five settings: `Modern` (ISON, USERHOST and 318; every kind of request; people coming and going; a connection lost and made again), `Ancient` (no 318), `Second` (not the primary server, nobody asked about twice at a time), `Ignorant` (neither ISON nor USERHOST, up to the crash), and one whose queue is cleaned for another server: `QueueInStep` (`OwnList`, `OwnAnswer`, `NeverStuck`), `SwallowOnlyForHead`, `MarksAreAnswers`. |
| `PartsLive` (part "whois") | `RequestsEnd` under `WhoisFairness`, `Modern` with nobody coming or going. |

The properties are claimed where the protocol and the code allow it, and other
settings show why: `Undisturbed` (both commands known, queue cleaned only for
its own sake, no USERHOST sent past the queue, whose answer would be taken for that of
a USERHOST that is queued) since an ISON that is refused stays at the head for ever
(the guard of `convert_to_whois()` leaves WHOIS_ISON out), a USERHOST that is
refused is queued again as a USERHOST, and a queue emptied while answers are
due gives the next request the answer of a forgotten one; `Unmistakable` since
the answer to the dummy query of one WHOIS ends a second one for the same nick.
When a person has left, `end_of_whois()` calls the func with the
`whois_stuff` of whoever was asked about before, so `OwnAnswer` speaks of its
contents only for somebody who is on. `HeadToConvert` (the client never goes
through a head that is not there) is violated by a 421 for a USERHOST that the user
typed by `/QUOTE` with an empty queue, on a server that does not know USERHOST (`Ignorant`):
it is no run of its own.

Bounds: two nicks (an answer can be for the right one or the wrong one) and
`most` requests (`MaxAsked`), three or four where two may be confused while a
third is asked. Fairness: the server answers what it has read and the main loop reads
what has arrived; nothing is owed of the user, and a lost connection need not
come back.

`WhoisProofs` proves `SwallowedLinesAreTheHeads`, `Spec => []SwallowOnlyForHead`
(which is about servers that know ISON and USERHOST), for any number of people,
any settings and any length of the queue. `SwallowInv` adds what the induction needs: the three queues are
sequences, every request in flight is one the server knows, so that no 421
answers it and `convert_to_whois()` never takes the head away while its lines
are kept from the user. Without the assumption the property is false.

It also proves `AnswersFindTheirRequests`, `Spec => []QueueInStep`, as generally.
The three streams say nothing of each other when one looks at the head of each, so
that the invariant (`InStep`) is about all that is queued or in flight: the numbers
in the queue rise; so do those of the requests and of the answers before them, strictly
among the messages that exist only while their entry is queued (`OwnRequest`,
`OwnReply`: ISON and USERHOST, and the dummy query where nothing else ends a WHOIS);
a message fits the entry with its number (`Fits`); every entry has the message
that will end it on the way (`EndComes`); and 318 for somebody who is on
is preceded by his 317 and 311, or they have been read and `whois_stuff` holds his
name (`LinesCome`). One lemma then says what reading an answer does, if it takes off
the queue what it ends (`ReadInStep`), one what sending requests does (`SendInStep`) and one what the server
does (`AnswerInStep`); the handlers are instances of the first. The head is the
one the answer is for because the first answer is never younger than the head
(`HeadIsNext`). The assumptions are those of the property.

## Dcc

State: `ClientList` of two clients, with at most one entry of each kind (one
file in either direction), the static `filesize`, the CTCP messages that carry
the offers through IRC, the listener and connection behind each port number,
and what the getting client has written. An entry keeps its flags; `fd` is its
`read` and `write` descriptor, `pos` the offset of its file, `count` bytes_sent
or bytes_read. TCP is external: a descriptor that is closed with unread input
resets the connection, otherwise the peer reads what is left and then the end.

| Operator or action | C function |
|---|---|
| `Search`, `DccErase`, `ReallyErase` | `dcc_searchlist()`, `dcc_erase()`, `dcc_really_erase()` |
| `DccOpen`, `Dial`, `Listen` | `dcc_open()`, for an entry that was offered and one that was not |
| `DccChat`, `DccFilesend`, `DccFilesendFails`, `DccGetfile`, `DccClose` | the commands `/DCC CHAT`, `SEND`, `GET`, `CLOSE` |
| `RegisterDccOffer`, `Withdrawn` | `register_dcc_offer()` |
| `DccCheck`, `Answered`, `Process` | the loop body of `dcc_check()` |
| `ProcessIncomingChat`, `ProcessOutgoingFile`, `SendBlock`, `ProcessIncomingFile` | the functions of the same names |

`bytesrecvd` is read uninitialised when `recv()` fails (dcc.c:1333 compares -1 as
an unsigned number); it may equal `bytes_sent` or not, and
`ProcessOutgoingFile` has both outcomes.

Left out: RAW connections, `/DCC RENAME`, the lines of a chat, offers with a
privileged port or address 0, an acknowledgement that arrives in pieces, a
second file between the same two clients.

| Run | What it shows |
|---|---|
| `PartsTalk` (part "dcc") | two listeners, files of 0, 3 and 5 in blocks of 2, acknowledgements modulo 4, every command, connections that break: `TransfersInOrder` (`CompletedIsWhole`, `OneBlock`, `NoStrayDescriptor`). Two listeners are what two crossing offers, or a transfer in either direction, need; 3 needs two blocks, 5 wraps the acknowledgement. |
| `PartsLive` (part "dcc") | `TransferEnds` under `DccFairness`, one listener, a file of 0 or 3, also when `accept()` fails. |

Other settings show why the properties are stated as they are:

- `SendsAgain = TRUE`: a `/DCC SEND` of the file being sent reopens it
  (dcc.c:896) before it finds that the transfer exists; the peer gets the first
  blocks again, and `CompletedIsWhole` fails (with a modulus large enough for the
  transfer to go on).
- `"accept"` in `Failures`: a chat forgets the listener without closing it
  (dcc.c:1112), and `NoStrayDescriptor` fails.
- two chat offers that cross leave both clients connecting to a listener that is
  closed: `CollisionConnects` is violated under the settings of `PartsTalk`.
- a file of `AckMod` bytes or more (4 GB) never ends: the acknowledgement is
  smaller than the count for ever. `TransferEnds` is about shorter ones.

`CompletedIsWhole` speaks of a completion that an acknowledgement announces; the
uninitialised comparison can report one after a reset. Fairness: the kernel decides each
connect and `dcc_check()` is called for each readable descriptor; users and the
peer's commands owe nothing. Deadlock is not checked: two clients may have
nothing to do.

`PartsLiveProofs` proves `TransfersInOrder` (`TransfersAreInOrder`) for files of any
size, blocks and acknowledgements of any width and any number of listeners, under two
assumptions that are also settings of `PartsTalk`: `~SendsAgain`, and that `accept()` does
not fail. Without either the code breaks the property, as said above. The property is
far from inductive. `DccRight` adds to it:

- *who has what* (`Fits`, `HasEntry`): a descriptor of an entry is that of the socket
  that the client listens on or accepted, or called, of the same kind of transfer; and
  the socket's ends are those of these entries. So two entries never share a
  descriptor, and what is erased is the only thing that has it.
- *one socket* (`Stream`): what may be in a stream of a listener, a refused, a closed
  and an open connection, and that only a file has anything in it.
- *one offer* (`Queued`, `Once`): of what is on its way to a client, the offer of the
  file that its peer sends now is the last of its kind, and gone once somebody has
  called its port. Otherwise an old offer could be answered in the middle of a
  transfer, and the file be emptied (`DccGetfile`).
- *the data* (`Sent`, `Written`): what the peer has written is the beginning of the
  file, what is on its way continues it, together they are what was counted, and each
  acknowledgement is a number that was written once, modulo `AckMod`.

The last part is why a completed transfer is whole although acknowledgements wrap
(`AcknowledgedIsWritten`): one that equals `bytes_sent` is `v % AckMod` for some `v` no
larger than what is written, hence `bytes_sent` is no larger either. Each step is proved
of one function of `dcc.c` for arbitrary sockets and lists, which `dcc_check()` then
chains: connection noted, input processed, dead entries erased (`Held`). `DccRight` was
first checked by TLC, with the constants of `PartsTalk`. That `MaxPorts` bounds the
listeners is not used. `TransferEnds` is only model-checked.

## Channels

State: the `ChannelList` of one server by name (`connected`, the flags CHAN_NAMES,
CHAN_MODE and CHAN_CHOP, the nicknames with `chanop`, one mode), the client's
nickname, and the two halves of the stream. The server is external: who is on
each channel, who is an operator there, the mode. It answers in order, refuses
a JOIN when it likes (471 stands for 471 to 476), ignores one of a member and a
PART of somebody else, and tells the client only about channels it is on. Its
list of names takes two lines when `channelsEnv.split`, in any division.

| Operator or action | C function |
|---|---|
| `ClearChannel`, `AddChannel`, `AddToChannel`, `RemoveFromChannel`, `RenameNick`, `IsOnChannel` | the functions of `names.c` of these names |
| `Expected`, `NamesTaken`, `ModesRestored` | `channel_mode_lookup()`; `add_to_channel()` for each nickname of a line, with `recreate_mode()` |
| `Join`, `Part`, `AskMode` | `e_channel()` and `do_channel()`; `/PART`, `/MODE` |
| `PChannel`, `PPart`, `PKick`, `PQuit`, `PNick`, `PModeOper`, `PModeModerated` | the handlers of JOIN, PART, KICK, QUIT, NICK and MODE, with `decifer_mode()` |
| `FunnyNamreply`, `FunnyMode`, `CannotJoinChannel` | the handlers of 353, 324 and 471 |
| `ConnectionLost`, `Reconnect` | `close_server()` with `mark_not_connected()`; `got_initial_version()` with `reconnect_all_channels()` |

Left out: the windows of channels (`Targets` has them), keys, limits, voice and bans, all modes but
one (+m, which stands for those that 324 shows), `!channels`, several channels in one
JOIN, NOVICE mode, what is displayed. A server whose idea of the nickname is not free
when the client comes back is not modelled (433 asks the user).

`PartsWire`, part "channels": one channel, two nicknames, two commands of the user and three
events (others joining, leaving, being kicked, opped or renamed, the mode, a
kick or a new nickname of the client, a lost connection): `ListInStep`, which is
`MembersInStep`, `ChopInStep`, `ModeInStep` and `JoiningIsAsked`. Three events are a mode
set, the loss, and the mode removed meanwhile; two commands are a question for the
modes and a JOIN that overtakes its answer. Handlers touch one entry or each
entry alike, so that one channel is enough. Deadlock is not checked: a bound, or
a user who types nothing, ends a run.

The `ChannelSettings` say where the properties are claimed, and TLC finds each violated
outside it:

- `impatient`: `/JOIN` typed after the echo of a JOIN and before the names puts
  the entry back to JOINING (edit.c:982). The server ignores the second JOIN, no
  echo comes, and the entry stays so: a PART of the client is ignored for it
  too (`JoiningIsAsked`, `MembersInStep`).
- `leaves`: a reply to a MODE asked by hand, or before a kick or part, comes
  while the channel is joined again, and sets CHAN_MODE early. Then the client
  does not learn that it is an operator, and the reply to its own MODE is only
  displayed (`ChopInStep`, `ModeInStep`); with `split`, the second line of names is
  only displayed too, and nicknames are missing (`MembersInStep`).
- `loses`: the reply to MODE only ever sets modes and the old ones are kept to be
  restored by an operator, so that a client that comes back without being one
  shows modes that are gone (`ModeInStep` asks only that none is missing).

`ChannelsProofs` proves `TypeCorrect` (`[]ChannelsTypeOK`, with each operator of a channel in
its list of nicknames) for any channels, nicknames and settings, by one lemma for
each function of `names.c` and one for each group of actions; it assumes that there
are finitely many channels, which the order of the JOINs of a reconnection needs.

It also proves `ListIsInStep` (`[]ListInStep`). No state relates the list to the server, for
what the server has changes before the client hears of it; the lines on their way do. The
inductive invariant `ListRight` says, while connected and for a user who waits, that there is
a chain of views, one before each line of `toClient` and one behind the last:

- the last view is what the server has of our channels (`ViewOf`);
- each line takes the view before it to the view behind it (`Explains`; one predicate per
  kind of line), and between the echo of our JOIN and its last line of names nothing else comes;
- the list agrees with the first view, up to the nicknames that are still to be listed
  (`Right`, by the three settings above);
- what the client waits for is on its way: for a channel being joined a JOIN, a refusal, or an
  echo that carries the name we will have when we read it; for modes it does not know, the
  question or the reply (`Asked`).

The name in the echo is why the views are needed: between the echo and the client stand
changes of nickname. Reading a line drops the first view (one lemma for each kind of line, that
the handler of `names.c` or `funny.c` does to the list what the line says), an event appends one
(`ChannelEventInTouch`, `QuitInTouch`, `RenamedInTouch`), an answer of the server some, and a
reconnection starts a chain of one (`ReconnectInTouch`). With both streams empty the chain is one
view, which is `MembersInStep`, `ChopInStep` and `ModeInStep`. The proof takes the reply to a
MODE asked by hand, a part, a kick and names in two lines as `channelsEnv` allows them. The
kinds of lines are written without spaces (`MODE_o`), as the prover takes strings.

## Paging

One window: what `rite()` does with each line of one row, the hold list, the
display with its cursor and the types of its rows, the log, and how far the user
has scrolled back. A line is its number. `UnholdWindows` is the call from the
main loop, which shows one held line in each round; everything else is a line
arriving (`AddToWindow`) or the user.

| Operator or action | C function |
|---|---|
| `HoldOutput`, `HoldMode`, `ResetHold`, `AddToHoldList` | `hold.c`, functions of these names |
| `Begun`, `MustHold`, `AddDisplayLine`, `Displayed`, `RiteNew` | the parts of `rite()`, with `window_add_display_line()` and `scroll_window()` |
| `AddToWindow`, `AddToLastlog`, `SetLastlogSize` | `add_to_window()`, `add_to_lastlog()`, `set_lastlog_size()` |
| `UnholdWindows` | `unhold_windows()`: `rite()` with `show` set, `remove_from_hold_list()` |
| `SendLine`, `ToggleStopScreen`, `UnstopAllWindows`, `Clear`, `SetHoldMode`, `WindowHoldMode`, `FlushHeld` | `send_line()`, the two key functions, `my_clear()` with `erase_display()`, `/SET HOLD_MODE`, `/WINDOW HOLD_MODE`, `/FLUSH` |
| `BackBy`, `ForwardBy`, `ScrollEnd`, `ScrollStart`, `LastlogLines` | `scrollback_backwards_lines()`, `scrollback_forwards_lines()`, `scrollback_end()`, `scrollback_start()`, `lastlog_lines()` |

`shownUpTo` and `page` are not in the code: the last line displayed, and how many
have been since the user did something. Left out: windows that do not SCROLL, lines
of several rows, SCROLL_LINES above one, changes of size, help, several windows at
once, the `Activity in window` message.

`PartsAll` (see below), part "paging": a window of two rows, five lines, HOLD_MODE_MAX none or two, LASTLOG
one or three. Two rows are the least in which half a window, a full one and a
partly filled one differ; five lines fill it, fill the hold list past its limit and
leave lines in the log that are not shown. `DisplayHolds` is `PagingTypeOK`, `InOrder`,
`PageAtMost` and `LogBounded`.

- `InOrder`: no line is lost or overtaken, whichever of the two ways it takes to
  the display.
- `PageAtMost`: in hold mode no more than a window of lines goes by before the
  user acts. HOLD_MODE_MAX is there to break that, so that it is claimed without.
- `LogBounded`: LASTLOG set in the window itself. `add_to_lastlog()` removes a line
  only when the log is exactly full (lastlog.c:523), and `set_lastlog_size()` cuts
  the log of the current window only (lastlog.c:255): make LASTLOG smaller in
  another window and this log grows without end.
- `SkippedAreSeen`: scrolling back begins behind the lines that are on the
  display. The code does not remember where that is; it counts the lines written
  since and the rows that show a logged line (window.c:484-491). The property is
  claimed for a `careful` user. TLC finds it violated by scrolling back while
  lines are held, after lines that are not logged or after `/FLUSH`, by going to
  the start of the log when lines have come since (window.c:728), and by a log that
  overflows meanwhile. After `/CLEAR` the rows keep their types, so that lines no
  longer on the display are passed over too.

`lastlog_lines()` counts the lines written since scrolling back began although it
passes over them (window.c:484), so that the user can scroll that much beyond the
oldest line.

`PagingProofs` proves `DisplayIsKept` (`[]DisplayHolds`) of its four parts: `TypesHold` (no counter
of a window goes below zero, however it is scrolled, held and cleared), `LinesInOrder` and `LogIsBounded` from one invariant (`Ordered`:
the hold list is the numbers from `shownUpTo` + 1 to `written`, the display ends at
`shownUpTo` or before), and `PagesAreSeen` from another (`PageInv`: `line_cnt` bounds
what was shown while nothing is held, and a full page sets `hold_on_next_rite`), for
any window, limits and number of lines. `NothingIsSkipped` (`[]SkippedAreSeen`) has a
third (`BackInv`): every line written is in the log, in order; the display ends with
the last line that was shown and its rows show consecutive lines, all of them logged;
and while the user has scrolled back, `new_scrolled_lines` is the number of lines held
since he began.

## Splits

One line of text on its way to the screen. `split_up_line()` reads it byte by byte into `lbuf`,
counts columns, remembers the last place where it may be broken, and when the line is too long
makes a piece of it, goes on behind the blanks, and copies the rest behind toggles that set its
state again. The text is read one letter a step, each of any kind, so that a behaviour is a
text. A letter is an ASCII character, one of two bytes, one of two columns, one that cannot be
shown, a blank, tab, bell, toggle or colour; what becomes of each is followed by number.

| Operator or action | C function |
|---|---|
| `ReadBell` ... `ReadCharacter`, `EndOfText` | the cases of the switch in `split_up_line()`, and its end |
| `Looped`, `BreakAt`, `PieceTo`, `BehindBlanks`, `Continuation`, `Rebuilt`, `Restarted` | the end of its loop |
| `BytesOf`, `ColumnsOf`, `Marked` | `decode_mb()`, `calc_unival_width()` |
| `Columns`, `Converted`, `Foreground`, `Background` | `my_strlen_i()`, `my_strlen_c()`, `my_strcpy_ci()`, `decode_colour()` |
| `Output`, `Toggled`, `Coloured` | `output_line()`, `display_highlight()`, `display_bold()`, `display_colours()` |

`PartsTalk`, part "splits": nine settings of two to four kinds of letter each, screens of 1 to 9
columns, with and without INDENT, CONTINUED_LINE of none, one and two columns, texts of up to seven letters
and four pieces (`MaxLetters`, `MaximumSplits`; the code has 80). Seven letters are two breaks
on most of these screens, and what goes wrong behind a first break shows at the second.

- `TextIsWhole` is `TextKept` (every letter is in one piece, once, in order) and `PiecesFit` (where
  every letter takes a column, CONTINUED_LINE at most one, and INDENT is off, no piece is wider than the screen, so that
  `output_line()` cuts none off).
- `AsGiven`: each letter is shown bold, reverse, underlined and coloured as what is before it in
  the text says, whatever line it comes to be on. `ShownAsGiven` is that and `TalkTypeOK`.

Why they are not claimed of more, as TLC shows of the other settings:

- `rite()` "assumes that str already fits on one screen line" (output.c:791), but a line that
  follows a break may be too wide: what is left is counted in bytes (window.c:1031) and is not
  broken before another letter is read, so that with INDENT, or a CONTINUED_LINE of more than a
  column, a rest that ends just there is longer than the screen, and its end is cut off.
- Toggles behind the place of a break are read twice, once for the state that is set again and
  once in the rest (`torn`): bold then is off where the text has it on.
- A bare `^C` does not take colours back, and one without a background is set again without it.
- A word as long as the screen that has letters of several bytes is cut at a byte, which may be
  in the middle of a letter (window.c:968 goes back by columns).

Left out: texts as long as `lbuf`, the header of the status window, letters that take no column,
encodings in which a byte is not a letter of its own.

`PagingProofs` proves `TextStaysWhole` (`[]TextIsWhole`) for texts of any length and any setting,
from `SplitsAssumption` and `ContinuedAssumption`: what CONTINUED_LINE is converted to has no letter of the text in
it and is no wider than the screen (`set_continued_line()` cuts it to half of that; that
`FlattenSeq` makes cells of letters would take an induction). The invariant `KeptInv`: the pieces
and the rest of `lbuf` together have each letter read so far, in order, and nothing else has a
number (`HeldIn`, `Kept`); the place of the last break is in the rest (`Around`), so that cutting
there loses nothing, and what is passed over behind it is blanks (`BlanksSilent`). For the
width, `FitInv`: where each letter is a column, `col` is the columns of the rest and what is put
before it (`Narrow`), and the piece that `BreakAt` cuts is at most the screen. `AsGiven` is only
model-checked: what toggles come to is counted over a text of any length.

## Who

What `/WHO` asks of a server, and which of the replies are shown. The switches of the command
are kept in the entry of the server (`who_info`), and each 352 is looked at with them when it
comes. A request keeps its words, whose replies are due, came and were shown; the last three
are for the property only. The server is external: it answers in order, each list in any order.

`Refused`, `ComesTo`, `Parsed` and `AskedFor` are the loop of `who()`, which leaves what it has
set when it ends at a bad word; `WhoreplyCheck` is `whoreply_check()`, `Replied` `whoreply()`,
`EndOfWho` 315, `LostWho` a connection that is lost.

`WhoAsAsked`: the replies shown are those of which all words of the request are true, and the
server was asked for all of them. It is claimed for a user who waits for the end of a list:
another request sets the switches anew while the rest of the first list is on its way
(edit.c:1292), which is then filtered by them. Nor is it claimed of -FILE with other switches:
whether somebody is in the file decides alone (edit.c:1505 sets `ok` to 0 whatever was found),
although help/who:21 says that switches limit the listing; nor of -REALNAME with a word, since
the hop count is before the name in what is compared. `PartsTalk`, part "who": two servers, four people, who
differ in every field, twelve commands that have each switch, and refused ones; and a user without a channel who does not wait,
with two requests on their way to a server. Left out: the header line, the abbreviations of switches, ICB.

`PartsUserProofs` proves `WhoIsAsAsked` (`[]WhoAsAsked`) for any servers, commands, people and files. The
invariant `WhoInv`: what a server has on its way is at most one request, the switches in
its entry are those of that request, and the request is `InStepWith` them. Two lemmas
about the operators carry it: what `Parsed` keeps of words none of which is refused is
all that they say (`SaysWords`), so that `WhoreplyCheck` is `Wanted`; and whoever is wanted is in
the `Answer` to what `AskedFor` sends, though that is the last pattern only.

## Exec

`/EXEC` starts a child with three pipes. Three things may then happen to it in any
order, and three functions notice them: the end of its standard output and of its
standard error (`do_processes()`), and its exit (`check_wait_status()`); or the
client closes the pipes itself (`/EXEC -CLOSE`, SHELL_LIMIT in
`check_process_limits()`). Whichever comes last takes the entry off `process_list`,
runs its `WAIT -CMD` commands and `ON EXEC_EXIT`. What the child wrote goes through
the kernel's pipe and the record that `dgets()` keeps for each descriptor.

The kernel's side is a `child` (is it running, a zombie, waited for; which of its
streams are still open, perhaps by a descendant; what is in its pipes) and `open`,
the pipe end behind each descriptor. Descriptors are given out lowest first and pids
freely, so that both are used again. A line is a piece of its own; a `part` is text
without a newline, which `dgets()` returns after a second as a prompt.

The main loop is one machine, `loop`: select, commands of the user, reading, timers,
limits, reaping. `do_processes()` and `check_process_limits()` are not atomic: each
stops after what may run a hook (`hooked`), so that a hook can start and close
processes between two descriptors, against the set `rd` that was filled before.

| Operator or action | C function |
|---|---|
| `Dgets`, `Available`, `Leftover`, `Drained`; `NewSelect`; `NewClose` | `dgets()`, `new_select()`, `new_close()` |
| `StartProcess`, `StartProcessFails`, `Added`, `DeletedIf` | `start_process()`, `add_process()`, `delete_process()` |
| `ExecClose`, `SetShellLimit` | `/EXEC -CLOSE`, `/SET SHELL_LIMIT` |
| `Select`, `EnterDoProcesses`, `LoopAgain` | `irc_io()` |
| `ReadLine`, `ReadPrompt`, `ReadEof`, `LeaveDoProcesses` | `do_processes()` |
| `EnterLimits`, `CloseAtLimit`, `LeaveLimits` | `check_process_limits()` |
| `CheckWaitStatus` | `check_wait_status(-1)` |
| `Writes`, `EndsStream`, `Exits` | the child, external |

The child acts only where the client can tell the difference, which keeps the run
small: what it writes is seen by `select()` and `read()`, its exit by `waitpid()`.
`counter`, the lines left that no hook has seen, and `cut` (the client closed a pipe
that had not ended) are there for the properties; `counter` is in the code too. `ExecHolds` is `OwnPipes`, `ExitsNoticed`, `LimitKept` and
`RemovedInFull`.

- `OwnPipes`: an entry's descriptors are its own pipe ends, whatever hooks closed
  and opened in between, every open pipe belongs to an entry, and what is buffered
  for a descriptor came from the pipe behind it. (When `fork()` fails the six
  descriptors stay open, exec.c:716: these are `LostEnd` and exempt.)
- `ExitsNoticed`: an exit is booked on the entry whose process it was, and an entry
  that has exited still has a pipe whose end will remove it, so that none stays for
  good. Claimed where a pid is not given out again while an entry has it:
  `check_wait_status()` takes the first entry with the pid, and `exited` is not
  looked at (exec.c:160).
- `RemovedInFull`: an entry goes after its process was waited for and a hook has
  seen each of its lines, unless the client cut it off. An unterminated last line is
  not a line: `dgets()` drops it at the end of the file (newio.c:212).
- `LimitKept`: SHELL_LIMIT is looked at once in each round, in which both streams
  may give a line: one more than the limit at most.

Found while reading, and not modelled: `close_all_exec()` runs in the child that
`fork()` made (exec.c:737), and calls `delete_process()` for every process listed,
which runs their `WAIT -CMD` commands and `EXEC_EXIT` hooks there, though those
processes have not exited. A prompt on standard error whose hook is not silent falls
through to the case of a line (exec.c:352), and is counted as one. `/EXEC -CLOSE`
refuses a process that has exited, so that one whose descendant keeps a pipe open
stays until that ends.

Left out: logical names, redirection, -IN, -WINDOW, signals, the list of `WAIT`
commands, the server of a process, lines longer than the buffer, TLS.

## Windows

One screen and its windows: the list of those shown, from top to bottom, and of
those hidden, each with its number, rows and status lines; the current window and
the number of the last one; the stack; how many are shown. Each C function that
changes them is an operator from a screen to the screen it leaves, since they call
each other half-way: `delete_window()` swaps, then removes; `hide_window()` removes,
which chooses a current window, then chooses again.

`/WINDOW` takes several commands in one line and keeps the window they are about in
a local variable, which some of them change, some do not, and `KILL` frees. So each
of its arguments is an action, and `local` is that variable; keys act when it is 0.
SWAP exchanges the contents of two structures, so a pane (the structure, which the
lists and `local` name) is not a window (`id`, what the user sees).

| Operator or action | C function |
|---|---|
| `SetCurrent`, `SetCurrentFrom`, `ByRefnum` | `set_current_window()`, `get_window_by_refnum()` |
| `AddedShown`, `Splits`, `HasRoom`; `RemovedShown` | `add_to_window_list()`; `remove_from_window_list()` |
| `Swapped`, `Hidden`, `Revealed`, `Deleted` | `swap_window()`, `hide_window()`, `show_window()`, `delete_window()` |
| `Balanced`, `Positioned` | `balance_windows()`, `recalculate_window_positions()` |
| `WindowNew` ... `WindowDouble`, `WindowDone` | the arguments of `windowcmd()`, with the functions they call |
| `NextWindow`, `PreviousWindow`, `SwapNextWindow`, `SwapPreviousWindow`, `SwapLastWindow`, `BackWindow` | the key functions of these names; some are arguments too |
| `RefreshScreen` | `refresh_screen()` when the terminal has changed its size |

`WindowsArranged` is `WindowsTypeOK`, `WindowsListed`, `Tiled` and `OthersGone`. An argument that
the code refuses (no such window, no room, a hidden window for REFNUM) leaves the screen as it
is and ends the line or goes on with it, as there; so do NEXT, PREVIOUS, LAST and BACK, which
are arguments and keys.

- `WindowsListed`: each window is on one list, once, with a number and contents of its
  own; a structure is on a list exactly when it is not freed; the current window is
  shown; the count is right.
- `Tiled`: windows and status lines fill the screen above the input line, without gap
  or overlap. Sizes are worked out by each function from its own few fields, with
  none, one or two status lines, and an error stays in every later result. Not
  claimed after a balance that found too few rows (`cramped`), where the code says
  one line and means none.
- `OthersGone`: HIDE_OTHERS and KILL_OTHERS leave the current window alone on the
  screen and hurt no window they are not about, though each step changes the current
  one; KILLSWAP kills the window it replaces.

`WindowsAll`: three windows that are moved and resized on 12 lines; on 7 lines, where
only two fit, stacked, or given the numbers of others; two windows with status lines of
every kind on 12 and 9 lines; two on a terminal that shrinks to 3 lines. Three are what
a window between two others needs, and one hidden between two shown. Deadlock
is checked: something can always be typed.

`WindowsFreed` drops the user's care (`careful`): showing a hidden window when none has
the four lines needed to split it frees it (window.c:1859), and `show_window()` puts it
back on the hidden list (window.c:3208). `HiddenExists` is violated.

Found while reading, and not claimed otherwise: DOUBLE on a window of one line leaves
it none. After `/WINDOW NEW` fails, or a KILL, the next arguments on the same line use
the freed window (`Usable` stops the model there). The number that BACK goes to is not
kept up when its window is renumbered or is killed while hidden, so that BACK then does
nothing or goes elsewhere.

Left out: names, menus, levels, queries and channels of windows, their servers (see
`Servers`), several screens with CREATE and DELETE, prompts for a new window,
`recalculate_windows()` for more than the first window, hooks: WINDOW_SWAP and
WINDOW_KILL may run `/WINDOW`, and `delete_other_windows()` keeps the next window
across them (window.c:2100).

## Timers and Alarms

`Alarms` says what `/TIMER` promises in four actions: a command is put off (`Arm`), taken
back (`Cancel`) or run (`Fire`), once, not before its time, the earliest first and
those of one time in the order they were given. `Timers` is how `edit.c` and `irc.c`
do it: the sorted list `PendingTimers`, the time that `execute_timer()` looked at once
and goes by, the timer that runs and stays at the head until it has, and the main
loop that works out in seconds and microseconds how long `select()` may sleep.

| Operator or action | C function |
|---|---|
| `TimerCmd`, `Slot`, `TimerRef`, `TimerDelete` | `timercmd()`, `create_timer_ref()` |
| `TimerTimeout`, `Sleeps` | `timer_timeout()`, the head of the loop in `irc_io()` |
| `Select`, `SelectEnds`, `SelectReady`, `Served` | `select()` and what follows in `irc_io()` |
| `FirstIsDue`, `TimerRuns`, `TimerRan`, `TimersDone` | `execute_timer()` |
| `Quits` | `/EXIT` |

A time is a number of ticks, `PerSecond` of them a second, so that borrowing from the
seconds is there to go wrong. `PartsLive`, part "timers": two ticks to a second,
waits of 0 and 2, three timers, a command of one timer that sets or deletes others.

- `TimersKeepPromise`: `Timers` implements `Alarms`, with the timer that runs counted
  as fired already (`Armed`).
- `SleepsLessThanASecondLate`: with a timer listed, `select()` gives up at the latest
  less than a second after it is due.
- `TimersEnd`: a timer does not wait for ever. Fairness (`TimersFairness`): the loop
  goes on (WF), and time passes while the client sleeps, however often something
  wakes it (SF). Commands of a timer end, as commands do here.

`SleepsUntilTheTimer` ("all will activate at the appropriate time", help/timer:15) is a
definition that no run checks, since it is false: `timer_timeout()` subtracts the wrong
way when it borrows (edit.c:3812), so that the client sleeps up to a second too long.
Also seen: the command of a timer may free what `execute_timer()` holds only by
`-DELETE`, which is refused while a timer runs.

`PartsLiveProofs` proves the first two for any clock, waits and number of timers. The
invariant `TimersInv`: the list is ordered by time and then by id, references in use
differ, ids are below `nextTimer`, what is listed was set no earlier than it could be,
and while a timer runs it is the head and was due. `TimersRefineAlarms` then maps every
action to one of `Alarms` or to a stutter: taking the finished timer off the list is
one. `SleepsAreShort` is arithmetic with quotients and remainders of `PerSecond`.

## Streams

One connection after another to one server: what the peer wrote (`wire`), what has come
(`socket`), what OpenSSL holds of a record (`tlsRest`), the buffer of `newio.c` (`myio`),
what `server.c` keeps of a line that has not come whole (`partial`), and the stage of the
login: connected, proxy asked, proxy answered, in.

| Operator or action | C function |
|---|---|
| `SslRead`, `SocketReadable`, `TakeLine`, `Cut`, `DgetsStep`, `Dgets` | `dgets()` with `ssl_read()` |
| `Selected` | `new_select()` |
| `LoginBegins`, `ProxyAnswers`, `HttpResponse`, `ServerIsHeard` | `login_to_server()`, `server_check_http_response()` |
| `DoServer`, `ReadLine`, `Kept` | `do_server()`, `add_to_server_buffer()` |
| `Closed`, `Disconnect`, `Reconnect` | `close_server()` with `new_close()`, `/DISCONNECT`, `connect_to_server()` |

`PartsNet`, part "streams": lines of three characters, a buffer of two, pieces of any
size, two connections. `LinesAsSent`: the parser gets the lines of this connection,
whole, in order, once. `PartsLive`, part "streams": `LinesAreRead`, every line written
is parsed or the connection closed. Fairness: what was written comes, and the main loop
serves what `new_select()` reports.

Claimed with care, and TLC shows why:

- `careful = FALSE`, `cuts = 1`: a line that comes in three pieces with more than a second between
  them has its beginning twice. `add_to_server_buffer()` is given all of `lbuf`, in
  which what was kept is already (server.c:399). `LinesAsSent` is violated.
- records longer than the buffer: `new_select()` asks the kernel and `myio`, not
  OpenSSL, so that the rest of a record waits until more comes (`LinesAreRead`). The
  buffer of `PartsLive` holds a record.
- `LoginEnds` is not run: after the proxy has answered, login goes on only when the
  server sends something (`greets = FALSE`), and with TLS it cannot, as it waits for us.
  What was kept of a line of the proxy is not let go either.

## Login

Two servers; on each what we think we are (nickname, modes, operator, away) and what
the server thinks; lines on their way in both directions, in order, lost when the
connection is. The peer is external: it refuses nicknames that are `Taken`, may change
our nickname or modes by itself, may want a password.

| Operator or action | C function |
|---|---|
| `ConnectToServer`, `LoginLines`, `ConnectionLost`, `ConnectionEnds` | `connect_to_server()`, `irc2_login_to_server()`, `do_server()`, `close_server()` |
| `Welcomed`, `YourHost`, `EndOfMotd`, `Reinstated` | 001, 002, 376, `reinstate_user_modes()` |
| `Refused`, `Resets`, `NicknameSendline`, `RefusedIsAsked` | 433, 432 and 437, `reset_nickname()`, `nickname_sendline()` |
| `NickChanged`, `UserMode`, `Operator`, `NotRegistered`, `PasswordMismatch` | NICK, MODE, 381 and 385, 451, 464 |
| `ENick`, `AwayOne`, `AwayAll`, `ModeCommand`, `Oper`, `Server`, `DisconnectCmd` | the commands |
| `OperPasswordReceived`, `PasswordSendline`, `ServerAnswers`, `Prompt` | the prompts |

`LoginAgreed` is `SessionAgreed` (once nothing is on its way, client and server agree on
nickname, modes and away, whoever changed them on what side of a login or a loss) and
`RefusedIsAsked` (who is not let in is asked for a nickname, or was and answered with an
empty line). The exception is the code's: `nickname_sendline()` sends nothing for an empty
answer (numbers.c:178) but takes the question and its flag away, and since the server says
433 only of a NICK, nobody asks again until the user types `/NICK`. `declined`, kept beside
what the server has of us, is set by such an answer and cleared when the server reads the next
nickname, so that the exception ends there. NO_ASK_NICKNAME is taken to be off, and the
terminal to be one with a screen (numbers.c:206); otherwise nobody is ever asked. It is
claimed for a `careful` user; without care TLC finds it violated by:

- `/NICK` for a nickname that is taken, once let in: the client takes it at once;
- `/SERVER` for a server we are connected to: it counts as one we try to connect to
  (server.c:1344), and a refused nickname is then asked for as if we were not in;
- logging in to two servers at once: the flag that a nickname is being asked for is one
  for all of them (numbers.c:200);
- `/AWAY -ALL`: either the servers are told or the entries marked (edit.c:1634-1647);
- `/OPER` before being let in: the 464 for the server's password is taken for an
  answer to it (numbers.c:571).

`close_server()` resets the modes of an entry, so that `reinstate_user_modes()` finds
none after a loss (doc/OLDNEWS:1222 says that they are reinstated); the model does what the code
does, and the two sides agree on none.

`PartsNetProofs` proves `LoginIsAgreed` (`[]LoginAgreed`) for any servers, nicknames, modes and
lengths of the connections, of every setting that is `careful`, with the empty answers too. The property speaks of a
connection with nothing on its way; the invariant `LoginInv` says what has to be on its way when
the two sides differ. `Session`, of one entry and its peer:

- `ModesFollow`: for each mode, the last line on its way that touches it decides what the client
  will think, and it is what the peer thinks; with none, they agree now.
- `NickFollows`: from the nickname the client thinks it has, the NICK lines on their way lead one
  to the next to the one the peer thinks it has (`Leads`), unless a 001 is to come, which sets
  it, or a NICK of ours that the peer will take.
- `AwayFollows`: the last AWAY on its way to the peer is what the client is marked as; without
  one the peer has it, or a 002 is to come, at which it is told.
- `Pending`: who has not been let in has USER, or the 464 for its password, on its way.

`Prompts` says that the questions open are about one server that is being logged in to, but for
the password of `/OPER`, and `NickAsked`, from which `RefusedIsAsked` follows, that a client without
a nickname has a NICK or a refusal on its way, or a question open, or a user who declined. What is proved of one line that the peer reads, or that the client
hears, is carried over to both connections by `PromptsKept` and the lemmas about queues of
lines. The care of the user is needed where the list above says.

## Messages

`parse.c`, `notice.c` and `ctcp.c` keep in globals who the message being handled is from
and of which level it is, for windows and the log. Each handler saves them, sets its
own and takes back what was saved, around CTCPs and hooks that do the same. Each handler
is one action here, made of the calls it makes on every path; `outcome` keeps what was
shown at which level and what was sent.

| Operator or action | C function |
|---|---|
| `Save`, `From`, `Restore`, `Logged` | `save_message_from()`, `message_from()`, `restore_message_from()`, `set_lastlog_msg_level()` |
| `DoCtcp`, `CtcpStep`, `RunCtcp`, `Replied`, `Action`, `TypedInHook` | `do_ctcp()` with the answers and the notices of a flood, `do_atmosphere()`, `/CTCP` in a hook |
| `DoNoticeCtcp`, `NoticeStep` | `do_notice_ctcp()`, `do_new_notice_ctcp()` |
| `PPrivmsg`, `ParseNotice`, `ParseNote`, `ParseServerNotice`, `PWall`, `PWallops`, `PTopic`, `PQuit`, `NumberedCommand` | the handlers |
| `HandledWhole` | back in `irc_io()` |

`PartsNet`, part "messages": messages of up to five pieces between delimiters (text, an
empty piece, requests that answer or do not), of every kind, from somebody ignored or
not; and of up to thirteen requests, more than are handled. `MessagesHold` is

- `MessagesInPlace`: at the end of every path what was saved is taken back, and what has a
  level of its own is shown and logged at it. Two lines are excepted by name: a note is shown
  as NOTICE, and the line that says that CTCPs flood (`Replied`, ctcp.c:708-717) is shown as
  CTCP and logged at the level of the message that held them, since no
  `set_lastlog_msg_level()` goes with it. For a numeric about a channel
  `numbered_command()` takes back twice (numbers.c:639-646, 780), and one that a hook takes
  skips the level for the lastlog: nothing is taken from anybody, because all handlers are
  called from `irc_io()`, with nothing saved, and the level is CRAP;
- `NoAnswerToAnswers`: nothing is sent for what came in a NOTICE, by hooks neither;
- `TextWithoutCtcps`: up to four pairs of delimiters, from the left, go with what is
  between them, the rest stays.

`CrapIsCrap` (what has no level is logged as CRAP) is false under the settings of
`PartsNet`: a message of CTCPs only and a NOTICE that floods leave the level set (notice.c:261).

## Floods

The table of `flood.c` (a slot per user and kind: count and start) and the limit on CTCP
replies of `do_ctcp()` (a ring of bytes per second). `came` and `requests` remember what
came, for the properties only. `FloodsCounted` is `FloodIsFlood` (of whom FLOOD is
activated, that many messages of that kind came, that fast, whoever had the slot before)
and `RepliesAreLimited` (a reply is sent exactly when no window of the last seconds was
asked for too much, or the limit is off; not claimed across a change of its length).

`CheckFlooding`, `TakenOver`, `Counted`, `TooFast` are `check_flooding()`; `Reply`,
`Sizes`, `Flooded` the end of `do_ctcp()`; `SetBacklogSeconds` is `ctcp_refresh_flood()`.
`PartsNet`, part "floods": three people for a table of two, tables of 0 to 2 that change
their size, four messages or requests within five seconds. Left out: a clock that is
set back (ctcp.c:693 then goes by a huge number) and a message ignored by the
`/IGNORE` that FLOOD suggests.

`PartsNetProofs` proves `FloodsAreRight` (`[]FloodsCounted`) for any number of messages
and requests, any clock, rates, sizes and lengths of the ring. For the table the invariant is
`SlotsHold`: a slot of somebody counts no more than came of them since its `start`.
For the limit it is `RingHolds`: each second of the ring is the sum of what was asked for in
that second, so that the sum of the ring is that of the window (`RingHoldsWindow`), and
`FloodedHolds`: `flooded` is the time of the last request that was over the limit, or 0 when
all of them are too long ago to matter. What a sum is, `TotalStep` shows; the facts about sums
of every length are proved of the least length for which they would be wrong
(`LeastOf`), since the library's rule of induction cannot be used here.

## Ignores

The list of ignored patterns (a nickname; a user@host; `*@*`; `*`) with the kinds of
message each ignores, highlights or never ignores, and the count per kind by which
the client decides to look up somebody's user@host. `lastSaid` is what the user said
last of a pattern and kind.

| Operator or action | C function |
|---|---|
| `Marked`, `IgnoreNickname`, `MaskAdd`, `MaskSub` | `ignore_nickname()`, `remove_ignore()`, `ignore_usernames_mask()` |
| `Ignore`, `IgnoreSeveral`, `IgnoreNone` | `/IGNORE` with one pattern, several, and NONE |
| `Strength`, `Matching`, `IsIgnored`, `IgnoreCombo`, `DoubleIgnore` | `find_in_list_ext()`, `is_ignored()`, `ignore_combo()`, `double_ignore()` |
| `SavedWords`, `Loaded` | `ignore_info()`, `/SAVE` and `/LOAD` of the list |

`IgnoresHold`: what was said last of the strongest pattern that matches holds
(`LastSaidHolds`), what is saved reads back (`SavedComesBack`), and a kind that is ignored
by a user@host waits for it (`LookedUpIfNeeded`). Only that way about: a count goes up at every mention of
a pattern, whatever is said of it, and comes down only when the entry is removed, so that
a kind may be looked up for nothing. `PartsNet`, part "ignores": two patterns at a time,
two kinds, counts to 3. `OthersUnaffected` (help/ignore:65: other kinds of messages from
somebody with an entry of their own are not touched by the entry for everybody) is false
with the patterns `nick` and `*`: `double_ignore()` looks for the user@host as well.
`PlusOnlyForNicknames` (help/ignore:43-44: "The + has no effect with the user@host name
format") is false too: `ignore_nickname()` marks any pattern as highlighted and
`is_ignored()` answers so for a user@host. `LastSaidHolds` follows the code there, not the
help: what was last said of a user@host with a + holds like anything else.

`PartsNetProofs` also proves `[]IgnoresHold` (`IgnoresAreRight`) for any kinds, patterns and commands. The
invariant `IgnoresInv`: the list is what `lastSaid` says, an entry exists exactly when
something is said of its pattern, and the count of a kind is no smaller than the number
of user@host entries that ignore it. That is what a forgotten or doubled subtraction
(`MaskSubAll`) breaks.

## Targets

A window has a current channel, a query, levels and a channel it is bound to; an entry
of a server's channel list has a window. The two are kept in agreement by functions of
`names.c` and `window.c` that call each other half-way, over commands, joins and parts,
moves between servers and lost connections. `TalkIsShown`: the channel that is talked to in
a window is in its server's list and its entry names that window, so that
what is typed there is shown there.

| Operator or action | C function |
|---|---|
| `SetChannelByRefnum`, `IsCurrentChannel`, `TakeChannel`, `IsBound` | `set_channel_by_refnum()`, `is_current_channel()`, `is_bound()` |
| `ChannelIsOnWindow`, `SetChannelWindow`, `AddChannel`, `RemoveChannel`, `ReallocChannels` | the functions of `names.c` |
| `MoveList`, `MoveSome`, `SetServerAll`, `SetServerOf`, `CheckServers` | `channels_move_server_simple()` and `_complex()`, `window_set_server()`, `window_check_servers()` |
| `Channel`, `WindowChannel`, `BindChannel`, `UnbindChannel`, `SwitchChannels`, `WindowLevel`, `Query`, `WindowOpen`, `WindowClose`, `WindowGoto`, `ServerChosen`, `WindowServerChosen` | the commands |
| `JoinArrives`, `PartArrives`, `Registered`, `ServerLost` | JOIN, PART and KICK, `reconnect_all_channels()`, KILL |
| `AddToScreen`, `TargetOf` | `add_to_screen()`, `get_target_by_refnum()` |

`PartsNet`, part "targets": two windows, or three, on a server with two channels; two on
two servers with a channel of the same name. `careful` says that no window is left
without a channel of its own to go on with; otherwise `channel_is_on_window()` gives
`set_channel_by_refnum()` the text of another window, which is the one it frees before
it copies it (names.c:1219-1225), and `TalkIsShown` is violated unless the allocator
leaves what is freed as it was (`keepsFreed`).

Claims of comments and help pages that no run checks, since they are false:
`NoneKeepsAKilledWindow` (`realloc_channels()` looks at the list of the window's server of
now only, so that the entries of a server that was lost keep a window that is killed
afterwards) and `BoundStays` (help/window/bind: a channel that is bound in one window while
its JOIN, typed in another, is on its way is then talked to in that one), both under the
settings of `PartsNet`; and without care, `TalkIsOfAChannel` (help/set/same_window_only:13).

## Icb

An ICB server has us in one group; the client keeps its name, a list of who is in it,
our nickname, and `waiting`, how many lines of members are still expected, by which it
takes lines of output for lists. The server's side is external, with others who come,
go, change their names and the name of the group.

`Got...` operators are the `icb_got_...()` functions, `Put...` the `icb_put_...()` ones,
`AreMembers` and `Named` `icb_cmdout_check_members()`, `NextText` one round of the loop
of `icb_put_public()`. `IcbAgreed` is `GroupAgreed` (once nothing is on its way, the client
has the group, the members and the nickname that the server has) and `TextGoesOut` (what
we say goes out whole, in packets neither too long nor empty, cut before a space when one
is near). `PartsNet`, part "icb": two others, two groups; every line of up to eight letters
and spaces against packets of three. Claimed for a `careful` user: asking for a list while
one is on its way, or for anything else then, is taken for members (icb.c:594-607, where
`waiting` stays 1), and our own rename by the server never reaches the nickname that the
server list keeps. Seen and not modelled: icb.c:1186 uses the entry after
`close_server()`.

## InputLine

The line being edited with its cursor, the cut buffer, the questions that take its place
(`add_wait_prompt()`), and the history. Each character carries the question that was shown
when it was typed, which only the properties read.

| Operator or action | C function |
|---|---|
| `MovedTo`, `Killed`, `Cuts`, `Transposed`, `Added`, `EditKey` | the editing functions of `input.c` |
| `Recall`, `SearchLine`, `AddedToHistory`, `SetHistorySize` | `get_from_history()`, `do_history()` with `history_match()`, `add_to_history()`, `/SET HISTORY` |
| `EditChar`, `ModeKey`, `SendLine`, `RunLine`, `HookedLine` | `edit_char()`, the meta keys, `send_line()` |
| `AskQuestion`, `Answered`, `Asking` | `add_wait_prompt()`, `prompt_check_input()`, `change_input_prompt()` |

`InputKept` is `CutComesBack` (what a function cuts comes back where it was when it is
yanked), `GivenAsTyped` (what answers a question was typed under it, what runs as a command
under none), `HistoryInOrder` (the entries are numbered as they came), `HistoryWalked` (which
steps may leave the arrows or the search at an entry that is gone) and
`TypedLineRecalled` (the arrows lose no typed text). `PartsUser`, part "input": lines of up
to three characters, two questions, histories of 0 to 3 entries, walked and searched, and
both, while `/SET HISTORY` makes them longer and shorter. `TypedLineKept`
("Save stuff", "Restore stuff") is false under the settings with questions: the
two are swapped (input.c:600, 608), so that what was typed under the first question is
lost.

The code does leave both pointers at freed entries. `set_history_size()` frees the tail
(history.c:276-283) and moves neither `command_history_pos` nor `history_tmp`;
`add_to_history()` frees the oldest entry of a history that is full and moves only the
first. `HistoryWalked` says that nothing else does: the arrows are left there by
`/SET HISTORY` to fewer entries only, the search by that and by a history that is full. A
behaviour of the model ends where the next key would read the freed entry, since what is
read then is the allocator's. Seen and left out: in a line that is full
the cursor is left beyond the text, and TRANSPOSE with one character reads before it.

## Keys

Nine maps of bindings (none, META1 to META8; three have no bindings to begin with), the meta keys
hit, the one-shot states of `edit_char()` (quote, digraph, a question that takes a key).
`BindCmd`, `ParseKey`, `BindIt` are `bindcmd()`, `parse_key()`, `bind_it()`; `KeyPressed`
`edit_char()`; `TypeCmd`, `ParseKeyCmd`, `SaveBindings` the commands. `BindingsHold` is
`TypedRunsBound` (the keys named in the last BIND, typed from rest, run what they were
bound to, whatever maps and prefixes are in the way) and `SavedComeBack` (a new client
that loads what SAVE wrote has the bindings there were; the space is not written,
keys.c:1897). `StickyEnds` (help/bind/meta4_character:12) is false: with META5 bound in
META4's map both are hit, the lower one picks the map, and no key is run any more
(edit.c:3303-3340).

## Hooks

Three lists of hooks (one that must not run in itself, one of a numeric), sorted by serial
number and pattern; `frames`, the calls of `do_hook()`, each with the array it chose
before anything ran; and `waiting`, the ring of what was removed while hooks run.
`OnAdd`, `OnRemove`, `OnRemoveAll` are `/ON`, `DoHook`, `HookRuns`, `HookRan`, `HookDone`
`do_hook()` with `really_free()`. A hook that runs may do all of it again, two levels deep.

`HooksHold` is `RemovedNeverRun` (what `do_hook()` still looks at is not freed, and what was removed
or replaced does not run) and `OneOfEachSerial` (one hook of each serial number, in order,
and no list in itself when it must not). It is claimed for `WAIT_BUFFER` at least as many as
are removed in one event: the ring frees the oldest when it is full. Seen, in the model as
the code does it: a hook for one server alone is compared with a number that masks it out,
so that it shuts no other, and it cannot be removed by name.

`PartsUserProofs` proves `HooksAreRight` (`[]HooksHold`) for any hooks, lists, servers and depth
of calls, of every behaviour in which the ring never goes round (`RingLasts`, of each step:
what is freed is freed by `really_free()`, which leaves nothing waiting); `FewHooksAreRight` is
the case of no more hooks than the ring keeps, which the run checks. Without it the property is
false, as it is of the code: the ring then frees what a call may still look at. `HooksRight` is
the invariant. `PlacesRight`: every hook is in one place only, a list, the ring or the freed;
lists are in the order of the serial numbers, and what is marked as not removed is in one.
`FrameRight`, of every call: the array it chose before anything ran has rising serial numbers
and nothing of it is freed; `HookArrayIs` shows it of a new call, from the order of the list,
and `really_free()` waits for the last call. `MarksRight`: a list is marked as running exactly
as often as calls run it, so that a list that must not run in itself has one call at most.

## Aliases, expressions, queues, scripts, loops

`Aliases`: `expand_alias()` and `parse_line()` run a body command by command; its words
`$n-m` are cut out of what the alias was given, at places kept in a static list
(`arg_number()`), which functions called in between overwrite. `AliasesHold` is `TakesItsOwn`
(`$n-m` is what this alias was given), `GivenOnce` (what it was given is put behind the last
command if the body asks for none of it) and `RecursionLimitedIfOnce` (MAX_RECURSIONS limits
recursion where no body runs an alias twice). `RecursionLimited` without that condition is
false: `mark_alias()` forgets the count once it is exceeded (alias.c:1878), so that the next
command of the body starts anew. `PartsUser`: two aliases, of one or two commands that call
themselves and each other as commands and functions.

`Expressions`: `next_unit()` splits a text at the operators of one level after another.
`ValueAsMeant` compares it with a reference meaning of trees (`Meaning`): the same value and
the same variables, with all brackets or with those left out that the levels of
help/expressions and a grouping from the right make needless. `PartsUser`: every expression
of two operators out of fourteen, with assignments, steps and `!`. Not claimed of
comparisons with a number below zero, which are compared as text (alias.c:1085).
`TextIsTrue` (help/expressions:85) is false of a variable that holds a word: `||` takes it for
false (alias.c:912).

`Queues`: the list of queues and their entries, with identities, so that a pointer to what
was freed can be told; `do_queue()` walks a queue whose commands may be QUEUE again.
`DroppedHaveRun`: no entry goes from a queue without having run, unless it was deleted or
flushed. Where the program reads what it freed or goes through NULL it has `ended`: a
queued command that runs and flushes the queue that runs (queue.c:345-364), -DELETE of one
past the end (queue.c:297-299), -DO of no queue. -FLUSH of a queue goes on with the one that
took its place in the list (queue.c:171-184). `PartsUser`: two queues, eleven commands, eight
entries, three calls within each other.

`PartsUserProofs` proves `DroppedAlwaysRan` (`[]DroppedHaveRun`) for any set of commands and any bounds, from `QueuesAssumption`: what is in a command's braces is a command
too, and numbers are natural. The property alone is not inductive. `QueuesInv` adds
`CallRight` of every call, the ones that wait for an inner one included: of the queue it runs,
the entries before the one it is at have run. Any of them may meanwhile be deleted, added to,
or be another queue of the same name; so "before" is said of identities, which rise along each
list (`Rising`) and are new for what is made (`UpTo`). A QUEUE command does whatever it does in
up to five operations, each of which keeps that and leaves a queue nothing it did not have
but what is newer (`Follows`); `StaysRight` is then the one lemma that carries all calls over.

`Loading`: `load_a_file()` puts the rows of a script together from lines, braces and
semicolons, and each may load another script. `LoadedAsWritten`: between lines, what was
run and what is kept say what the lines read so far say (up to needless semicolons), no
command is run with a brace open, and `load_depth` is the number of files open.
`PartsUser`: all scripts of one or two lines of up to two words, some of three and four, comments, lines that
go on, and scripts that load themselves or another in the middle of a line.

`Loops`: IF, WHILE, FOR, FOREACH, FE and FEC (`if.c`) as a machine with the C stack: the
lines that `parse_line()` is in, and the loops that wait for one of them. FE, FOR and FOREACH
are one command, told apart by what follows (`foreach_handler()`). `LoopsAsWritten` compares
the end of a program with a reference meaning, `LineMeaning`: lists and names are looked at
once, conditions every time, FE gives its words out in groups and deletes its variables.
The meaning has its own account of names and elements (`PartsBelow`).
`PartsUser`, part "loops": 1080 programs, each loop around one or two commands and around each
other loop, over a list that refers to variables and a structure of two levels, from three
beginnings: all variables set, none, and the one that names refer to unset. FOREACH over
`s.$i` is then over `S..`, which no name begins with (`NameOf`, if.c:228-245). FEC of an empty
list deletes its variable. FE without a variable takes the words of its body for variables, as
far as the end of the line, which cuts the body behind its first word: it is "Unmatched" and
nothing runs (if.c:316-341); a body of one word, which runs once, is left out. A text that begins with 0 is false (if.c:106), whatever
help/if says of strings that are not empty; what a list refers to is expanded until nothing
changes, here in at most two steps.

## Settings

The variables with their marks (`VIF_CHANGED`, `VIF_GLOBAL`), the functions that follow one,
the global script and the user's file, and the next start of the client, which loads both.
`SetVarValue`, `SetVariable` with `Found` are `/SET`; `SaveSettings`, `Confirm`, `ReallySave`
`/SAVE` with its question, whose answer is for the flags of the SAVE typed last, even one that
ended at an unknown argument; `Restart`, `LoadLine`,
`FileRead` the start. `SettingsKept` is `SavedIsLoaded` (the new client has what was saved)
and `FollowersKnow` (what follows a variable has been told its value). `SavedIsLoaded` is claimed of
what `Promised` says, because the code does not keep the rest: a variable that the global
script has set too (`VIF_GLOBAL` stays), a string that was only unset or told in another case
(vars.c:545: `!flags & VIF_CHANGED` is true of no flag at all). `PartsUser`, part "settings":
five variables, five global scripts, two `/SET` or `/SAVE` between two starts, any number of
starts.

## Several components in one run

`MCParts`, `MCPartsWire`, `MCPartsNet`, `MCPartsTalk`, `MCPartsUser` and `MCPartsLive` extend several
components, whose names are disjoint. Their initial states choose a `part`; the variables of
the others keep one value each, which their part's initial states allow. The type invariant
of a run is that of every part, or stands in the property of one. `PartsWire` is `Whois` and `Channels` (what the client believes
against messages on their way), `PartsNet` what comes from a server and what we are to it,
`PartsTalk` is `Dcc`, `Who` and `Splits` (what others send and how it is shown),
`PartsUser` what the user types and the commands it becomes, `PartsLive` what must end in
`Whois`, `Dcc`, `Timers` and `Streams`, with the fairness of all: a part that is not chosen
never takes a step, and none of its actions that are fair is enabled in the state it keeps.
Deadlock is not checked in these: a bound, or a user who types nothing, ends a run. `PartsAll`
checks:

- "paging": see above.
- "exec": one process of two pieces of any kind with SHELL_LIMIT none or one, where
  `fork()` may fail; one of three pieces, for more lines than the limit lets through;
  two processes of one line each, for pipes and indices used again and ends in any
  order; two that write nothing, with pids used again. Nine descriptors are what one
  process needs, three, and another while it starts, six.

Settings such as `InputSettings` or `TargetSettings` are small instances of one module, each
for one question, chosen in the initial state and kept in a variable: two questions under a
line do not need the history, and a history does not need the cut buffer. What is left out
of one setting is in another. Every bound is a constant of its module with the comment `bound`.

## Not modelled

- The ircio helper, wserv, the terminal: they copy bytes.
- Menus, help, mail, digraphs, ciphers: text on request, no behaviour over time.
- The library functions of OpenSSL and their certificates are external.
- The built-in functions of scripts and array variables; what each CTCP answers; the
  display of status lines; the commands that only format a line for the server.
- The child that `fork()` makes (see Exec), whose copy of the client runs hooks.
- What happens after `remove_from_server_list()` has left a number out of range (see Servers).
- Two servers' WHOIS queues side by side.

Only model-checked, not proved: the liveness properties (`SwitchDecided`, `RequestsEnd`,
`TransferEnds`, `TimersEnd`, `LinesAreRead`), since liveness and ENABLED are out of reach of the
prover; `ValueAsMeant` and `ScriptsHold`, whose reference meanings are recursive; the type
invariants of the runs, where no theorem says so; and `MarksAreAnswers`, `ExecHolds`, `InputKept`,
`SettingsHold`, `AliasesHold`, `MessagesHold`, `TalkIsShown`, `LinesAsSent`, `IcbAgreed`, `ShownAsGiven` and
`WindowsArranged`, which nobody has proved yet.
