------------------------------ MODULE Channels ------------------------------
(***************************************************************************)
(* The channel list of one server (names.c) against what the server knows. *)
(* The client learns who is on a channel, who its operators are and which  *)
(* modes it has only from the lines it is sent, and asks for the modes     *)
(* after it has seen itself join; both halves of the stream are queues.    *)
(*                                                                         *)
(* One mode of a channel, +m, stands for all that the reply to MODE shows, *)
(* and 471 for every refusal of a JOIN.                                    *)
(***************************************************************************)
EXTENDS Naturals, Sequences, FiniteSets

CONSTANTS
    Channels,
    Names,         \* nicknames
    ChannelSettings, \* what kinds of run there are, a subset of ChannelSetting
    MaxTyped,      \* bound: commands of the user
    MaxEvents      \* bound: things that other people and the network do

ChannelSetting ==
    [split: BOOLEAN,       \* a list of names takes two lines
     leaves: BOOLEAN,      \* the user parts, is kicked, or asks for the modes
     loses: BOOLEAN,       \* the connection may be lost
     impatient: BOOLEAN]   \* /JOIN is typed for a channel just joined

ASSUME ChannelSettingsAssumption == ChannelSettings \subseteq ChannelSetting
ASSUME ChannelsAssumption == IsFiniteSet(Channels)
ASSUME BoundsAssumption == MaxTyped \in Nat /\ MaxEvents \in Nat

VARIABLES
    list,          \* the ChannelList of the server, by name
    nickname,      \* what the client believes its nickname to be
    connected,     \* registered with the server
    toServer,      \* commands on their way
    toClient,      \* messages on their way
    room,          \* the server: who is on each channel, and its mode
    me,            \* the server: the client's nickname
    typed, events, \* what counts against the bounds
    channelsEnv    \* the setting of this run, never changed

channelsVars == <<list, nickname, connected, toServer, toClient, room, me, typed, events, channelsEnv>>

Chan == [connected: {"none", "limbo", "joining", "joined"},
         names: BOOLEAN, mode: BOOLEAN,     \* CHAN_NAMES, CHAN_MODE
         chop: BOOLEAN,                     \* CHAN_CHOP
         moderated: BOOLEAN,                   \* MODE_MODERATED
         nicks: SUBSET Names, ops: SUBSET Names]

\* No entry of this name in the list; a new one starts from here.
NoChannel == [connected |-> "none", names |-> FALSE, mode |-> FALSE, chop |-> FALSE,
              moderated |-> FALSE, nicks |-> {}, ops |-> {}]

Room == [nicks: SUBSET Names, ops: SUBSET Names, moderated: BOOLEAN]

\* MODE_set is the command MODE #c +m; MODE_o and MODE_m are changes that the server tells.
Command == [cmd: {"JOIN", "PART", "MODE", "MODE_set"}, chan: Channels]
ToClient ==
    [cmd: {"JOIN", "PART", "KICK"}, chan: Channels, nick: Names]
    \cup [cmd: {"QUIT"}, nick: Names]
    \cup [cmd: {"NICK"}, nick: Names, new: Names]
    \cup [cmd: {"MODE_o"}, chan: Channels, nick: Names, add: BOOLEAN]
    \cup [cmd: {"MODE_m"}, chan: Channels, add: BOOLEAN]
    \cup {m \in [cmd: {"353"}, chan: Channels, nicks: SUBSET Names, ops: SUBSET Names] :
             m.ops \subseteq m.nicks}
    \cup [cmd: {"324"}, chan: Channels, moderated: BOOLEAN]
    \cup [cmd: {"471"}, chan: Channels]

-----------------------------------------------------------------------------
(* names.c, each for one entry. *)

\* is_on_channel()
IsOnChannel(c, n) == list[c].connected = "joined" /\ n \in list[c].nicks

\* Mutant: the nicknames from before the connection was lost are kept.
ClearChannelNot(e) == [e EXCEPT !.names = FALSE]

ClearChannel(e) == [e EXCEPT !.names = FALSE, !.nicks = {}, !.ops = {}]

\* add_channel(): NoChannel has nothing to clear.
AddChannel(e, how) ==
    [(IF how = "joined" THEN ClearChannel(e) ELSE e) EXCEPT !.connected = how]

\* add_to_channel() for each nickname of a set
AddToChannel(e, nicks, ops) ==
    IF e.connected = "none" THEN e
    ELSE [e EXCEPT !.nicks = @ \cup nicks, !.ops = (@ \ nicks) \cup ops]

RemoveFromChannel(e, n) == [e EXCEPT !.nicks = @ \ {n}, !.ops = @ \ {n}]

RenameNick(e, n, new) ==
    LET renamed(S) == (S \ {n}) \cup (IF n \in S THEN {new} ELSE {})
    IN  [e EXCEPT !.nicks = renamed(@), !.ops = renamed(@)]

\* channel_mode_lookup() for a reply: 0 once both replies have been seen.
Expected(e) == e.connected # "none" /\ ~(e.names /\ e.mode)

-----------------------------------------------------------------------------
(* The user. *)

TypeIn(command) ==
    /\ connected /\ typed < MaxTyped
    /\ typed' = typed + 1
    /\ toServer' = Append(toServer, command)
    /\ UNCHANGED <<toClient, room, me, events, channelsEnv, nickname, connected>>

\* e_channel() and do_channel(): the entry is made before the server answers.
Join(c) ==
    /\ ~IsOnChannel(c, nickname)
    /\ list[c].connected = "joined" => channelsEnv.impatient
    /\ TypeIn([cmd |-> "JOIN", chan |-> c])
    /\ list' = [list EXCEPT ![c] = AddChannel(@, "joining")]

\* /PART and /MODE only send a line.
Part(c) == channelsEnv.leaves /\ TypeIn([cmd |-> "PART", chan |-> c]) /\ UNCHANGED list
AskMode(c) == channelsEnv.leaves /\ TypeIn([cmd |-> "MODE", chan |-> c]) /\ UNCHANGED list

-----------------------------------------------------------------------------
(* The messages of the server, parse.c, funny.c and numbers.c. *)

Reads(cmd) ==
    /\ toClient # <<>> /\ Head(toClient).cmd = cmd
    /\ toClient' = Tail(toClient)
    /\ UNCHANGED <<connected, room, me, typed, events, channelsEnv>>

Became(c, e) == list' = [list EXCEPT ![c] = e]

AskedModes(c) == Append(toServer, [cmd |-> "MODE", chan |-> c])

PChannel ==
    LET m == Head(toClient)
        e == list[m.chan]
    IN  /\ Reads("JOIN") /\ UNCHANGED nickname
        /\ IF m.nick = nickname
           THEN Became(m.chan, AddChannel(e, "joined")) /\ toServer' = AskedModes(m.chan)
           ELSE Became(m.chan, AddToChannel(e, {m.nick}, {})) /\ UNCHANGED toServer

\* A PART of somebody who is not on the list is ignored.
PPart ==
    LET m == Head(toClient)
        e == list[m.chan]
    IN  /\ Reads("PART") /\ UNCHANGED <<nickname, toServer>>
        /\ Became(m.chan, IF ~IsOnChannel(m.chan, m.nick) THEN e
                          ELSE IF m.nick = nickname THEN NoChannel
                          ELSE RemoveFromChannel(e, m.nick))

PKick ==
    LET m == Head(toClient)
    IN  /\ Reads("KICK") /\ UNCHANGED <<nickname, toServer>>
        /\ Became(m.chan, IF m.nick = nickname THEN NoChannel
                          ELSE RemoveFromChannel(list[m.chan], m.nick))

PQuit ==
    /\ Reads("QUIT") /\ UNCHANGED <<nickname, toServer>>
    /\ list' = [c \in Channels |-> RemoveFromChannel(list[c], Head(toClient).nick)]

PNick ==
    LET m == Head(toClient)
    IN  /\ Reads("NICK") /\ UNCHANGED toServer
        /\ nickname' = IF m.nick = nickname THEN m.new ELSE nickname
        /\ list' = [c \in Channels |-> RenameNick(list[c], m.nick, m.new)]

\* p_mode() and decifer_mode(), for +o and -o
PModeOper ==
    LET m == Head(toClient)
        e == list[m.chan]
        told == [e EXCEPT !.chop = IF m.nick = nickname THEN m.add ELSE @,
                          !.ops = IF m.add THEN @ \cup ({m.nick} \cap e.nicks) ELSE @ \ {m.nick}]
    IN  /\ Reads("MODE_o") /\ UNCHANGED <<nickname, toServer>>
        /\ Became(m.chan, IF e.connected = "none" THEN e ELSE told)

PModeModerated ==
    LET m == Head(toClient)
        e == list[m.chan]
    IN  /\ Reads("MODE_m") /\ UNCHANGED <<nickname, toServer>>
        /\ Became(m.chan, IF e.connected = "none" THEN e ELSE [e EXCEPT !.moderated = m.add])

\* A line of names: CHAN_NAMES is set before the nicknames are looked at.
NamesTaken(e, m) ==
    [AddToChannel([e EXCEPT !.names = TRUE], m.nicks, m.ops)
        EXCEPT !.chop = @ \/ (nickname \in m.ops /\ ~e.mode)]

\* An operator restores the modes that the entry still has, recreate_mode().
ModesRestored(e, m) ==
    IF nickname \in m.ops /\ ~e.mode /\ e.moderated
    THEN Append(toServer, [cmd |-> "MODE_set", chan |-> m.chan]) ELSE toServer

FunnyNamreply ==
    LET m == Head(toClient)
        e == list[m.chan]
    IN  /\ Reads("353") /\ UNCHANGED nickname
        /\ IF Expected(e)
           THEN Became(m.chan, NamesTaken(e, m)) /\ toServer' = ModesRestored(e, m)
           ELSE UNCHANGED <<list, toServer>>

\* The reply to MODE only ever sets modes.
FunnyMode ==
    LET m == Head(toClient)
        e == list[m.chan]
    IN  /\ Reads("324") /\ UNCHANGED <<nickname, toServer>>
        /\ Became(m.chan, IF Expected(e)
                          THEN [e EXCEPT !.mode = TRUE, !.moderated = @ \/ m.moderated] ELSE e)

CannotJoinChannel ==
    LET c == Head(toClient).chan
    IN  /\ Reads("471") /\ UNCHANGED <<nickname, toServer>>
        /\ Became(c, IF IsOnChannel(c, nickname) THEN list[c] ELSE NoChannel)

-----------------------------------------------------------------------------
(* The connection. *)

MarkNotConnected(e) ==
    IF e.connected = "none" THEN e
    ELSE [e EXCEPT !.connected = "limbo", !.names = FALSE, !.mode = FALSE, !.chop = FALSE]

\* close_server(), and what the server makes of it
ConnectionLost ==
    /\ channelsEnv.loses /\ connected /\ events < MaxEvents
    /\ events' = events + 1
    /\ connected' = FALSE
    /\ list' = [c \in Channels |-> MarkNotConnected(list[c])]
    /\ toServer' = <<>> /\ toClient' = <<>>
    /\ room' = [c \in Channels |-> [room[c] EXCEPT !.nicks = @ \ {me}, !.ops = @ \ {me}]]
    /\ UNCHANGED <<nickname, me, typed, channelsEnv>>

\* Orders in which the commands for a set of channels may be sent
Orders(S) == {s \in [1 .. Cardinality(S) -> S] : \A c \in S : \E i \in DOMAIN s : s[i] = c}

\* got_initial_version() and reconnect_all_channels()
Reconnect ==
    LET known == {c \in Channels : list[c].connected # "none"}
    IN  /\ ~connected /\ connected' = TRUE
        /\ \A c \in Channels : nickname \notin room[c].nicks
        /\ me' = nickname
        /\ list' = [c \in Channels |-> IF c \in known THEN [list[c] EXCEPT !.connected = "joining"]
                                       ELSE list[c]]
        /\ \E s \in Orders(known) :
              toServer' = [i \in DOMAIN s |-> [cmd |-> "JOIN", chan |-> s[i]]]
        /\ UNCHANGED <<nickname, toClient, room, typed, events, channelsEnv>>

-----------------------------------------------------------------------------
(* The server, as the code relies on it, and the people on it. *)

Sends(lines) == toClient' = toClient \o lines
Rooms(c, r) == room' = [room EXCEPT ![c] = r]

\* A channel with nobody on it has no modes.
Emptied(r) == IF r.nicks = {} THEN [r EXCEPT !.moderated = FALSE] ELSE r
Without(c, n) == Emptied([room[c] EXCEPT !.nicks = @ \ {n}, !.ops = @ \ {n}])
With(c, n) == [room[c] EXCEPT !.nicks = @ \cup {n},
                              !.ops = IF room[c].nicks = {} THEN {n} ELSE @]

\* The lists of names of a room
Line(c, r, S) == [cmd |-> "353", chan |-> c, nicks |-> S, ops |-> r.ops \cap S]
NameLines(c, r) ==
    IF ~channelsEnv.split \/ Cardinality(r.nicks) < 2 THEN {<<Line(c, r, r.nicks)>>}
    ELSE {<<Line(c, r, S), Line(c, r, r.nicks \ S)>> : S \in (SUBSET r.nicks) \ {{}, r.nicks}}

AnswerJoin(c) ==
    IF me \in room[c].nicks THEN UNCHANGED <<toClient, room>>
    ELSE \/ Sends(<<[cmd |-> "471", chan |-> c]>>) /\ UNCHANGED room
         \/ /\ Rooms(c, With(c, me))
            /\ \E lines \in NameLines(c, With(c, me)) :
                  Sends(<<[cmd |-> "JOIN", chan |-> c, nick |-> me]>> \o lines)

AnswerPart(c) ==
    IF me \in room[c].nicks
    THEN Sends(<<[cmd |-> "PART", chan |-> c, nick |-> me]>>) /\ Rooms(c, Without(c, me))
    ELSE UNCHANGED <<toClient, room>>

AnswerMode(c) ==
    /\ Sends(<<[cmd |-> "324", chan |-> c, moderated |-> room[c].moderated]>>)
    /\ UNCHANGED room

AnswerSetMode(c) ==
    IF me \in room[c].ops /\ ~room[c].moderated
    THEN /\ Sends(<<[cmd |-> "MODE_m", chan |-> c, add |-> TRUE]>>)
         /\ Rooms(c, [room[c] EXCEPT !.moderated = TRUE])
    ELSE UNCHANGED <<toClient, room>>

ServerReads ==
    LET m == Head(toServer)
    IN  /\ toServer # <<>> /\ toServer' = Tail(toServer)
        /\ \/ m.cmd = "JOIN" /\ AnswerJoin(m.chan)
           \/ m.cmd = "PART" /\ AnswerPart(m.chan)
           \/ m.cmd = "MODE" /\ AnswerMode(m.chan)
           \/ m.cmd = "MODE_set" /\ AnswerSetMode(m.chan)
        /\ UNCHANGED <<list, nickname, connected, me, typed, events, channelsEnv>>

Happens ==
    /\ events < MaxEvents /\ events' = events + 1
    /\ UNCHANGED <<list, nickname, connected, toServer, typed, channelsEnv>>

\* Whoever is on one of these channels is told, if the client is.
Told(cs, m) == Sends(IF \E c \in cs : me \in room[c].nicks THEN <<m>> ELSE <<>>)

OtherJoins(c, n) ==
    /\ Happens /\ n # me /\ n \notin room[c].nicks
    /\ Rooms(c, With(c, n)) /\ UNCHANGED me
    /\ Told({c}, [cmd |-> "JOIN", chan |-> c, nick |-> n])

OtherParts(c, n) ==
    /\ Happens /\ n # me /\ n \in room[c].nicks
    /\ Rooms(c, Without(c, n)) /\ UNCHANGED me
    /\ Told({c}, [cmd |-> "PART", chan |-> c, nick |-> n])

OtherQuits(n) ==
    LET on == {c \in Channels : n \in room[c].nicks}
    IN  /\ Happens /\ n # me /\ on # {}
        /\ room' = [c \in Channels |-> Without(c, n)] /\ UNCHANGED me
        /\ Told(on, [cmd |-> "QUIT", nick |-> n])

Kicked(c, n) ==
    /\ Happens /\ n \in room[c].nicks /\ (n = me => channelsEnv.leaves)
    /\ Rooms(c, Without(c, n)) /\ UNCHANGED me
    /\ Told({c}, [cmd |-> "KICK", chan |-> c, nick |-> n])

Opped(c, n) ==
    LET add == n \notin room[c].ops
    IN  /\ Happens /\ n \in room[c].nicks
        /\ Rooms(c, [room[c] EXCEPT !.ops = IF add THEN @ \cup {n} ELSE @ \ {n}])
        /\ UNCHANGED me
        /\ Told({c}, [cmd |-> "MODE_o", chan |-> c, nick |-> n, add |-> add])

ModerationSet(c) ==
    /\ Happens /\ room[c].nicks # {}
    /\ Rooms(c, [room[c] EXCEPT !.moderated = ~@]) /\ UNCHANGED me
    /\ Told({c}, [cmd |-> "MODE_m", chan |-> c, add |-> ~room[c].moderated])

\* Nobody on the channels has the new nickname; the client hears of its own always.
Renamed(n, new) ==
    LET on == {c \in Channels : n \in room[c].nicks}
        moved(S) == (S \ {n}) \cup (IF n \in S THEN {new} ELSE {})
        m == [cmd |-> "NICK", nick |-> n, new |-> new]
    IN  /\ Happens /\ new # me /\ \A c \in Channels : new \notin room[c].nicks
        /\ IF n = me THEN connected ELSE on # {}
        /\ me' = IF n = me THEN new ELSE me
        /\ room' = [c \in Channels |-> [room[c] EXCEPT !.nicks = moved(@), !.ops = moved(@)]]
        /\ IF n = me THEN Sends(<<m>>) ELSE Told(on, m)

-----------------------------------------------------------------------------
ChannelsInit ==
    /\ channelsEnv \in ChannelSettings
    /\ list = [c \in Channels |-> NoChannel]
    /\ connected = TRUE /\ nickname \in Names /\ me = nickname
    /\ toServer = <<>> /\ toClient = <<>>
    /\ room \in [Channels -> Room]
    /\ \A c \in Channels : /\ me \notin room[c].nicks /\ room[c].ops \subseteq room[c].nicks
                           /\ room[c].nicks = {} => ~room[c].moderated
    /\ typed = 0 /\ events = 0

User == \E c \in Channels : Join(c) \/ Part(c) \/ AskMode(c)

Client == \/ PChannel \/ PPart \/ PKick \/ PQuit \/ PNick \/ PModeOper \/ PModeModerated
          \/ FunnyNamreply \/ FunnyMode \/ CannotJoinChannel

Others ==
    \E n \in Names :
        \/ OtherQuits(n)
        \/ \E new \in Names \ {n} : Renamed(n, new)
        \/ \E c \in Channels : OtherJoins(c, n) \/ OtherParts(c, n) \/ Kicked(c, n) \/ Opped(c, n)

ChannelsNext == User \/ Client \/ ConnectionLost \/ Reconnect \/ ServerReads \/ Others \/ \E c \in Channels : ModerationSet(c)

ChannelsSpec == ChannelsInit /\ [][ChannelsNext]_channelsVars

-----------------------------------------------------------------------------
(* Properties. *)

\* Every variable has its type; a flag of an operator is a flag of a nickname in the list.
ChannelsTypeOK ==
    /\ list \in [Channels -> Chan] /\ nickname \in Names /\ connected \in BOOLEAN
    /\ toServer \in Seq(Command) /\ toClient \in Seq(ToClient)
    /\ room \in [Channels -> Room] /\ me \in Names
    /\ typed \in 0 .. MaxTyped /\ events \in 0 .. MaxEvents /\ channelsEnv \in ChannelSetting
    /\ \A c \in Channels : list[c].ops \subseteq list[c].nicks

\* Nothing is on its way in either direction.
Quiet == connected /\ toServer = <<>> /\ toClient = <<>>

\* Once everything sent has been read the list has exactly the channels that the client
\* is on, each with the nicknames and the operators that the server has (/NAMES, $chanusers(),
\* $ischanop()), through joins, parts, kicks, quits, changes of nickname and reconnections.
\* Two cases are the exceptions of the source: /JOIN typed again before the names have
\* come, and a second line of names that comes after a reply to an older MODE.
MembersInStep ==
    Quiet /\ ~channelsEnv.impatient /\ ~(channelsEnv.split /\ channelsEnv.leaves) =>
        /\ nickname = me
        /\ \A c \in Channels :
              IF me \in room[c].nicks
              THEN /\ list[c].connected = "joined"
                   /\ list[c].nicks = room[c].nicks /\ list[c].ops = room[c].ops
              ELSE list[c].connected = "none"

\* CHAN_CHOP, which decides what get_channel_oper() answers, is set exactly when the
\* server has the client as an operator, unless the modes were asked for before.
ChopInStep ==
    Quiet /\ ~channelsEnv.impatient /\ ~channelsEnv.leaves =>
        \A c \in Channels : list[c].chop <=> me \in room[c].ops

\* The modes of a channel that the client is on are all known, and no others are if the
\* connection was never lost; after a reconnection only an operator gets them right.
ModeInStep ==
    Quiet /\ ~channelsEnv.impatient /\ ~channelsEnv.leaves =>
        \A c \in Channels : me \in room[c].nicks =>
            /\ room[c].moderated => list[c].moderated
            /\ list[c].moderated => room[c].moderated \/ channelsEnv.loses

\* A channel being joined has a JOIN, or its answer, on the way: it does not stay so.
JoiningIsAsked ==
    ~channelsEnv.impatient => \A c \in Channels : list[c].connected = "joining" =>
        \/ \E i \in DOMAIN toServer : toServer[i] = [cmd |-> "JOIN", chan |-> c]
        \/ \E i \in DOMAIN toClient : toClient[i] = [cmd |-> "471", chan |-> c]
        \/ \E i \in DOMAIN toClient \ {1} : toClient[i].cmd = "353" /\ toClient[i].chan = c
                                            /\ toClient[i - 1].cmd = "JOIN"

\* What the client believes of its channels is what the server has, once everything sent has
\* been read, and what is not yet so is on its way (names.c).
ListInStep == MembersInStep /\ ChopInStep /\ ModeInStep /\ JoiningIsAsked

=============================================================================
