------------------------------ MODULE Targets ------------------------------
(***************************************************************************)
(* Which channel is talked to in which window, and which window shows it:  *)
(* the current_channel of a window (window.c) and the window of an entry   *)
(* of a server's channel list (names.c), two records of the same fact that *)
(* every function keeps by calling the other file's; and the window that   *)
(* add_to_screen() puts a message in.                                      *)
(*                                                                         *)
(* A window is the number it was given, and a number is not given again.   *)
(* Connecting ends at once (Servers has what else it may do), servers are  *)
(* in no groups, and nothing is typed while there is no server.            *)
(***************************************************************************)
EXTENDS Integers, FiniteSets, SequencesExt

CONSTANTS
    ChannelOrder,      \* the channels in the order of their names, that of the lists
    TargetServers,     \* indexes of servers
    MaxTargetWindows,  \* bound: windows ever made
    TargetSettings     \* what kinds of run there are, a subset of TargetSetting

Shut == "none"                       \* no channel, no nickname
Alone == -1                          \* no server
TargetLevels == {"PUBLIC", "MSG"}
ChannelNames == {ChannelOrder[i] : i \in DOMAIN ChannelOrder}
Somebody == "nick"                   \* whom a QUERY is with
Garbled == "?"                       \* what text may be once it is freed
TargetWords == {"channel", "switch", "bind", "level", "query", "server", "lose", "part", "windows"}

TargetSetting ==
    [words: SUBSET TargetWords,    \* what is typed and what servers do
     servers: SUBSET TargetServers,
     windows: 0 .. MaxTargetWindows,
     channels: SUBSET ChannelNames,
     sameWindowOnly: BOOLEAN,      \* SET SAME_WINDOW_ONLY
     careful: BOOLEAN,             \* no window is left without a channel of its own to go on with
     keepsFreed: BOOLEAN]          \* the allocator leaves what is freed as it was

ASSUME TargetsAssumption ==
    /\ TargetServers \subseteq Nat /\ MaxTargetWindows \in Nat \ {0}
    /\ TargetSettings \subseteq TargetSetting

VARIABLES
    panes,             \* the windows, by number
    traversal,         \* the order of window_traverse()
    here,              \* the current window
    lists,             \* by server and channel, the channel list
    up,                \* servers with a connection
    registered,        \* those that have accepted us
    primary,           \* primary_server
    targetEnv          \* the setting of this run, never changed

targetsVars == <<panes, traversal, here, lists, up, registered, primary, targetEnv>>

Pane == [server: TargetServers \cup {Alone}, channel: ChannelNames \cup {Shut, Garbled},
         bound: ChannelNames \cup {Shut}, query: {Shut, Somebody},
         levels: SUBSET TargetLevels, sticky: BOOLEAN]
Listing == [how: {"none", "limbo", "joining", "joined"}, window: 0 .. MaxTargetWindows]
NotListed == [how |-> "none", window |-> 0]
Blank(server) == [server |-> server, channel |-> Shut, bound |-> Shut, query |-> Shut,
                  levels |-> {}, sticky |-> TRUE]

TargetsTypeOK ==
    /\ panes \in Seq(Pane)
    /\ traversal \in Seq(DOMAIN panes) /\ here \in Range(traversal)
    /\ lists \in [TargetServers -> [ChannelNames -> Listing]]
    /\ registered \subseteq up /\ up \subseteq TargetServers
    /\ primary \in TargetServers \cup {Alone}
    /\ targetEnv \in TargetSettings

TargetsInit ==
    /\ targetEnv \in TargetSettings
    /\ LET first == IF targetEnv.servers = {} THEN Alone ELSE CHOOSE s \in targetEnv.servers : TRUE
       IN  /\ panes = <<Blank(first)>> /\ primary = first
           /\ up = {first} \ {Alone} /\ registered = up
    /\ traversal = <<1>> /\ here = 1
    /\ lists = [s \in TargetServers |-> [c \in ChannelNames |-> NotListed]]

----------------------------------------------------------------------------
(* The functions the commands are made of, from a state to a state.        *)

State == [panes |-> panes, traversal |-> traversal, here |-> here, lists |-> lists,
          up |-> up, registered |-> registered, primary |-> primary]

TargetsBecome(s) ==
    /\ panes' = s.panes /\ traversal' = s.traversal /\ here' = s.here /\ lists' = s.lists
    /\ up' = s.up /\ registered' = s.registered /\ primary' = s.primary
    /\ UNCHANGED targetEnv

\* What window_traverse() goes through.
Alive(s) == Range(s.traversal)

OfServer(s, server) == LET Its(w) == s.panes[w].server = server IN SelectSeq(s.traversal, Its)
Talking(s, c, server) ==
    LET Its(w) == s.panes[w].server = server /\ s.panes[w].channel = c IN SelectSeq(s.traversal, Its)

PaneByRefnum(s, refnum) == IF refnum \in Alive(s) THEN refnum ELSE s.here

IsBound(s, c, server) ==
    LET Its(w) == s.panes[w].server = server /\ s.panes[w].bound = c
        found == SelectSeq(s.traversal, Its)
    IN  IF found = <<>> THEN 0 ELSE found[1]

IsJoined(s, c, server) == s.lists[server][c].how = "joined"
Listed(s, c, server) == server # Alone /\ c \in ChannelNames /\ s.lists[server][c].how # "none"

\* The entries of a list, in order.
Entries(s, server) == LET Its(c) == s.lists[server][c].how # "none" IN SelectSeq(ChannelOrder, Its)

Quiet(s, windows) ==
    [s EXCEPT !.panes = [w \in DOMAIN @ |-> IF w \in windows THEN [@[w] EXCEPT !.channel = Shut] ELSE @[w]]]

SetChannelWindow(s, w, c, server) ==
    IF Listed(s, c, server) THEN [s EXCEPT !.lists[server][c].window = w] ELSE s

\* Mutant: the entry is left as it is.
SetChannelHalf(s, refnum, c) ==
    LET w == PaneByRefnum(s, refnum)
    IN  IF c = Shut THEN Quiet(s, {w})
        ELSE [Quiet(s, Range(Talking(s, c, s.panes[w].server))) EXCEPT !.panes[w].channel = c]

SetChannelByRefnum(s, refnum, c) ==
    LET w == PaneByRefnum(s, refnum)
        server == s.panes[w].server
    IN  IF c = Shut THEN Quiet(s, {w})
        ELSE SetChannelWindow([Quiet(s, Range(Talking(s, c, server))) EXCEPT !.panes[w].channel = c],
                              w, c, server)

\* What is_bound() keeps apart: the entries another window may have, for want of one of its own.
Movable(s, c, server, found) ==
    {d \in Range(Entries(s, server)) \ {c} :
        IsBound(s, d, server) = 0 /\ s.lists[server][d].window # found /\ Talking(s, d, server) = <<>>}

\* A window has lost its channel: it gets one that it shows already, or one that no window
\* talks to, or that of the window refnum: its own text, which set_channel_by_refnum() frees
\* before it copies it when the two windows have the same server.
ChannelIsOnWindow(s, c, server, found, refnum) ==
    LET Own(d) == d # c /\ s.lists[server][d].window = found
        own == SelectSeq(Entries(s, server), Own)
        Free(d) == d \in Movable(s, c, server, found)
        possible == SelectSeq(Entries(s, server), Free)
        other == PaneByRefnum(s, refnum)
        theirs == s.panes[other].channel
        freed == s.panes[other].server = server /\ ~targetEnv.keepsFreed
        left == Quiet(s, Range(Talking(s, theirs, server)))
    IN  IF own # <<>> THEN SetChannelByRefnum(s, found, own[1])
        ELSE IF targetEnv.sameWindowOnly THEN s
        ELSE IF possible # <<>> THEN SetChannelByRefnum(s, found, Last(possible))
        ELSE IF theirs = Shut \/ (IsBound(s, theirs, server) # 0 /\ found # refnum) THEN s
        ELSE IF freed THEN [left EXCEPT !.panes[found].channel = Garbled]
        ELSE SetChannelByRefnum(s, found, theirs)

\* It comes to that.
HandsOver(s, c, server, refnum) ==
    LET talking == Talking(s, c, server)
        quiet == Quiet(s, Range(talking))
        found == Last(talking)
        other == PaneByRefnum(s, refnum)
    IN  /\ talking # <<>> /\ ~targetEnv.sameWindowOnly
        /\ \A d \in Range(Entries(s, server)) \ {c} : s.lists[server][d].window # found
        /\ Movable(quiet, c, server, found) = {}
        /\ quiet.panes[other].channel # Shut

IsCurrentChannel(s, c, server) == Talking(s, c, server) # <<>>

\* is_current_channel() that takes the channel away from the window talking to it
TakeChannel(s, c, server, refnum) ==
    LET talking == Talking(s, c, server)
    IN  IF talking = <<>> THEN s
        ELSE ChannelIsOnWindow(Quiet(s, Range(talking)), c, server, Last(talking), refnum)

\* The window a channel just joined is talked to in.
ChannelJoined(s, c, server) ==
    LET its == OfServer(s, server)
        expected == s.lists[server][c].window
        w == IF expected \in Range(its) THEN expected ELSE IF its # <<>> THEN its[1] ELSE s.here
    IN  [SetChannelByRefnum(s, w, c) EXCEPT !.lists[server][c].window = w]

AddChannel(s, c, server, how, window) ==
    LET bound == IsBound(s, c, server)
        first == IF window # 0 THEN window
                 ELSE IF Listed(s, c, server) THEN s.lists[server][c].window
                 ELSE IF bound # 0 THEN bound ELSE s.here
        listed == [s EXCEPT !.lists[server][c] = [how |-> how, window |-> first]]
    IN  IF how = "joined" /\ ~IsCurrentChannel(listed, c, server) THEN ChannelJoined(listed, c, server) ELSE listed

RemoveChannel(s, c, server) ==
    TakeChannel([s EXCEPT !.lists[server][c] = NotListed], c, server, s.lists[server][c].window)

ClearChannelList(s, server) ==
    [Quiet(s, Range(OfServer(s, server))) EXCEPT !.lists[server] = [c \in ChannelNames |-> NotListed]]

\* realloc_channels(): only the list of the window's server of now is looked at.
ReallocChannels(s, w) ==
    LET server == s.panes[w].server
        Its(v) == v # w /\ s.panes[v].server = server
        others == SelectSeq(s.traversal, Its)
        moved == {c \in ChannelNames : Listed(s, c, server) /\ s.lists[server][c].window = w}
        heir == others[1]
        Shown(c) == c \in moved
        firstMoved == SelectSeq(ChannelOrder, Shown)
        handed == [s EXCEPT !.lists[server] =
                      [c \in ChannelNames |-> IF c \in moved THEN [@[c] EXCEPT !.window = heir] ELSE @[c]]]
    IN  IF server = Alone THEN s
        ELSE IF others = <<>>
        THEN [s EXCEPT !.lists[server] = [c \in ChannelNames |-> [@[c] EXCEPT !.window = 0]]]
        ELSE IF moved = {} \/ s.panes[heir].channel # Shut THEN handed
        ELSE SetChannelByRefnum(handed, heir, firstMoved[1])

\* window_check_servers(): windows of servers that are gone have the primary server, servers
\* without windows are closed, and there is a primary server if any is left.
CheckServers(s) ==
    LET gone == {w \in Alive(s) : s.panes[w].server \notin s.up \cup {Alone}}
        moved == [Quiet(s, gone) EXCEPT !.panes =
                     [w \in DOMAIN @ |-> IF w \in gone THEN [@[w] EXCEPT !.server = s.primary] ELSE @[w]]]
        kept == {t \in s.up : OfServer(moved, t) # <<>>}
        prime == IF kept = {} THEN Alone ELSE CHOOSE t \in kept : \A v \in kept : v <= t
        lost == {w \in Alive(s) : moved.panes[w].server = s.primary}
        closed == [moved EXCEPT !.up = kept, !.registered = @ \cap kept]
    IN  IF s.primary \in kept THEN closed
        ELSE [closed EXCEPT !.primary = prime,
                 !.panes = [w \in DOMAIN @ |-> IF w \in lost THEN [@[w] EXCEPT !.server = prime] ELSE @[w]]]

----------------------------------------------------------------------------
(* window_set_server()                                                     *)

\* channels_move_server_simple(): the whole list.
MoveList(s, old, server) ==
    LET list == s.lists[old]
        add(t, c) == AddChannel(t, c, server, "limbo", list[c].window)
    IN  IF Entries(s, old) = <<>> THEN s
        ELSE FoldLeft(add, ClearChannelList(s, server), Entries(s, old))

\* channels_move_server_complex(): the channels of one window, or where they are left.
MoveSome(s, window, heir, old, server, force) ==
    LET Its(c) == s.lists[old][c].window = window
        its == SelectSeq(Entries(s, old), Its)
        move(t, c) == RemoveChannel(AddChannel(t, c, server, "limbo", window), c, old)
        leave(t, c) == [t EXCEPT !.lists[old][c].window = heir]
    IN  IF its = <<>> THEN s
        ELSE IF s.panes[window].sticky \/ force THEN FoldLeft(move, ClearChannelList(s, server), its)
        ELSE FoldLeft(leave, s, its)

MovePanes(s, windows, server) ==
    [Quiet(s, windows) EXCEPT !.panes =
        [w \in DOMAIN @ |-> IF w \in windows THEN [@[w] EXCEPT !.server = server] ELSE @[w]]]

\* All windows of one server to another.
SetServerAll(s, old, server, transfer) ==
    LET moved == IF transfer /\ old # Alone THEN ClearChannelList(MoveList(s, old, server), old) ELSE s
    IN  CheckServers(MovePanes(moved, Range(OfServer(moved, old)), server))

SetServerOf(s, window, server, transfer, force) ==
    LET old == s.panes[window].server
        Its(w) == w # window /\ s.panes[w].server = old
        others == SelectSeq(s.traversal, Its)
        moved == IF transfer /\ old # Alone THEN MoveSome(s, window, others[1], old, server, force) ELSE s
    IN  IF server = old THEN s
        ELSE IF others = <<>> THEN SetServerAll(s, old, server, transfer)
        ELSE CheckServers(MovePanes(moved, {window}, server))

Connected(s, server) == [s EXCEPT !.up = @ \cup {server}]

----------------------------------------------------------------------------
(* What is typed.                                                          *)

Home == panes[here].server
Chosen(word, c, refnum) ==
    /\ word \in targetEnv.words /\ c \in targetEnv.channels /\ Home # Alone
    /\ targetEnv.careful => ~HandsOver(State, c, Home, refnum)

\* do_channel() takes the channel away for window 1.
Channel(c) ==
    /\ Chosen("channel", c, 1)
    /\ IF IsBound(State, c, Home) # 0 /\ Listed(State, c, Home) /\ lists[Home][c].window # here
       THEN UNCHANGED targetsVars
       ELSE IF IsJoined(State, c, Home)
       THEN TargetsBecome(SetChannelByRefnum(TakeChannel(State, c, Home, 1), 0, c))
       ELSE TargetsBecome(AddChannel(State, c, Home, "joining", 0))

\* WINDOW CHANNEL
WindowChannel(c) ==
    /\ Chosen("channel", c, here)
    /\ IF IsBound(State, c, Home) # 0 THEN UNCHANGED targetsVars
       ELSE IF IsJoined(State, c, Home)
       THEN TargetsBecome(SetChannelByRefnum(TakeChannel(State, c, Home, here), 0, c))
       ELSE TargetsBecome(AddChannel(State, c, Home, "joining", 0))

WindowChannelNone ==
    /\ "channel" \in targetEnv.words
    /\ TargetsBecome(SetChannelByRefnum(State, 0, Shut))

\* WINDOW BIND: not while any other window has it, of whatever server.
BindChannel(c) ==
    /\ Chosen("bind", c, here)
    /\ \A w \in Alive(State) \ {here} : panes[w].bound # c
    /\ LET taken == IF IsJoined(State, c, Home)
                    THEN SetChannelByRefnum(TakeChannel(State, c, Home, here), 0, c) ELSE State
       IN  TargetsBecome([taken EXCEPT !.panes[here].bound = c])

UnbindChannel(c) ==
    /\ Chosen("bind", c, here)
    /\ LET w == IsBound(State, c, Home)
       IN  w # 0 /\ TargetsBecome([State EXCEPT !.panes[w].bound = Shut])

\* The key that goes to the next channel of the list that no window talks to.
SwitchChannels ==
    /\ "switch" \in targetEnv.words /\ Home # Alone
    /\ Listed(State, panes[here].channel, Home)
    /\ LET list == Entries(State, Home)
           from == CHOOSE i \in DOMAIN list : list[i] = panes[here].channel
           round == SubSeq(list, from + 1, Len(list)) \o list
           May(c) == /\ ~IsCurrentChannel(State, c, Home)
                     /\ IsBound(State, c, Home) # 0 => lists[Home][c].window = here
           next == SelectSeq(round, May)
       IN  next # <<>> /\ TargetsBecome(SetChannelByRefnum(State, 0, next[1]))

\* WINDOW LEVEL: the others of the same server give up what this window takes.
WindowLevel(taken) ==
    /\ "level" \in targetEnv.words
    /\ TargetsBecome([State EXCEPT !.panes =
          [w \in DOMAIN panes |->
              IF w = here THEN [panes[w] EXCEPT !.levels = taken]
              ELSE IF panes[w].server = Home THEN [panes[w] EXCEPT !.levels = @ \ taken] ELSE panes[w]]])

Query(who) ==
    /\ "query" \in targetEnv.words
    /\ TargetsBecome([State EXCEPT !.panes[here].query = who])

WindowSticky ==
    /\ "windows" \in targetEnv.words
    /\ TargetsBecome([State EXCEPT !.panes[here].sticky = ~@])

WindowOpen(at) ==
    /\ "windows" \in targetEnv.words
    /\ Len(panes) < targetEnv.windows
    /\ LET new == Len(panes) + 1
       IN  TargetsBecome([State EXCEPT !.panes = Append(@, Blank(Home)), !.traversal = InsertAt(@, at, new),
                                 !.here = new])

\* delete_window(); the next current window is any.
WindowClose(next) ==
    /\ "windows" \in targetEnv.words
    /\ Len(traversal) > 1 /\ next \in Alive(State) \ {here}
    /\ LET left == [ReallocChannels(State, here) EXCEPT !.traversal = SelectSeq(@, LAMBDA w : w # here),
                                                        !.here = next, !.panes[here] = Blank(Alone)]
       IN  TargetsBecome(CheckServers(left))

WindowGoto(w) ==
    /\ w \in Alive(State) \ {here}
    /\ here' = w
    /\ UNCHANGED <<panes, traversal, lists, up, registered, primary, targetEnv>>

\* SERVER: every window of the primary server, and the channels unless we were there already.
ServerChosen(server) ==
    /\ "server" \in targetEnv.words /\ server \in targetEnv.servers
    /\ server # primary \/ server \notin up
    /\ LET connected == [Connected(State, server) EXCEPT !.primary = server]
       IN  IF server = primary THEN TargetsBecome(connected)
           ELSE TargetsBecome(SetServerAll(connected, primary, server, server \notin registered))

\* WINDOW SERVER, with '=' for all windows of the server, with '~' as if the window were sticky.
WindowServerChosen(server, how) ==
    /\ "server" \in targetEnv.words /\ server \in targetEnv.servers /\ server # Home
    /\ LET last == Len(OfServer(State, Home)) = 1
           transfer == server \notin registered
       IN  IF last \/ how = "="
           THEN TargetsBecome(SetServerAll(Connected(State, server), Home, server, transfer))
           ELSE TargetsBecome(SetServerOf(Connected(State, server), here, server, transfer, how = "~"))

----------------------------------------------------------------------------
(* What servers send.                                                      *)

\* reconnect_all_channels()
Registered(server) ==
    /\ server \in up \ registered
    /\ registered' = registered \cup {server}
    /\ lists' = [lists EXCEPT ![server] =
                    [c \in ChannelNames |-> IF @[c].how = "none" THEN @[c] ELSE [@[c] EXCEPT !.how = "joining"]]]
    /\ UNCHANGED <<panes, traversal, here, up, primary, targetEnv>>

JoinArrives(server, c) ==
    /\ server \in registered /\ lists[server][c].how = "joining"
    /\ TargetsBecome(AddChannel(State, c, server, "joined", 0))

PartArrives(server, c) ==
    /\ "part" \in targetEnv.words
    /\ server \in registered /\ lists[server][c].how = "joined"
    /\ TargetsBecome(RemoveChannel(State, c, server))

\* The connection is lost, and cannot be made again.
ServerLost(server) ==
    /\ "lose" \in targetEnv.words /\ server \in up
    /\ TargetsBecome(CheckServers([State EXCEPT !.up = @ \ {server}, !.registered = @ \ {server}]))

TargetsNext ==
    \/ \E c \in ChannelNames :
          \/ Channel(c) \/ WindowChannel(c) \/ BindChannel(c) \/ UnbindChannel(c)
          \/ \E server \in TargetServers : JoinArrives(server, c) \/ PartArrives(server, c)
    \/ WindowChannelNone \/ SwitchChannels \/ WindowSticky
    \/ \E taken \in SUBSET TargetLevels : WindowLevel(taken)
    \/ \E who \in {Shut, Somebody} : Query(who)
    \/ \E at \in 1 .. Len(traversal) + 1 : WindowOpen(at)
    \/ \E w \in DOMAIN panes : WindowClose(w) \/ WindowGoto(w)
    \/ \E server \in TargetServers :
          \/ ServerChosen(server) \/ Registered(server) \/ ServerLost(server)
          \/ \E how \in {"", "=", "~"} : WindowServerChosen(server, how)

TargetsSpec == TargetsInit /\ [][TargetsNext]_targetsVars

----------------------------------------------------------------------------
(* Where a message goes.                                                   *)

\* add_to_screen() for a message from a channel or from somebody, of a level.
AddToScreen(server, from, level) ==
    LET Asked(w) == panes[w].server = server /\ panes[w].query = from
        Its(w) == panes[w].server = server /\ level \in panes[w].levels
        window == IF Listed(State, from, server) THEN lists[server][from].window ELSE 0
        asked == IF from \in ChannelNames THEN <<>> ELSE SelectSeq(traversal, Asked)
        levels == SelectSeq(traversal, Its)
        own == OfServer(State, server)
    IN  IF from \in ChannelNames /\ Listed(State, from, server)
        THEN IF window # 0 THEN window ELSE here
        ELSE IF asked # <<>> THEN asked[1]
        ELSE IF levels # <<>> THEN levels[1]
        ELSE IF Home = server \/ own = <<>> THEN here ELSE own[1]

\* get_target_by_refnum(): whom what is typed in a window goes to.
TargetOf(w) == IF panes[w].query # Shut THEN panes[w].query ELSE panes[w].channel

----------------------------------------------------------------------------
(* Properties.                                                             *)

\* What is typed in a window is shown in it, and so are the answers: its channel is in the list
\* of its server and the entry names the window, whatever commands, joins, moves to other
\* servers and lost connections there were.
TalkIsShown ==
    \A w \in Alive(State) :
        /\ panes[w].channel # Shut =>
              Listed(State, panes[w].channel, panes[w].server)
        /\ TargetOf(w) \in ChannelNames => AddToScreen(panes[w].server, TargetOf(w), "PUBLIC") = w

\* Claim of names.c (realloc_channels(): "Attempts to reallocate a channel to a window of the
\* same server"): when a window is killed its channels go to another, none keeps the window.
NoneKeepsAKilledWindow ==
    \A server \in TargetServers : \A c \in ChannelNames :
        lists[server][c].window \in Alive(State) \cup {0}

\* Claim of help/set/same_window_only:13 (a window that has lost its channel gets one of its own,
\* or "an unbound channel in a different window associated to the same server"): what a window
\* talks to is a channel of its server.
TalkIsOfAChannel ==
    \A w \in Alive(State) :
        panes[w].channel # Shut /\ panes[w].server \in registered =>
            Listed(State, panes[w].channel, panes[w].server)

\* Claim of help/window/bind ("should not ever move, without being unbound"): a bound channel is
\* talked to only where it is bound.
BoundStays ==
    \A w, v \in Alive(State) :
        panes[w].bound # Shut /\ panes[w].server = panes[v].server /\ panes[v].channel = panes[w].bound => v = w

=============================================================================
