------------------------------ MODULE Servers ------------------------------
(***************************************************************************)
(* The server list of ircII (server.c) and the association of windows with *)
(* servers (window.c): connecting, switching from one server to another    *)
(* while the old connection is kept until the new one has logged in,       *)
(* failing over on EOF, disconnecting, and deleting entries of the list.   *)
(*                                                                         *)
(* The client is one thread: an action is one whole run of a handler (a    *)
(* slash command, or the body of do_server's loop for one server), and     *)
(* between two of them only the network moves.  The C functions call each  *)
(* other, so each is an operator from a world (a record of the globals     *)
(* they touch) to the world they leave.                                    *)
(***************************************************************************)
EXTENDS Integers, FiniteSets

CONSTANTS
    MaxServers,   \* bound: most entries the server list ever has
    MaxRich,      \* bound: longer lists have plain servers only, and no channels
    Windows,      \* windows that may exist
    Channels,     \* channels a server's chan_list may hold
    Groups,       \* server groups in use, a subset of {0, 1}
    Commands,     \* what the user may type, a subset of AllCommands
    Outcomes,     \* what connect() may do: subset of ConnectOutcomes
    Ssls,         \* kinds of server: TRUE for SSL or a proxy, FALSE for plain
    Patient       \* TRUE: the user starts no switch while one is unfinished

ConnectOutcomes == {"fail", "pending", "up"}

AllCommands == {"server", "window", "disconnect", "delete", "windows", "password"}

ASSUME MaxServersAssumption == MaxServers \in Nat \ {0} /\ MaxRich \in Nat
ASSUME OutcomesAssumption == Outcomes \subseteq ConnectOutcomes
ASSUME InputAssumption == Groups \subseteq {0, 1} /\ Commands \subseteq AllCommands
ASSUME FlagsAssumption == Ssls \subseteq BOOLEAN /\ Patient \in BOOLEAN

VARIABLE world    \* the globals below, as one record
vars == <<world>>

Slots == 0 .. MaxServers - 1
Index == -1 .. MaxServers - 1
NoWindow == -2                 \* a window that does not exist

(***************************************************************************)
(* One entry of server_list.  sock abstracts read/write and the peer:      *)
(*   none     read == write == -1                                          *)
(*   pending  connect() said EINPROGRESS, not decided yet                  *)
(*   up       the peer accepted: getpeername() succeeds                    *)
(*   dead     refused, reset or closed: readable, and dgets() says EOF     *)
(* addrs is res0 # NULL: the resolver gave further addresses to try.       *)
(***************************************************************************)
Server == [sock: {"none", "pending", "up", "dead"},
           connected: BOOLEAN,      \* ->connected, set by 001/002
           tcpDone: BOOLEAN,        \* CONNECTED
           loggedIn: BOOLEAN,       \* LOGGED_IN
           closePending: BOOLEAN,   \* CLOSE_PENDING
           clearPending: BOOLEAN,   \* CLEAR_PENDING
           closeServ: Index,        \* ->close_serv
           eof: BOOLEAN,
           addrs: BOOLEAN,
           group: {0, 1},           \* ->server_group
           ssl: BOOLEAN,            \* ->ssl_level, or ->proxy_name
           chans: SUBSET Channels]  \* ->chan_list

World == [n: 0 .. MaxServers,            \* number_of_servers_count
          srv: [Slots -> Server],        \* server_list; slots >= n are unused
          win: [Windows -> Index \cup {NoWindow}],   \* window->server
          primary: Index,                \* primary_server
          times: 0 .. 2,                 \* do_server's static times
          asked: Index,                  \* entry of the "Server Password:" prompt
          alive: BOOLEAN]                \* connected_to_server() # 0

Blank == [sock |-> "none", connected |-> FALSE, tcpDone |-> FALSE,
          loggedIn |-> FALSE, closePending |-> FALSE, clearPending |-> FALSE,
          closeServ |-> -1, eof |-> FALSE, addrs |-> FALSE, group |-> 0,
          ssl |-> FALSE, chans |-> {}]

Open(s) == s.sock # "none"
IsConnected(s) == s.connected /\ s.loggedIn
Entries(w) == {i \in Slots : i < w.n}

-----------------------------------------------------------------------------
(* Closing a connection, and the upkeep of windows that follows it.        *)

\* close_server() for one entry: refused while the entry is CLOSE_PENDING.
Closed(s) ==
    IF s.closePending THEN s
    ELSE [s EXCEPT !.sock = "none", !.connected = FALSE, !.tcpDone = FALSE,
                   !.loggedIn = FALSE, !.clearPending = FALSE]

CloseServer(w, i) == [w EXCEPT !.srv[i] = Closed(@)]

(***************************************************************************)
(* window_check_servers().  Its loop visits the entries in index order:    *)
(* a window of a closed entry moves to the primary server when that entry  *)
(* is visited, so it counts for a primary that comes later in the list and *)
(* not for one that has been visited already.                              *)
(***************************************************************************)
OnClosed(w, i) == {v \in Windows : w.win[v] = i /\ ~Open(w.srv[i])}
HasWindow(w, i) ==
    /\ Open(w.srv[i])
    /\ \/ \E v \in Windows : w.win[v] = i
       \/ i = w.primary /\ \E j \in Entries(w) : j < i /\ OnClosed(w, j) # {}
Prime(w) ==
    LET last == {i \in Entries(w) :
                    /\ HasWindow(w, i)
                    /\ \A j \in Entries(w) : HasWindow(w, j) => j <= i}
    IN  IF last = {} THEN -1 ELSE CHOOSE i \in last : TRUE

\* Mutant: an entry that has no descriptor is left as it is.
SweptIfOpen(w, i) == Open(w.srv[i]) /\ ~HasWindow(w, i)

\* Entries without a window are closed, those without a descriptor too.
Swept(w, i) == ~HasWindow(w, i)

WindowCheckServers(w) ==
    LET srv == [i \in Slots |-> IF Swept(w, i) THEN Closed(w.srv[i]) ELSE w.srv[i]]
        win == [v \in Windows |->
                    IF \E i \in Entries(w) : v \in OnClosed(w, i)
                    THEN w.primary ELSE w.win[v]]
        lost == ~(w.primary \in Slots /\ Open(srv[w.primary]))
    IN  [w EXCEPT
            !.srv = srv,
            !.win = [v \in Windows |-> IF lost /\ win[v] = w.primary
                                       THEN Prime(w) ELSE win[v]],
            !.primary = IF lost THEN Prime(w) ELSE @,
            !.alive = \E i \in Entries(w) : HasWindow(w, i)]

\* Mutant: old's list is cleared and marked whether or not old is closing.
MoveChannelsAtOnce(w, old, new, transfer) ==
    IF ~transfer \/ old = -1 THEN w.srv
    ELSE [i \in Slots |->
            IF i = old THEN [w.srv[i] EXCEPT !.chans = {}, !.clearPending = TRUE]
            ELSE IF i = new /\ w.srv[old].chans # {}
            THEN [w.srv[i] EXCEPT !.chans = w.srv[old].chans]
            ELSE w.srv[i]]

(***************************************************************************)
(* The WIN_ALL branch of window_set_server(): every window of old moves to *)
(* new.  A transfer copies old's channels to new's list, and leaves old's  *)
(* to be cleared later (CLEAR_PENDING) if old is still to be closed.       *)
(***************************************************************************)
MoveChannels(w, old, new, transfer) ==
    IF ~transfer \/ old = -1 THEN w.srv
    ELSE [i \in Slots |->
            IF i = old
            THEN IF w.srv[i].closePending THEN [w.srv[i] EXCEPT !.clearPending = TRUE]
                                          ELSE [w.srv[i] EXCEPT !.chans = {}]
            ELSE IF i = new /\ w.srv[old].chans # {}
            THEN [w.srv[i] EXCEPT !.chans = w.srv[old].chans]
            ELSE w.srv[i]]

MoveWindows(w, old, new, transfer) ==
    WindowCheckServers(
        [w EXCEPT !.srv = MoveChannels(w, old, new, transfer),
                  !.win = [v \in Windows |-> IF w.win[v] = old THEN new
                                                               ELSE w.win[v]]])

\* window_set_server(-1, new, flags): the primary server and its windows.
SetPrimary(w, new, transfer) ==
    IF w.primary = new THEN w
    ELSE MoveWindows([w EXCEPT !.primary = new], w.primary, new, transfer)

\* window_set_server(refnum, new, flags): one window, or all of its server's
\* windows if asked to or if it is the only one.  Windows are in no group.
SetWindow(w, v, new, transfer, all) ==
    LET old == w.win[v]
        alone == \A u \in Windows \ {v} : w.win[u] # old
    IN  IF new = old THEN w
        ELSE IF all \/ alone THEN MoveWindows(w, old, new, transfer)
        ELSE WindowCheckServers([w EXCEPT !.win[v] = new])

-----------------------------------------------------------------------------
(* Logging in, and giving an unfinished switch up.                         *)

\* The part reestablish_close_server() and disconnectcmd() share: the old
\* server counts as connected again and the windows of i go back to it.
Resume(w, i, old) ==
    LET freed == [w.srv EXCEPT ![i].closeServ = -1]
        again == [freed[old] EXCEPT !.closePending = FALSE, !.clearPending = FALSE,
                                    !.loggedIn = TRUE, !.connected = TRUE]
        back == [w EXCEPT !.srv = [freed EXCEPT ![old] = again]]
    IN  IF (\E v \in Windows : w.win[v] = i) /\ i # old
        THEN MoveWindows(back, i, old, FALSE) ELSE back

ReestablishCloseServer(w, i, old) ==
    WindowCheckServers(IF w.srv[old].closePending THEN Resume(w, i, old) ELSE w)

\* Mutants: close_serv is not reset; the old entry is closed before its
\* CLOSE_PENDING is taken back, so that close_server() does nothing.
FinishSwitchStale(w, i) ==
    LET old == w.srv[i].closeServ
        done == [w EXCEPT !.srv[i].addrs = FALSE]
        left == [done.srv[old] EXCEPT !.closePending = FALSE, !.clearPending = FALSE]
    IN  IF old = -1 THEN done ELSE [done EXCEPT !.srv[old] = Closed(left)]

FinishSwitchPending(w, i) ==
    LET old == w.srv[i].closeServ
        done == [w EXCEPT !.srv[i].addrs = FALSE, !.srv[i].closeServ = -1]
    IN  IF old = -1 THEN done ELSE [done EXCEPT !.srv[old] = Closed(@)]

\* login_to_server_nonblocking(): the switch is decided, the old one closes.
FinishSwitch(w, i) ==
    LET old == w.srv[i].closeServ
        done == [w EXCEPT !.srv[i] = [@ EXCEPT !.addrs = FALSE, !.closeServ = -1]]
        left == [done.srv[old] EXCEPT !.closePending = FALSE, !.clearPending = FALSE,
                     !.chans = IF w.srv[old].clearPending THEN {} ELSE @]
    IN  IF old = -1 THEN done ELSE [done EXCEPT !.srv[old] = Closed(left)]

\* What connect() may do for each entry of the list, should it be tried.
Dials(w) ==
    {os \in [Slots -> ConnectOutcomes] :
        \A i \in Slots : os[i] \in IF i < w.n THEN Outcomes ELSE {"fail"}}

\* The answers to consider if connect() does outs, and what an entry makes of
\* one: only a peer that is there at once is talked to at once.
Answers(outs) == IF TRUE \in Ssls /\ "up" \in outs THEN {"ok", "wait", "fail"} ELSE {"ok"}
Results(os) == {os[i] : i \in Slots}
Answered(s, l) == IF s.ssl THEN l ELSE "ok"

\* What the TLS/proxy handshake may answer: nothing to do without one.
LoginOutcomes(s) ==
    IF ~s.ssl THEN {"ok"} ELSE IF s.sock = "up" THEN {"ok", "wait", "fail"}
                                              ELSE {"fail"}

\* login_to_server(), with the answer l of server_check_ssl() or the proxy.
LoginToServer(w, i, l) ==
    LET old == w.srv[i].closeServ
        failed == CloseServer(w, i)
    IN  CASE l = "wait" -> [w EXCEPT !.srv[i] = [@ EXCEPT !.tcpDone = TRUE]]
          [] l = "ok"   -> FinishSwitch([w EXCEPT !.srv[i] =
                                [@ EXCEPT !.tcpDone = TRUE, !.loggedIn = TRUE]], i)
          [] l = "fail" -> IF ~w.srv[i].loggedIn /\ old \notin {-1, i}
                           THEN ReestablishCloseServer(failed, i, old)
                           ELSE failed

-----------------------------------------------------------------------------
(* Connecting, and keeping the user connected.                             *)

(***************************************************************************)
(* connect_to_server(): connect entry i, to close c once i has logged in.  *)
(* o is what connect() does, l what the handshake answers if the peer is   *)
(* there at once.  An entry that is open but not registered is closed      *)
(* first - unless it is CLOSE_PENDING: then close_server() does nothing    *)
(* and the new descriptor overwrites the old one.                          *)
(***************************************************************************)
Hung(s) == [(IF Open(s) THEN Closed(s) ELSE s) EXCEPT !.addrs = FALSE]

Dialled(w, i, c, o) ==
    LET new == [w EXCEPT !.srv[i] = [Hung(@) EXCEPT
                    !.sock = o, !.loggedIn = FALSE,
                    !.addrs = o = "pending" /\ ~w.srv[i].addrs,
                    !.closeServ = IF c = i THEN -1 ELSE c]]
    IN  IF c \in {-1, i} THEN new
        ELSE [new EXCEPT !.srv[c] = [@ EXCEPT !.closePending = TRUE, !.connected = FALSE]]

Connects(w, i, o) == IsConnected(w.srv[i]) \/ o # "fail"

ConnectToServer(w, i, c, o, l) ==
    IF IsConnected(w.srv[i])
    THEN IF c \in {-1, i} THEN w ELSE CloseServer(w, c)
    ELSE IF o = "fail" THEN [w EXCEPT !.srv[i] = Hung(@)]
    ELSE IF o = "up" THEN LoginToServer(Dialled(w, i, c, o), i, Answered(w.srv[i], l))
    ELSE Dialled(w, i, c, o)

(***************************************************************************)
(* get_connected(): try the entries round-robin from s until an attempt    *)
(* leaves a descriptor open.  The attempts before that one fail, and each  *)
(* closes the entry it tried.  An entry that is CLOSE_PENDING and open     *)
(* stops the search although the attempt failed.                           *)
(***************************************************************************)
GetConnected(w, s, os, l) ==
    LET first == IF s = w.n THEN 0 ELSE IF s < 0 THEN w.n - 1 ELSE s
        At(k) == (first + k) % w.n
        Stops(i) == Connects(w, i, os[i]) \/ (w.srv[i].closePending /\ Open(w.srv[i]))
        reached == {k \in 0 .. w.n - 1 : \A m \in 0 .. k - 1 : ~Stops(At(m))}
        ends == {k \in reached : Stops(At(k))}
        last == CHOOSE k \in ends : TRUE
        to == At(last)
        left == [w EXCEPT !.srv = [i \in Slots |->
                    IF \E k \in reached \ ends : i = At(k) THEN Hung(w.srv[i])
                                                         ELSE w.srv[i]]]
    IN  IF ends = {} THEN left
        ELSE IF ~Connects(w, to, os[to]) THEN [left EXCEPT !.srv[to] = Hung(@)]
        ELSE SetPrimary(ConnectToServer(left, to, w.primary, os[to], l), to,
                        last = 0 \/ ~IsConnected(w.srv[to]))

\* server_group_get_connected_next(): the next entry of the same group.
GroupGetConnectedNext(w, i, os, l) ==
    LET Mate(k) == w.srv[(i + k) % w.n].group = w.srv[i].group
        next == {k \in 1 .. w.n - 1 : Mate(k) /\ \A m \in 1 .. k - 1 : ~Mate(m)}
    IN  IF next = {} THEN w
        ELSE GetConnected(w, (i + (CHOOSE k \in next : TRUE)) % w.n, os, l)

(***************************************************************************)
(* do_server(), when dgets() reports EOF on entry i.                       *)
(***************************************************************************)
\* Mutant: times is counted but never compared.
PrimaryLostUncounted(w, i, os, l) == GetConnected([w EXCEPT !.times = @ + 1], i, os, l)

PrimaryLost(w, i, os, l) ==
    IF w.srv[i].eof
    THEN IF i = w.n - 1 THEN [WindowCheckServers(w) EXCEPT !.times = 0]
                        ELSE GroupGetConnectedNext(w, i, os, l)
    ELSE IF w.times > 1 THEN [WindowCheckServers(w) EXCEPT !.times = 0]
         ELSE GetConnected([w EXCEPT !.times = @ + 1], i, os, l)

Redial(w, i, o, l) ==
    LET r == ConnectToServer(w, i, -1, o, l)
    IN  IF Connects(w, i, o) THEN r ELSE WindowCheckServers(r)

ServerEof(w, i, os, l) ==
    LET old == w.srv[i].closeServ
        shut == CloseServer(w, i)
        MarkEof(x) == [x EXCEPT !.srv[i].eof = TRUE]
    IN  IF ~w.srv[i].loggedIn /\ shut.srv[i].addrs THEN Redial(shut, i, os[i], l)
        ELSE MarkEof(
            IF ~w.srv[i].loggedIn /\ old \notin {-1, i}
            THEN ReestablishCloseServer(shut, i, old)
            ELSE IF i = w.primary THEN PrimaryLost(shut, i, os, l)
            ELSE IF shut.srv[i].eof THEN WindowCheckServers(shut)
            ELSE Redial(shut, i, os[i], l))

-----------------------------------------------------------------------------
(* The network.  Everything else happens in the client's one thread.       *)

\* Where the code indexes an array with a stored server number it does not
\* check, the model goes no further once such a number is out of range.
InRange(w, i) == i < w.n
Sane(w) ==
    /\ InRange(w, w.primary)
    /\ \A v \in Windows : InRange(w, w.win[v])
    /\ \A i \in Entries(w) : InRange(w, w.srv[i].closeServ)
    /\ InRange(w, w.asked)

NetAccept(i) ==
    /\ world.srv[i].sock = "pending"
    /\ world' = [world EXCEPT !.srv[i].sock = "up"]

\* A connection is refused, times out, is reset or closed by the server.
NetFail(i) ==
    /\ world.srv[i].sock \in {"pending", "up"}
    /\ world' = [world EXCEPT !.srv[i].sock = "dead"]

Undecided(i) == world.srv[i].sock = "pending"

-----------------------------------------------------------------------------
(* do_server()'s loop body for one entry that select() woke up for.        *)

Handshaking(s) == s.sock = "up" /\ ~s.loggedIn /\ ~s.tcpDone

\* Nothing to read yet: the connection has just been accepted.
DoServerAccepted(i) ==
    /\ Handshaking(world.srv[i])
    /\ \E l \in LoginOutcomes(world.srv[i]) : world' = LoginToServer(world, i, l)

\* Data before the login is complete goes to login_to_server() again.
DoServerHandshake(i) ==
    /\ Open(world.srv[i]) /\ ~world.srv[i].loggedIn
    /\ world.srv[i].sock = "up" /\ world.srv[i].tcpDone
    /\ \E l \in LoginOutcomes(world.srv[i]) : world' = LoginToServer(world, i, l)

\* EOF or a connection error.  An entry that is not logged in is first given
\* to login_to_server(), and dgets() is reached only if that logs it in.
DoServerEof(i) ==
    /\ world.srv[i].sock = "dead"
    /\ \E os \in Dials(world) :
       \E l \in Answers(Results(os)), m \in LoginOutcomes(world.srv[i]) :
          LET in == IF world.srv[i].loggedIn THEN world
                                            ELSE LoginToServer(world, i, m)
          IN  world' = IF in.srv[i].loggedIn THEN ServerEof(in, i, os, l) ELSE in

Talking(i) == world.srv[i].sock = "up" /\ world.srv[i].loggedIn

\* 001/002 or the version notice: got_initial_version() registers the user.
Welcome(i) ==
    /\ Talking(i) /\ ~world.srv[i].connected
    /\ world' = [world EXCEPT !.srv[i].connected = TRUE, !.srv[i].eof = FALSE]

\* KILL: p_server_kill().
Killed(i) ==
    /\ Talking(i)
    /\ world' = WindowCheckServers(CloseServer(world, i))

\* 463, no permission for this host: look for another server if none is left.
NoPermission(i) ==
    /\ Talking(i)
    /\ LET w == WindowCheckServers(CloseServer(world, i))
       IN  \/ w.alive /\ world' = w
           \/ /\ ~w.alive
              /\ \E os \in Dials(world) : \E l \in Answers(Results(os)) :
                    world' = GetConnected(w, i + 1, os, l)

\* 464: get_password() closes the connection, leaves the windows with it, and
\* asks.  Bound: one prompt at a time.
GetPassword(i) ==
    /\ "password" \in Commands /\ Talking(i) /\ world.asked = -1
    /\ world' = [CloseServer(world, i) EXCEPT !.asked = i]

-----------------------------------------------------------------------------
(* What the user types.                                                    *)

MaySwitch == Patient => \A i \in Entries(world) : ~world.srv[i].closePending

NewEntries == {[Blank EXCEPT !.group = k[1], !.ssl = k[2]] : k \in Groups \X Ssls}

\* What entry i may be if it is not in the list yet.
Rich(n, srv) == n <= MaxRich \/ \A i \in Slots : ~srv[i].ssl /\ srv[i].chans = {}
Unlisted(i) ==
    IF i < world.n THEN {Blank}
    ELSE {new \in NewEntries : Rich(i + 1, [world.srv EXCEPT ![i] = new])}

\* The entry a command names: one of the list, or a new one at its end.
Named(w, i, new) ==
    IF i < w.n THEN w ELSE [w EXCEPT !.n = @ + 1, !.srv[i] = new]

\* /SERVER host: switch the primary server and all its windows to entry i.
ServerCmd(i) ==
    /\ "server" \in Commands /\ MaySwitch /\ i <= world.n
    /\ \E o \in Outcomes, new \in Unlisted(i) : \E l \in Answers({o}) :
          LET w == Named(world, i, new)
              r == ConnectToServer(w, i, w.primary, o, l)
          IN  world' = IF Connects(w, i, o)
                       THEN SetPrimary(r, i, ~IsConnected(w.srv[i])) ELSE r

\* password_sendline(): the answer connects the entry the prompt was for.
PasswordSendline ==
    /\ world.asked # -1 /\ MaySwitch
    /\ \E o \in Outcomes : \E l \in Answers({o}) :
          world' = [ConnectToServer(world, world.asked, -1, o, l) EXCEPT !.asked = -1]

\* /SERVER + and /SERVER -: the next or the previous entry that answers.
ServerStep(d) ==
    /\ "server" \in Commands /\ MaySwitch /\ world.n > 0
    /\ \E os \in Dials(world) : \E l \in Answers(Results(os)) :
          world' = GetConnected(world, world.primary + d, os, l)

\* /WINDOW SERVER host: window_get_connected() for window v, and for all the
\* windows of its server if the name starts with '=' or v is the only one.
WindowServer(v, i, every) ==
    /\ "window" \in Commands /\ MaySwitch
    /\ world.win[v] # NoWindow /\ i <= world.n
    /\ \E o \in Outcomes, new \in Unlisted(i) : \E l \in Answers({o}) :
          LET w == Named(world, i, new)
              all == every \/ \A u \in Windows \ {v} : w.win[u] # w.win[v]
              r == ConnectToServer(w, i, IF all THEN w.win[v] ELSE -1, o, l)
          IN  world' = WindowCheckServers(
                  IF Connects(w, i, o)
                  THEN SetWindow(r, v, i, ~IsConnected(w.srv[i]), all) ELSE r)

\* /DISCONNECT: close entry i; if it was to replace another server, that
\* one counts as connected again.
Disconnect(i) ==
    /\ "disconnect" \in Commands
    /\ Open(world.srv[i])
    /\ LET old == world.srv[i].closeServ
           shut == [CloseServer(world, i) EXCEPT !.srv[i].eof = TRUE]
       IN  world' = WindowCheckServers(IF old \notin {-1, i}
                                       THEN Resume(shut, i, old) ELSE shut)

\* remove_from_server_list(): the entries above i move down by one.
Lowered(w, i) ==
    LET shut == CloseServer(w, i)
        Down(k) == IF k > i THEN k - 1 ELSE k
    IN  [shut EXCEPT
            !.n = @ - 1,
            !.srv = [j \in Slots |-> IF j < i THEN shut.srv[j]
                                     ELSE IF j + 1 < w.n THEN shut.srv[j + 1]
                                     ELSE Blank],
            !.win = [v \in Windows |-> Down(w.win[v])],
            !.primary = Down(@)]

\* /SERVER -DELETE: refused only while ->connected is set.
DeleteServer(i) ==
    /\ "delete" \in Commands
    /\ world.n > 1 /\ ~world.srv[i].connected
    /\ world' = Lowered(world, i)

\* 465, banned from this server: the entry is removed from the list.
Banned(i) ==
    /\ "delete" \in Commands /\ Talking(i)
    /\ LET w == WindowCheckServers(CloseServer(world, i))
       IN  world' = IF w.n > 1 THEN Lowered(w, i) ELSE w

\* new_window() inherits the current window's server.
NewWindow(v) ==
    /\ "windows" \in Commands /\ world.win[v] = NoWindow
    /\ \E u \in Windows : /\ world.win[u] # NoWindow
                          /\ world' = [world EXCEPT !.win[v] = world.win[u]]

\* delete_window(): any window but the last.
DeleteWindow(v) ==
    /\ "windows" \in Commands /\ world.win[v] # NoWindow
    /\ \E u \in Windows \ {v} : world.win[u] # NoWindow
    /\ world' = WindowCheckServers([world EXCEPT !.win[v] = NoWindow])

\* A channel the user joins once registered.
JoinChannel(i, c) ==
    /\ Talking(i) /\ IsConnected(world.srv[i]) /\ c \notin world.srv[i].chans
    /\ world.n <= MaxRich
    /\ world' = [world EXCEPT !.srv[i].chans = @ \cup {c}]

-----------------------------------------------------------------------------
Init ==
    \E n \in 1 .. MaxServers, new \in [Slots -> NewEntries], v \in Windows :
        LET srv == [i \in Slots |-> IF i < n THEN new[i] ELSE Blank]
        IN  /\ Rich(n, srv)
            /\ world = [n |-> n, srv |-> srv,
                        win |-> [u \in Windows |-> IF u = v THEN -1 ELSE NoWindow],
                        primary |-> -1, times |-> 0, asked |-> -1, alive |-> FALSE]

Network == \E i \in Entries(world) : NetAccept(i) \/ NetFail(i)

DoServer(i) ==
    \/ DoServerAccepted(i) \/ DoServerHandshake(i) \/ DoServerEof(i)
    \/ Welcome(i) \/ Killed(i) \/ NoPermission(i) \/ Banned(i)
    \/ GetPassword(i)

User ==
    \/ \E i \in Slots : ServerCmd(i)
    \/ PasswordSendline
    \/ \E d \in {-1, 1} : ServerStep(d)
    \/ \E v \in Windows, i \in Slots, every \in BOOLEAN : WindowServer(v, i, every)
    \/ \E i \in Entries(world) : Disconnect(i) \/ DeleteServer(i)
    \/ \E v \in Windows : NewWindow(v) \/ DeleteWindow(v)
    \/ \E i \in Entries(world), c \in Channels : JoinChannel(i, c)

Next == Sane(world) /\ (Network \/ (\E i \in Entries(world) : DoServer(i)) \/ User)

Spec == Init /\ [][Next]_vars

\* The kernel decides every connect(), and the main loop serves every
\* descriptor that select() keeps reporting.  The user owes nothing.
FairSpec ==
    /\ Spec
    /\ \A i \in Slots : /\ WF_vars(NetAccept(i) \/ (Undecided(i) /\ NetFail(i)))
                        /\ WF_vars(DoServerAccepted(i))
                        /\ WF_vars(DoServerEof(i))

-----------------------------------------------------------------------------
TypeOK == world \in World

Pending(j) == world.srv[j].closePending
Holders(j) == {i \in Entries(world) : world.srv[i].closeServ = j}
Watched(j) == \E v \in Windows : world.win[v] = j

\* The two ends of a switch agree: a server waits to be closed exactly while
\* one other server is to close it (close_serv and CLOSE_PENDING).
PendingHasOneHolder ==
    \A j \in Entries(world) :
        /\ Pending(j) <=> Holders(j) # {}
        /\ Cardinality(Holders(j)) <= 1

\* Only a connection still on its way to being logged in holds another one
\* back: however an attempt ends, login_to_server(), reestablish_close_server()
\* or /DISCONNECT release the old server in the same step.
HolderIsUndecided ==
    \A i \in Entries(world) :
        world.srv[i].closeServ # -1 => Open(world.srv[i]) /\ ~world.srv[i].loggedIn

\* window_check_servers(): an open connection has a window, or is the old end
\* of a switch whose new end is still connecting.
NoOrphan ==
    \A j \in Entries(world) :
        Open(world.srv[j]) /\ ~Watched(j) =>
            \E i \in Holders(j) : Open(world.srv[i]) /\ ~world.srv[i].loggedIn

\* What is_server_connected() promises: a server that counts as connected has
\* a connection, also after a switch was undone or a failover gave up.
ConnectedIsOpen ==
    \A i \in Slots : IsConnected(world.srv[i]) => Open(world.srv[i])

\* Channels are set aside for clearing only on a server that is to be closed,
\* so that no later login or close clears a list the user still needs.
ClearOnlyIfPending ==
    \A j \in Slots : world.srv[j].clearPending => world.srv[j].closePending

\* Through switches begun, decided, undone and begun again, the entries agree on
\* who closes whom, and no connection is left that nobody will close.
SwitchConsistent ==
    PendingHasOneHolder /\ HolderIsUndecided /\ NoOrphan /\ ClearOnlyIfPending

\* connect_to_server(): the old connection is not closed before the peer of
\* the new one has accepted.
ClosedTooEarly(j) ==
    /\ Pending(j) /\ Open(world.srv[j]) /\ ~Open(world'.srv[j])
    /\ \A i \in Holders(j) : world.srv[i].sock # "up"
OldServerKept == [][\A j \in Entries(world) : ~ClosedTooEarly(j)]_vars

\* The same where the new server is one for SSL or a proxy, whose handshake
\* finds out that the peer is gone.
OldServerKeptForSsl ==
    [][\A j \in Entries(world) :
          (\A i \in Holders(j) : world.srv[i].ssl) => ~ClosedTooEarly(j)]_vars

\* While the old connection may still be resumed, its channel list survives:
\* the transfer to the new server copies it.
KeptChannels ==
    [][\A j \in Entries(world) :
          Open(world.srv[j]) /\ world'.srv[j].closePending
          => world.srv[j].chans \subseteq world'.srv[j].chans]_vars

\* What the old connection has, itself and its channels, is kept until the new one
\* takes its place.
OldConnectionKept == OldServerKeptForSsl /\ KeptChannels

\* A switch to a plain server is decided: no server stays CLOSE_PENDING for
\* ever.  (The code sets no limit to a TLS or proxy dialogue.)
SwitchDecided ==
    \A j \in Slots :
        (Pending(j) /\ \A i \in Holders(j) : ~world.srv[i].ssl) ~> ~Pending(j)

=============================================================================
