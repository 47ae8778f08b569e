------------------------------- MODULE Login --------------------------------
(***************************************************************************)
(* Logging in to an IRC server, and what client and server then both hold: *)
(* our nickname, user modes and away message there (numbers.c, notice.c,   *)
(* parse.c p_nick, edit.c, server.c).                                      *)
(*                                                                         *)
(* A connection is made or refused at once: Servers has what lies between. *)
(* Lines are on their way, in order, in both directions; what is on its    *)
(* way when a connection is closed is lost.                                *)
(***************************************************************************)
EXTENDS Naturals, Sequences, FiniteSets

CONSTANTS
    LoginServers,      \* servers; LoginPrimary is the primary one
    LoginPrimary,
    Nicknames,         \* nicknames
    Taken,             \* those somebody else has, everywhere
    MaxTyped,          \* bound: commands and answers of the user
    MaxEvents,         \* bound: connections lost, and things a server does of its own
    LoginSettings      \* what kinds of run there are, a subset of LoginSetting

NoNick == "none"
UserModes == {"i", "w", "o"}

LoginSetting ==
    [commands: SUBSET {"nick", "away", "all", "mode", "oper", "disconnect"},
     servers: SUBSET LoginServers,
     first: Nicknames,             \* what we are called to begin with
     secret: BOOLEAN,              \* the servers want a password
     forces: BOOLEAN,              \* services rename us, and give us modes
     careful: BOOLEAN]             \* see Careful and MayConnect

ASSUME LoginAssumption ==
    /\ LoginPrimary \in LoginServers /\ Taken \subseteq Nicknames /\ NoNick \notin Nicknames
    /\ {MaxTyped, MaxEvents} \subseteq Nat /\ LoginSettings \subseteq LoginSetting

VARIABLES
    entries,           \* server_list[]
    peers,             \* what each server has of us
    toServer, fromServer, \* lines on their way
    asking,            \* the prompts: the first is on the screen
    resetting,         \* already_doing_reset_nickname
    mine,              \* my_nickname()
    window,            \* the server of the current window
    typed, events,     \* count towards the bounds
    loginEnv           \* the setting of this run, never changed

loginVars == <<entries, peers, toServer, fromServer, asking, resetting, mine, window, typed, events, loginEnv>>

Away == {"", "lunch"}          \* "": not away
LoginEntry ==
    [up: BOOLEAN,                  \* read and write, and LOGGED_IN
     attempting: BOOLEAN,          \* attempting_to_connect
     connected: BOOLEAN,
     nickname: Nicknames \cup {NoNick},
     flags: SUBSET UserModes,      \* USER_MODE_I and USER_MODE_W; "o" is operator
     away: Away,
     operCommand: BOOLEAN,
     password: BOOLEAN]            \* the right one is known: a wrong one is as none
Peer ==
    [nick: Nicknames \cup {NoNick}, user: BOOLEAN, pass: BOOLEAN, registered: BOOLEAN,
     modes: SUBSET UserModes, away: Away,
     declined: BOOLEAN]            \* the user gave it none when asked, and no line has since; for RefusedIsAsked

Prompt == [for: {"nick", "password", "oper"}, server: LoginServers]

Stranger == [nick |-> NoNick, user |-> FALSE, pass |-> FALSE, registered |-> FALSE, modes |-> {}, away |-> "",
             declined |-> FALSE]

LoginTypeOK ==
    /\ entries \in [LoginServers -> LoginEntry] /\ peers \in [LoginServers -> Peer]
    /\ asking \in Seq(Prompt) /\ resetting \in BOOLEAN /\ mine \in Nicknames
    /\ window \in LoginServers /\ typed \in 0 .. MaxTyped /\ events \in 0 .. MaxEvents
    /\ loginEnv \in LoginSettings

NewEntry == [up |-> FALSE, attempting |-> FALSE, connected |-> FALSE, nickname |-> NoNick,
             flags |-> {}, away |-> "", operCommand |-> FALSE, password |-> FALSE]

LoginInit ==
    /\ loginEnv \in LoginSettings
    /\ entries = [s \in LoginServers |-> NewEntry] /\ peers = [s \in LoginServers |-> Stranger]
    /\ toServer = [s \in LoginServers |-> <<>>] /\ fromServer = [s \in LoginServers |-> <<>>]
    /\ asking = <<>> /\ resetting = FALSE /\ mine = loginEnv.first
    /\ window = LoginPrimary /\ typed = 0 /\ events = 0

----------------------------------------------------------------------------
(* What the handlers have in common.                                       *)

LoginRegistered(s) == entries[s].up /\ entries[s].connected                 \* is_server_connected()

\* send_to_server(): nothing, unless we are logged in.
Sends(s, entry, lines) ==
    /\ entries' = [entries EXCEPT ![s] = entry]
    /\ toServer' = [toServer EXCEPT ![s] = IF entry.up THEN @ \o lines ELSE @]

\* server_set_nickname()
Nicknamed(s, nick) == mine' = IF s = LoginPrimary THEN nick ELSE mine

\* close_server(): the flags go, and operator.
ClosedEntry(entry) == [entry EXCEPT !.up = FALSE, !.connected = FALSE, !.flags = {}]

ConnectionEnds(s) ==
    /\ entries' = [entries EXCEPT ![s] = ClosedEntry(@)]
    /\ peers' = [peers EXCEPT ![s] = Stranger]
    /\ toServer' = [toServer EXCEPT ![s] = <<>>]
    /\ fromServer' = [fromServer EXCEPT ![s] = <<>>]

\* irc2_login_to_server()
LoginLines(entry) ==
    (IF entry.password THEN <<[cmd |-> "PASS"]>> ELSE <<>>)
    \o <<[cmd |-> "NICK", nick |-> entry.nickname], [cmd |-> "USER"]>>

\* connect_to_server(), for a server that answers and for one that does not.  Nothing is done
\* when it is connected already, but it counts as one we try to connect to.
ConnectToServer(s, entry) ==
    IF LoginRegistered(s)
    THEN entries' = [entries EXCEPT ![s] = [entry EXCEPT !.attempting = TRUE]] /\ UNCHANGED <<peers, toServer, fromServer>>
    ELSE LET dialled == [ClosedEntry(entry) EXCEPT !.operCommand = FALSE]
             named == [dialled EXCEPT !.up = TRUE, !.attempting = TRUE,
                                      !.nickname = IF @ = NoNick THEN mine ELSE @]
         IN  /\ peers' = [peers EXCEPT ![s] = Stranger]
             /\ fromServer' = [fromServer EXCEPT ![s] = <<>>]
             /\ \/ /\ entries' = [entries EXCEPT ![s] = [dialled EXCEPT !.attempting = FALSE]]
                   /\ toServer' = [toServer EXCEPT ![s] = <<>>]
                \/ /\ entries' = [entries EXCEPT ![s] = named]
                   /\ toServer' = [toServer EXCEPT ![s] = LoginLines(named)]

----------------------------------------------------------------------------
(* The server.                                                             *)

RegisteredAs(p) ==
    IF p.nick = NoNick \/ ~p.user THEN [peer |-> p, says |-> <<>>]
    ELSE IF loginEnv.secret /\ ~p.pass THEN [peer |-> p, says |-> <<[num |-> "464"]>>]
    ELSE [peer |-> [p EXCEPT !.registered = TRUE],
          says |-> <<[num |-> "001", nick |-> p.nick], [num |-> "002"], [num |-> "376"]>>]

PeerTakes(p, line) ==
    CASE line.cmd = "NICK" /\ line.nick \in Taken -> [peer |-> [p EXCEPT !.declined = FALSE], says |-> <<[num |-> "433"]>>]
      [] line.cmd = "NICK" /\ line.nick \notin Taken /\ p.registered ->
            [peer |-> [p EXCEPT !.nick = line.nick],
             says |-> IF p.nick = line.nick THEN <<>> ELSE <<[num |-> "NICK", from |-> p.nick, to |-> line.nick]>>]
      [] line.cmd = "NICK" /\ line.nick \notin Taken /\ ~p.registered -> RegisteredAs([p EXCEPT !.nick = line.nick])
      [] line.cmd = "USER" -> IF p.registered THEN [peer |-> p, says |-> <<>>] ELSE RegisteredAs([p EXCEPT !.user = TRUE])
      [] line.cmd = "PASS" -> [peer |-> IF p.registered THEN p ELSE [p EXCEPT !.pass = TRUE], says |-> <<>>]
      [] line.cmd \in {"MODE", "AWAY", "OPER"} /\ ~p.registered -> [peer |-> p, says |-> <<[num |-> "451"]>>]
      [] line.cmd = "MODE" /\ p.registered ->
            LET modes == (p.modes \cup line.on) \ line.off
            IN  [peer |-> [p EXCEPT !.modes = modes],
                 says |-> <<[num |-> "MODE", on |-> modes \ p.modes, off |-> p.modes \ modes]>>]
      [] line.cmd = "AWAY" /\ p.registered -> [peer |-> [p EXCEPT !.away = line.text], says |-> <<>>]
      [] line.cmd = "OPER" /\ p.registered ->
            IF ~line.right THEN [peer |-> p, says |-> <<[num |-> "464"]>>]
            ELSE [peer |-> [p EXCEPT !.modes = @ \cup {"o"}],
                  says |-> <<[num |-> "381"], [num |-> "MODE", on |-> {"o"}, off |-> {}]>>]

PeerReads(s) ==
    /\ toServer[s] # <<>>
    /\ LET answer == PeerTakes(peers[s], Head(toServer[s]))
       IN  /\ peers' = [peers EXCEPT ![s] = answer.peer]
           /\ fromServer' = [fromServer EXCEPT ![s] = @ \o answer.says]
    /\ toServer' = [toServer EXCEPT ![s] = Tail(@)]
    /\ UNCHANGED <<entries, asking, resetting, mine, window, typed, events, loginEnv>>

\* Services give us another nickname, or a mode, or take operator from us.
PeerForces(s) ==
    /\ loginEnv.forces /\ peers[s].registered /\ events < MaxEvents
    /\ events' = events + 1
    /\ \/ \E nick \in Nicknames \ (Taken \cup {peers[s].nick}) :
            /\ peers' = [peers EXCEPT ![s].nick = nick]
            /\ fromServer' = [fromServer EXCEPT ![s] = Append(@, [num |-> "NICK", from |-> peers[s].nick, to |-> nick])]
       \/ \E mode \in {"i", "w"} :
            /\ peers' = [peers EXCEPT ![s].modes = @ \cup {mode}]
            /\ fromServer' = [fromServer EXCEPT ![s] = Append(@, [num |-> "MODE", on |-> {mode}, off |-> {}])]
       \/ /\ "o" \in peers[s].modes
          /\ peers' = [peers EXCEPT ![s].modes = @ \ {"o"}]
          /\ fromServer' = [fromServer EXCEPT ![s] = Append(@, [num |-> "385"])]
    /\ UNCHANGED <<entries, toServer, asking, resetting, mine, window, typed, loginEnv>>

ConnectionLost(s) ==
    /\ entries[s].up /\ events < MaxEvents
    /\ events' = events + 1
    /\ ConnectionEnds(s)
    /\ UNCHANGED <<asking, resetting, mine, window, typed, loginEnv>>

----------------------------------------------------------------------------
(* The lines of a server.                                                  *)

Hears(s, num) ==
    /\ fromServer[s] # <<>> /\ Head(fromServer[s]).num = num
    /\ UNCHANGED <<window, typed, events, loginEnv>>

Heard(s) == fromServer' = [fromServer EXCEPT ![s] = Tail(@)] /\ UNCHANGED peers

\* Mutant: what the server calls us when it lets us in is not looked at.
WelcomedAsAsked(s) ==
    /\ Hears(s, "001")
    /\ UNCHANGED <<mine, entries>>
    /\ Heard(s) /\ UNCHANGED <<toServer, asking, resetting>>

\* 001
Welcomed(s) ==
    /\ Hears(s, "001")
    /\ LET nick == Head(fromServer[s]).nick
       IN  /\ IF nick = entries[s].nickname THEN UNCHANGED mine ELSE Nicknamed(s, nick)
           /\ entries' = [entries EXCEPT ![s].nickname = nick]
    /\ Heard(s) /\ UNCHANGED <<toServer, asking, resetting>>

\* reinstate_user_modes(), and the away message.
Reinstated(entry) ==
    (IF entry.flags \ {"o"} = {} THEN <<>> ELSE <<[cmd |-> "MODE", on |-> entry.flags \ {"o"}, off |-> {}]>>)
    \o (IF entry.away = "" THEN <<>> ELSE <<[cmd |-> "AWAY", text |-> entry.away]>>)

GotInitialVersion(s) ==
    LET entry == [entries[s] EXCEPT !.attempting = FALSE, !.connected = TRUE]
    IN  Sends(s, entry, Reinstated(entry))

\* 002
YourHost(s) ==
    /\ Hears(s, "002")
    /\ GotInitialVersion(s)
    /\ Heard(s) /\ UNCHANGED <<asking, resetting, mine>>

\* 376
EndOfMotd(s) ==
    /\ Hears(s, "376")
    /\ IF entries[s].attempting THEN GotInitialVersion(s) ELSE UNCHANGED <<entries, toServer>>
    /\ Heard(s) /\ UNCHANGED <<asking, resetting, mine>>

\* reset_nickname() has something to do; NO_ASK_NICKNAME is off, as it is by default, and there is a
\* screen to ask on.
Resets(s) == ~resetting /\ ~LoginRegistered(s) /\ entries[s].attempting

\* 433, 432 and 437
Refused(s) ==
    /\ Hears(s, "433")
    /\ IF Resets(s)
       THEN resetting' = TRUE /\ asking' = Append(asking, [for |-> "nick", server |-> s])
       ELSE UNCHANGED <<resetting, asking>>
    /\ Heard(s) /\ UNCHANGED <<entries, toServer, mine>>

\* p_nick(): ours, if it is the nickname we think we have.
NickChanged(s) ==
    /\ Hears(s, "NICK")
    /\ LET line == Head(fromServer[s]) IN
       IF line.from = entries[s].nickname
       THEN entries' = [entries EXCEPT ![s].nickname = line.to] /\ Nicknamed(s, line.to)
       ELSE UNCHANGED <<entries, mine>>
    /\ Heard(s) /\ UNCHANGED <<toServer, asking, resetting>>

\* p_mode(): update_user_mode()
UserMode(s) ==
    /\ Hears(s, "MODE")
    /\ entries' = [entries EXCEPT ![s].flags = (@ \cup Head(fromServer[s]).on) \ Head(fromServer[s]).off]
    /\ Heard(s) /\ UNCHANGED <<toServer, asking, resetting, mine>>

\* 381 and 385
Operator(s) ==
    /\ \/ Hears(s, "381") /\ entries' = [entries EXCEPT ![s].flags = @ \cup {"o"}]
       \/ Hears(s, "385") /\ entries' = [entries EXCEPT ![s].flags = @ \ {"o"}]
    /\ Heard(s) /\ UNCHANGED <<toServer, asking, resetting, mine>>

\* 451
NotRegistered(s) ==
    /\ Hears(s, "451")
    /\ Sends(s, entries[s], <<[cmd |-> "USER"], [cmd |-> "NICK", nick |-> entries[s].nickname]>>)
    /\ Heard(s) /\ UNCHANGED <<asking, resetting, mine>>

\* 464: of an OPER command; otherwise get_password().
PasswordMismatch(s) ==
    /\ Hears(s, "464")
    /\ IF entries[s].operCommand THEN Heard(s) /\ UNCHANGED <<entries, toServer, asking>>
       ELSE ConnectionEnds(s) /\ asking' = Append(asking, [for |-> "password", server |-> s])
    /\ UNCHANGED <<resetting, mine>>

----------------------------------------------------------------------------
(* The user.                                                               *)

Types ==
    /\ typed < MaxTyped /\ typed' = typed + 1
    /\ UNCHANGED <<events, loginEnv>>

Command(name) == name \in loginEnv.commands /\ asking = <<>> /\ Types /\ UNCHANGED <<asking, resetting>>

\* The server has let us in, and we have heard of it.
LetIn(s) ==
    /\ entries[s].up /\ peers[s].registered
    /\ \A i \in DOMAIN fromServer[s] : fromServer[s][i].num # "001"

\* The careful user does not ask for a nickname that may be refused when the client takes it
\* at once and the server has let us in already.
Careful(s, nick) == loginEnv.careful /\ LetIn(s) => nick \notin Taken

\* The careful user does not connect to who is connected, and to one server after the other:
\* resetting is one for all of them.
MayConnect(s) == loginEnv.careful => ~LoginRegistered(s) /\ \A t \in LoginServers \ {s} : entries[t].up => LoginRegistered(t)

\* /WINDOW SERVER, from the window that is then the current one; the others keep theirs.
Server(s) ==
    /\ s \in loginEnv.servers /\ asking = <<>> /\ Types
    /\ MayConnect(s)
    /\ window' = s
    /\ ConnectToServer(s, entries[s])
    /\ UNCHANGED <<asking, resetting, mine>>

DisconnectCmd(s) ==
    /\ Command("disconnect") /\ entries[s].up
    /\ ConnectionEnds(s)
    /\ UNCHANGED <<mine, window>>

ENick(nick) ==
    /\ Command("nick")
    /\ LET entry == entries[window] IN
       /\ entry.attempting => Careful(window, nick)
       /\ Sends(window, IF entry.attempting THEN [entry EXCEPT !.nickname = nick] ELSE entry,
                <<[cmd |-> "NICK", nick |-> nick]>>)
       /\ IF entry.attempting THEN Nicknamed(window, nick) ELSE UNCHANGED mine
    /\ UNCHANGED <<peers, fromServer, window>>

\* /AWAY
AwayOne(text) ==
    /\ Command("away")
    /\ Sends(window, [entries[window] EXCEPT !.away = text], <<[cmd |-> "AWAY", text |-> text]>>)
    /\ UNCHANGED <<peers, fromServer, mine, window>>

\* /AWAY -ALL: the servers are told, or the entries marked, but never both.  The careful user has
\* no connection then.
AwayAll(text) ==
    /\ Command("all")
    /\ loginEnv.careful => \A s \in LoginServers : ~entries[s].up
    /\ IF text # ""
       THEN /\ toServer' = [s \in LoginServers |-> IF LoginRegistered(s)
                               THEN Append(toServer[s], [cmd |-> "AWAY", text |-> text]) ELSE toServer[s]]
            /\ UNCHANGED entries
       ELSE entries' = [s \in LoginServers |-> [entries[s] EXCEPT !.away = ""]] /\ UNCHANGED toServer
    /\ UNCHANGED <<peers, fromServer, mine, window>>

\* /MODE for ourselves, and /UMODE
ModeCommand(mode, on) ==
    /\ Command("mode") /\ (on => mode # "o")
    /\ Sends(window, entries[window],
             <<[cmd |-> "MODE", on |-> IF on THEN {mode} ELSE {}, off |-> IF on THEN {} ELSE {mode}]>>)
    /\ UNCHANGED <<peers, fromServer, mine, window>>

\* /OPER, without its password.  The careful user has been let in: what a server says of the
\* password it wants from us would be taken for an answer to /OPER.
Oper ==
    /\ "oper" \in loginEnv.commands /\ asking = <<>> /\ Types
    /\ loginEnv.careful => LoginRegistered(window)
    /\ entries' = [entries EXCEPT ![window].operCommand = TRUE]
    /\ asking' = <<[for |-> "oper", server |-> window]>>
    /\ UNCHANGED <<peers, toServer, fromServer, resetting, mine, window>>

ServerAnswers(for) == asking # <<>> /\ asking[1].for = for /\ asking' = Tail(asking) /\ Types

\* oper_password_received(): to the window's server.
OperPasswordReceived(right) ==
    /\ ServerAnswers("oper")
    /\ Sends(window, entries[window], <<[cmd |-> "OPER", right |-> right]>>)
    /\ UNCHANGED <<peers, fromServer, resetting, mine, window>>

\* password_sendline()
PasswordSendline(right) ==
    /\ ServerAnswers("password")
    /\ MayConnect(asking[1].server)
    /\ ConnectToServer(asking[1].server, [entries[asking[1].server] EXCEPT !.password = right])
    /\ UNCHANGED <<resetting, mine, window>>

\* nickname_sendline(): to the server that refused, whatever has become of it.  NoNick is an empty
\* line: nothing is sent, and nobody asks again.
NicknameSendline(nick) ==
    /\ ServerAnswers("nick")
    /\ LET s == asking[1].server IN
       \/ /\ nick # NoNick /\ Careful(s, nick)
          /\ Sends(s, [entries[s] EXCEPT !.nickname = nick], <<[cmd |-> "NICK", nick |-> nick]>>)
          /\ Nicknamed(s, nick)
          /\ UNCHANGED peers
       \/ /\ nick = NoNick
          /\ peers' = [peers EXCEPT ![s].declined = entries[s].up]
          /\ UNCHANGED <<entries, toServer, mine>>
    /\ resetting' = FALSE
    /\ UNCHANGED <<fromServer, window>>

LoginNext ==
    \/ \E s \in LoginServers :
        \/ PeerReads(s) \/ PeerForces(s) \/ ConnectionLost(s)
        \/ Welcomed(s) \/ YourHost(s) \/ EndOfMotd(s) \/ Refused(s) \/ NickChanged(s) \/ UserMode(s)
        \/ Operator(s) \/ NotRegistered(s) \/ PasswordMismatch(s)
        \/ Server(s) \/ DisconnectCmd(s)
    \/ \E nick \in Nicknames : ENick(nick)
    \/ \E nick \in Nicknames \cup {NoNick} : NicknameSendline(nick)
    \/ \E text \in Away : AwayOne(text) \/ AwayAll(text)
    \/ \E mode \in UserModes, on \in BOOLEAN : ModeCommand(mode, on)
    \/ Oper
    \/ \E right \in BOOLEAN : OperPasswordReceived(right) \/ PasswordSendline(right)

LoginSpec == LoginInit /\ [][LoginNext]_loginVars

----------------------------------------------------------------------------
(* Properties.                                                             *)

\* Nothing is on its way between us and the server.
LoginQuiet(s) == entries[s].up /\ toServer[s] = <<>> /\ fromServer[s] = <<>>

NicknameAgreed(s) == entries[s].nickname = peers[s].nick
ModesAgreed(s) == entries[s].flags = peers[s].modes
AwayAgreed(s) == entries[s].away = peers[s].away

\* A server that has let us in and we have the same idea of our nickname there, of our modes and
\* of whether we are away, once nothing is on its way: whoever changed which of them, on what side
\* of a login, a loss of the connection or a refusal.
SessionAgreed ==
    \A s \in LoginServers :
        LoginQuiet(s) /\ peers[s].registered => NicknameAgreed(s) /\ ModesAgreed(s) /\ AwayAgreed(s)

\* Who has not been let in is asked for a nickname, or was and answered with an empty line: then, and
\* only then, the connection waits for a nickname without a prompt, until the user gives one with
\* /NICK (numbers.c:178 sends nothing, and 433 does not come again by itself).
RefusedIsAsked ==
    \A s \in LoginServers :
        LoginQuiet(s) /\ ~peers[s].registered =>
            peers[s].declined \/ \E i \in DOMAIN asking : asking[i] = [for |-> "nick", server |-> s]

\* The client and a server agree on who we are there, or the user is asked, or would not say
\* (numbers.c, funny.c).
LoginAgreed == SessionAgreed /\ RefusedIsAsked

=============================================================================
