----------------------------- MODULE MCPartsNet -----------------------------
(* What comes from a server, and what we are to it: the lines of a          *)
(* connection, the login, messages with their levels, who is ignored, what  *)
(* is a flood, windows for talk, and the other protocol, each on its small  *)
(* instances.  They share nothing here: the initial state chooses the part  *)
(* that a behaviour is of, and what the others have stays as it begins.     *)
EXTENDS Floods, Ignores, Messages, Targets, Streams, Login, Icb

VARIABLE part

netVars == <<part, floodsVars, ignoresVars, messagesVars, targetsVars, streamsVars, loginVars,
             icbVars>>

----------------------------------------------------------------------------
(* Floods: two or three people, with room for none, one or two; requests    *)
(* of one or two bytes, with every length of the memory for them.           *)

NoFloods == [nicks |-> {}, users |-> {1}, after |-> 1, rate |-> 1, bytes |-> {}, backlogs |-> {1},
             size |-> 1, suspend |-> 1, noFloods |-> {TRUE}]
FloodSettingsAll ==
    {NoFloods,
     [NoFloods EXCEPT !.nicks = {"a", "b"}, !.users = {0, 1, 2}],
     [NoFloods EXCEPT !.nicks = {"a", "b", "c"}, !.users = {2}, !.after = 2],
     [NoFloods EXCEPT !.bytes = {1, 2}, !.backlogs = {2}, !.size = 3, !.suspend = 2],
     [NoFloods EXCEPT !.bytes = {1, 2}, !.backlogs = {0, 1, 2}, !.size = 3, !.noFloods = {TRUE, FALSE}]}
FloodsIdle == floodEnv = NoFloods /\ FloodsInit

----------------------------------------------------------------------------
(* Ignores: two patterns at a time.                                         *)

IgnoreSettingsAll == {{}, {"nick", "*"}, {"host", "@"}, {"host", "*"}}
IgnoresIdle == ignoreEnv = {} /\ IgnoresInit

----------------------------------------------------------------------------
(* Messages: of up to five pieces, text between CTCP requests or in them;   *)
(* every kind of message, from somebody ignored or not; many requests.      *)

NoMessages == [kinds |-> {}, pieces |-> {"text"}, lengths |-> 1 .. 5, ignores |-> {"no"}, oneOnly |-> FALSE]
OtherKinds == {"WALL", "WALLOPS", "TOPIC", "QUIT", "NOTE", "SNOTE", "NUMERIC"}
MessageSettingsAll ==
    {NoMessages,
     [NoMessages EXCEPT !.kinds = {"PRIVMSG"}, !.pieces = {"", "text", "PING"}],
     [NoMessages EXCEPT !.kinds = {"NOTICE"}, !.pieces = {"", "text", "UTC"}],
     [NoMessages EXCEPT !.kinds = {"NOTICE"}, !.pieces = {"", "text", "PING"}, !.lengths = 1 .. 4, !.oneOnly = TRUE],
     [NoMessages EXCEPT !.kinds = {"PRIVMSG", "NOTICE"} \cup OtherKinds, !.pieces = {"ACTION", "text"},
                        !.lengths = 1 .. 4, !.ignores = {"no", "IGNORED"}],
     [NoMessages EXCEPT !.kinds = {"PRIVMSG"}, !.pieces = {"PING"}, !.lengths = 9 .. 13]}
MessagesIdle == messageEnv = NoMessages /\ MessagesInit

----------------------------------------------------------------------------
(* Windows for talk: two windows, or three, on a server with two channels,  *)
(* or on two servers with a channel of the same name.                       *)

ChannelOrderAll == <<"#a", "#b">>
NoTargets == [words |-> {}, servers |-> {}, windows |-> 1, channels |-> {"#a", "#b"},
              sameWindowOnly |-> FALSE, careful |-> TRUE, keepsFreed |-> FALSE]
TargetSettingsAll ==
    {NoTargets,
     [NoTargets EXCEPT !.words = {"channel", "bind", "windows", "part"}, !.servers = {1}, !.windows = 2],
     [NoTargets EXCEPT !.words = {"channel", "windows", "part"}, !.servers = {1}, !.windows = 3],
     [NoTargets EXCEPT !.words = {"channel", "windows", "bind", "switch"}, !.servers = {1}, !.windows = 2,
                       !.sameWindowOnly = TRUE],
     [NoTargets EXCEPT !.words = {"channel", "server", "windows", "lose"}, !.servers = {1, 2}, !.windows = 2,
                       !.channels = {"#a"}],
     [NoTargets EXCEPT !.words = {"channel", "level", "query", "windows"}, !.servers = {1}, !.windows = 2,
                       !.channels = {"#a"}]}
TargetsIdle == targetEnv = NoTargets /\ TargetsInit

----------------------------------------------------------------------------
(* Lines: of three characters, through a buffer of two, on two connections  *)
(* one after the other, with and without TLS and a proxy.                   *)

PlainStreams == [proxy |-> FALSE, tls |-> FALSE, greets |-> TRUE, cuts |-> 1, record |-> 9, careful |-> TRUE,
                 closes |-> TRUE, lines |-> 3]
StreamSettingsAll ==
    {PlainStreams,
     [PlainStreams EXCEPT !.tls = TRUE, !.record = 2],
     [PlainStreams EXCEPT !.tls = TRUE, !.cuts = 3],
     [PlainStreams EXCEPT !.proxy = TRUE, !.cuts = 3]}
StreamsIdle == streamEnv = PlainStreams /\ StreamsInit

----------------------------------------------------------------------------
(* The login: a nickname that is taken, two servers, modes and operator     *)
(* status that come and go, passwords.                                      *)

NoLogin == [commands |-> {}, servers |-> {}, first |-> "me", secret |-> FALSE, forces |-> FALSE, careful |-> TRUE]
LoginSettingsAll ==
    {NoLogin,
     [NoLogin EXCEPT !.servers = {1}, !.first = "they", !.commands = {"nick", "away", "all"}],
     [NoLogin EXCEPT !.servers = {1, 2}, !.commands = {"nick"}],
     [NoLogin EXCEPT !.servers = {1}, !.commands = {"mode", "oper", "disconnect"}, !.forces = TRUE],
     [NoLogin EXCEPT !.servers = {1}, !.commands = {"oper"}, !.first = "they", !.secret = TRUE]}
LoginIdle == loginEnv = NoLogin /\ LoginInit

----------------------------------------------------------------------------
(* ICB: two others in two groups; everything that can be said in eight      *)
(* letters and spaces.                                                      *)

NoIcb == [others |-> {}, commands |-> {}, renames |-> FALSE, careful |-> TRUE, lines |-> {}]
IcbSettingsAll ==
    {NoIcb,
     [NoIcb EXCEPT !.lines = UNION {[1 .. n -> {"x", " "}] : n \in 0 .. 8}],
     [NoIcb EXCEPT !.others = {"a", "b"}, !.commands = {"group", "leave"}],
     [NoIcb EXCEPT !.others = {"a", "b"}, !.commands = {"names", "motd"}, !.renames = TRUE],
     [NoIcb EXCEPT !.others = {"a", "b"}, !.commands = {"name", "leave"}]}
IcbIdle == icbEnv = NoIcb /\ icbGroup = "g" /\ IcbInit

----------------------------------------------------------------------------

Others(p) ==
    /\ part = p
    /\ p # "floods" => FloodsIdle
    /\ p # "ignores" => IgnoresIdle
    /\ p # "messages" => MessagesIdle
    /\ p # "targets" => TargetsIdle
    /\ p # "streams" => StreamsIdle
    /\ p # "login" => LoginIdle
    /\ p # "icb" => IcbIdle

NetInit ==
    \/ Others("floods") /\ FloodsInit
    \/ Others("ignores") /\ IgnoresInit
    \/ Others("messages") /\ MessagesInit
    \/ Others("targets") /\ TargetsInit
    \/ Others("streams") /\ StreamsInit
    \/ Others("login") /\ LoginInit
    \/ Others("icb") /\ IcbInit

NetNext ==
    /\ UNCHANGED part
    /\ \/ /\ part = "floods" /\ FloodsNext
          /\ UNCHANGED <<ignoresVars, messagesVars, targetsVars, streamsVars, loginVars, icbVars>>
       \/ /\ part = "ignores" /\ IgnoresNext
          /\ UNCHANGED <<floodsVars, messagesVars, targetsVars, streamsVars, loginVars, icbVars>>
       \/ /\ part = "messages" /\ MessagesNext
          /\ UNCHANGED <<floodsVars, ignoresVars, targetsVars, streamsVars, loginVars, icbVars>>
       \/ /\ part = "targets" /\ TargetsNext
          /\ UNCHANGED <<floodsVars, ignoresVars, messagesVars, streamsVars, loginVars, icbVars>>
       \/ /\ part = "streams" /\ StreamsNext
          /\ UNCHANGED <<floodsVars, ignoresVars, messagesVars, targetsVars, loginVars, icbVars>>
       \/ /\ part = "login" /\ LoginNext
          /\ UNCHANGED <<floodsVars, ignoresVars, messagesVars, targetsVars, streamsVars, icbVars>>
       \/ /\ part = "icb" /\ IcbNext
          /\ UNCHANGED <<floodsVars, ignoresVars, messagesVars, targetsVars, streamsVars, loginVars>>

NetSpec == NetInit /\ [][NetNext]_netVars

\* Every variable of every part has its type.
NetTypeOK ==
    /\ FloodsTypeOK /\ IgnoresTypeOK /\ MessagesTypeOK /\ TargetsTypeOK
    /\ StreamsTypeOK /\ LoginTypeOK /\ IcbTypeOK

=============================================================================
