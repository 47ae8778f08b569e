--------------------------- MODULE ChannelsProofs ---------------------------
(***************************************************************************)
(* Type correctness of Channels.tla and ListInStep, for any channels,      *)
(* nicknames, settings and bounds.  First one lemma per function of        *)
(* names.c: it takes a well-formed entry to a well-formed entry.  Then the *)
(* chain of views: what the client would believe after each line that is   *)
(* on its way, from its list to what the server has.  A line is right when *)
(* it takes the view before it to the view behind it; the client reads the *)
(* first line, the server adds lines at the end, and both keep the chain.  *)
(***************************************************************************)
EXTENDS Channels, FiniteSetTheorems, SequenceTheorems, WellFoundedInduction, TLAPS

\* An entry in which every operator is in the list of nicknames
Good == {e \in Chan : e.ops \subseteq e.nicks}

\* An entry that is not in the list is well formed.
LEMMA NoChannelGood == NoChannel \in Good
BY DEF NoChannel, Good, Chan

\* clear_channel() leaves a well-formed entry.
LEMMA ClearChannelGood == ASSUME NEW e \in Good PROVE ClearChannel(e) \in Good
BY DEF ClearChannel, Good, Chan

\* add_channel() leaves a well-formed entry.
LEMMA AddChannelGood ==
    ASSUME NEW e \in Good, NEW how \in {"joining", "joined"}
    PROVE  AddChannel(e, how) \in Good
<1>1. \A f \in Good : [f EXCEPT !.connected = how] \in Good
    BY DEF Good, Chan
<1>2. QED BY <1>1, ClearChannelGood DEF AddChannel

\* add_to_channel() leaves a well-formed entry.
LEMMA AddToChannelGood ==
    ASSUME NEW e \in Good, NEW nicks \in SUBSET Names, NEW ops \in SUBSET nicks
    PROVE  AddToChannel(e, nicks, ops) \in Good
BY DEF AddToChannel, Good, Chan

\* remove_from_channel() leaves a well-formed entry.
LEMMA RemoveFromChannelGood ==
    ASSUME NEW e \in Good, NEW n PROVE RemoveFromChannel(e, n) \in Good
BY DEF RemoveFromChannel, Good, Chan

\* rename_nick() leaves a well-formed entry.
LEMMA RenameNickGood ==
    ASSUME NEW e \in Good, NEW n \in Names, NEW new \in Names
    PROVE  RenameNick(e, n, new) \in Good
<1> DEFINE nicks == (e.nicks \ {n}) \cup (IF n \in e.nicks THEN {new} ELSE {})
           ops == (e.ops \ {n}) \cup (IF n \in e.ops THEN {new} ELSE {})
<1>1. nicks \in SUBSET Names /\ ops \in SUBSET Names /\ ops \subseteq nicks
    BY DEF Good, Chan
<1>2. RenameNick(e, n, new) = [e EXCEPT !.nicks = nicks, !.ops = ops]
    BY DEF RenameNick, Good, Chan
<1> HIDE DEF nicks, ops
<1>3. QED BY <1>1, <1>2 DEF Good, Chan

\* mark_not_connected() leaves a well-formed entry.
LEMMA MarkNotConnectedGood == ASSUME NEW e \in Good PROVE MarkNotConnected(e) \in Good
BY DEF MarkNotConnected, Good, Chan

\* What a message of each kind holds
LEMMA MessageParts ==
    ASSUME NEW m \in ToClient
    PROVE  /\ m.cmd \notin {"QUIT", "NICK"} => m.chan \in Channels
           /\ m.cmd \in {"JOIN", "PART", "KICK", "QUIT", "NICK", "MODE_o"} => m.nick \in Names
           /\ m.cmd = "NICK" => m.new \in Names
           /\ m.cmd \in {"MODE_o", "MODE_m"} => m.add \in BOOLEAN
           /\ m.cmd = "353" => m.nicks \in SUBSET Names /\ m.ops \in SUBSET m.nicks
           /\ m.cmd = "324" => m.moderated \in BOOLEAN
BY DEF ToClient

\* A line of names leaves a well-formed entry.
LEMMA NamesTakenGood ==
    ASSUME NEW e \in Good, NEW m \in ToClient, m.cmd = "353"
    PROVE  NamesTaken(e, m) \in Good
<1>1. [e EXCEPT !.names = TRUE] \in Good
    BY DEF Good, Chan
<1>2. AddToChannel([e EXCEPT !.names = TRUE], m.nicks, m.ops) \in Good
    BY <1>1, MessageParts, AddToChannelGood
<1>3. \A f \in Good : [f EXCEPT !.chop = @ \/ (nickname \in m.ops /\ ~e.mode)] \in Good
    BY DEF Good, Chan
<1>4. QED BY <1>2, <1>3 DEF NamesTaken

-----------------------------------------------------------------------------
\* The conjuncts of ChannelsTypeOK, with the list as a function to well-formed entries
Inv ==
    /\ list \in [Channels -> Good] /\ nickname \in Names /\ connected \in BOOLEAN
    /\ toServer \in Seq(Command) /\ toClient \in Seq(ToClient)
    /\ room \in [Channels -> Room] /\ me \in Names
    /\ typed \in 0 .. MaxTyped /\ events \in 0 .. MaxEvents /\ channelsEnv \in ChannelSetting

\* ChannelsTypeOK is what Inv says.
LEMMA InvIsTypeOK == Inv <=> ChannelsTypeOK
BY DEF Inv, ChannelsTypeOK, Good

\* What the user types leaves the invariant.
LEMMA UserInv == ASSUME Inv, User PROVE Inv'
<1>1. PICK c \in Channels : Join(c) \/ Part(c) \/ AskMode(c)
    BY DEF User
<1>2. \A command \in Command : TypeIn(command) =>
          /\ toServer' \in Seq(Command) /\ typed' \in 0 .. MaxTyped
          /\ UNCHANGED <<toClient, room, me, events, channelsEnv, nickname, connected>>
    BY BoundsAssumption DEF Inv, TypeIn
<1>3. \A cmd \in {"JOIN", "PART", "MODE"} : [cmd |-> cmd, chan |-> c] \in Command
    BY DEF Command
<1>4. list' \in [Channels -> Good]
    <2>1. CASE Join(c)
        BY <2>1, AddChannelGood DEF Join, Inv
    <2>2. CASE Part(c) \/ AskMode(c)
        BY <2>2 DEF Part, AskMode, Inv
    <2>3. QED BY <1>1, <2>1, <2>2
<1>5. \E cmd \in {"JOIN", "PART", "MODE"} : TypeIn([cmd |-> cmd, chan |-> c])
    BY <1>1 DEF Join, Part, AskMode
<1>6. QED BY <1>2, <1>3, <1>4, <1>5 DEF Inv

\* Every handler of a message leaves the invariant.
LEMMA ClientInv == ASSUME Inv, Client PROVE Inv'
<1> DEFINE m == Head(toClient)
<1>1. PICK cmd \in {"JOIN", "PART", "KICK", "QUIT", "NICK", "MODE_o", "MODE_m", "353", "324", "471"} :
          Reads(cmd)
    BY DEF Client, PChannel, PPart, PKick, PQuit, PNick, PModeOper, PModeModerated,
           FunnyNamreply, FunnyMode, CannotJoinChannel
<1>2. m \in ToClient /\ m.cmd = cmd /\ toClient' \in Seq(ToClient)
    <2>1. toClient \in Seq(ToClient) /\ toClient # <<>> /\ m.cmd = cmd /\ toClient' = Tail(toClient)
        BY <1>1 DEF Inv, Reads
    <2>2. QED BY <2>1, HeadTailProperties
<1>3. UNCHANGED <<connected, room, me, typed, events, channelsEnv>>
    BY <1>1 DEF Reads
<1>4. ASSUME NEW c \in Channels, NEW e \in Good, Became(c, e)
      PROVE  list' \in [Channels -> Good]
    BY <1>4 DEF Became, Inv
<1>5. \A c \in Channels : list[c] \in Good
    BY DEF Inv
<1>6. \A k \in {"MODE", "MODE_set"}, c \in Channels :
          Append(toServer, [cmd |-> k, chan |-> c]) \in Seq(Command)
    <2>1. \A k \in {"MODE", "MODE_set"}, c \in Channels : [cmd |-> k, chan |-> c] \in Command
        BY DEF Command
    <2>2. QED BY <2>1, AppendProperties DEF Inv
<1> HIDE DEF m
<1>7. list' \in [Channels -> Good] /\ nickname' \in Names /\ toServer' \in Seq(Command)
    <2>1. CASE PChannel
        <3>1. m.chan \in Channels /\ m.nick \in Names
            BY <2>1, <1>2, MessageParts DEF PChannel, Reads, m
        <3>2. AddChannel(list[m.chan], "joined") \in Good
            BY <3>1, <1>5, AddChannelGood
        <3>3. AddToChannel(list[m.chan], {m.nick}, {}) \in Good
            BY <3>1, <1>5, AddToChannelGood
        <3>4. QED BY <2>1, <3>1, <3>2, <3>3, <1>4, <1>6 DEF PChannel, AskedModes, Inv, m
    <2>2. CASE PPart
        <3>1. m.chan \in Channels
            BY <2>2, <1>2, MessageParts DEF PPart, Reads, m
        <3>2. RemoveFromChannel(list[m.chan], m.nick) \in Good
            BY <3>1, <1>5, RemoveFromChannelGood
        <3>3. QED BY <2>2, <3>1, <3>2, <1>4, <1>5, NoChannelGood DEF PPart, Inv, m
    <2>3. CASE PKick
        <3>1. m.chan \in Channels
            BY <2>3, <1>2, MessageParts DEF PKick, Reads, m
        <3>2. RemoveFromChannel(list[m.chan], m.nick) \in Good
            BY <3>1, <1>5, RemoveFromChannelGood
        <3>3. QED BY <2>3, <3>1, <3>2, <1>4, NoChannelGood DEF PKick, Inv, m
    <2>4. CASE PQuit
        BY <2>4, <1>5, RemoveFromChannelGood DEF PQuit, Inv
    <2>5. CASE PNick
        <3>1. m.nick \in Names /\ m.new \in Names
            BY <2>5, <1>2, MessageParts DEF PNick, Reads, m
        <3>2. QED BY <2>5, <3>1, <1>5, RenameNickGood DEF PNick, Inv, m
    <2>6. CASE PModeOper
        <3>1. m.chan \in Channels /\ m.add \in BOOLEAN
            BY <2>6, <1>2, MessageParts DEF PModeOper, Reads, m
        <3> DEFINE e == list[m.chan]
                   chop == IF m.nick = nickname THEN m.add ELSE e.chop
                   ops == IF m.add THEN e.ops \cup ({m.nick} \cap e.nicks) ELSE e.ops \ {m.nick}
        <3>2. e \in Good
            BY <3>1, <1>5
        <3>3. chop \in BOOLEAN /\ ops \in SUBSET e.nicks /\ e.nicks \in SUBSET Names
            BY <3>1, <3>2 DEF Good, Chan
        <3>4. Became(m.chan, IF e.connected = "none" THEN e ELSE [e EXCEPT !.chop = chop, !.ops = ops])
            BY <2>6, <3>2 DEF PModeOper, m, Good, Chan
        <3> HIDE DEF e, chop, ops
        <3>5. [e EXCEPT !.chop = chop, !.ops = ops] \in Good
            BY <3>2, <3>3 DEF Good, Chan
        <3>6. QED BY <2>6, <3>1, <3>2, <3>4, <3>5, <1>4 DEF PModeOper, Inv
    <2>7. CASE PModeModerated
        <3>1. m.chan \in Channels /\ m.add \in BOOLEAN
            BY <2>7, <1>2, MessageParts DEF PModeModerated, Reads, m
        <3> DEFINE told == [list[m.chan] EXCEPT !.moderated = m.add]
        <3>2. told \in Good
            <4>1. \A e \in Good, b \in BOOLEAN : [e EXCEPT !.moderated = b] \in Good
                BY DEF Good, Chan
            <4>2. QED BY <3>1, <4>1, <1>5
        <3>3. Became(m.chan, list[m.chan]) \/ Became(m.chan, told)
            BY <2>7 DEF PModeModerated, m
        <3> HIDE DEF told
        <3>4. QED BY <2>7, <3>1, <3>2, <3>3, <1>4, <1>5 DEF PModeModerated, Inv
    <2>8. CASE FunnyNamreply
        <3>1. m.chan \in Channels /\ m.cmd = "353"
            BY <2>8, <1>2, MessageParts DEF FunnyNamreply, Reads, m
        <3>2. NamesTaken(list[m.chan], m) \in Good
            BY <3>1, <1>2, <1>5, NamesTakenGood
        <3>3. ModesRestored(list[m.chan], m) \in Seq(Command)
            BY <3>1, <1>6 DEF ModesRestored, Inv
        <3>4. QED BY <2>8, <3>1, <3>2, <3>3, <1>4 DEF FunnyNamreply, Inv, m
    <2>9. CASE FunnyMode
        <3>1. m.chan \in Channels /\ m.moderated \in BOOLEAN
            BY <2>9, <1>2, MessageParts DEF FunnyMode, Reads, m
        <3> DEFINE told == [list[m.chan] EXCEPT !.mode = TRUE, !.moderated = @ \/ m.moderated]
        <3>2. told \in Good
            <4>1. \A e \in Good, b \in BOOLEAN :
                      [e EXCEPT !.mode = TRUE, !.moderated = @ \/ b] \in Good
                BY DEF Good, Chan
            <4>2. QED BY <3>1, <4>1, <1>5
        <3>3. Became(m.chan, list[m.chan]) \/ Became(m.chan, told)
            BY <2>9 DEF FunnyMode, m
        <3> HIDE DEF told
        <3>4. QED BY <2>9, <3>1, <3>2, <3>3, <1>4, <1>5 DEF FunnyMode, Inv
    <2>10. CASE CannotJoinChannel
        <3>1. m.chan \in Channels
            BY <2>10, <1>2, MessageParts DEF CannotJoinChannel, Reads, m
        <3>2. QED BY <2>10, <3>1, <1>4, <1>5, NoChannelGood DEF CannotJoinChannel, Inv, m
    <2>11. QED BY <2>1, <2>2, <2>3, <2>4, <2>5, <2>6, <2>7, <2>8, <2>9, <2>10 DEF Client
<1>8. QED BY <1>2, <1>3, <1>7 DEF Inv

\* A loss and a reconnection leave the invariant.
LEMMA ConnectionInv == ASSUME Inv, ConnectionLost \/ Reconnect PROVE Inv'
<1>1. CASE ConnectionLost
    <2>1. list' \in [Channels -> Good]
        BY <1>1, MarkNotConnectedGood DEF ConnectionLost, Inv
    <2>2. room' \in [Channels -> Room]
        <3>1. \A c \in Channels : [room[c] EXCEPT !.nicks = @ \ {me}, !.ops = @ \ {me}] \in Room
            BY DEF Inv, Room
        <3>2. QED BY <1>1, <3>1 DEF ConnectionLost
    <2>3. toServer' \in Seq(Command) /\ toClient' \in Seq(ToClient)
        BY <1>1, EmptySeq DEF ConnectionLost
    <2>4. events' \in 0 .. MaxEvents
        <3>1. events \in 0 .. MaxEvents /\ events < MaxEvents /\ events' = events + 1
            BY <1>1 DEF ConnectionLost, Inv
        <3>2. QED BY <3>1, BoundsAssumption
    <2>5. QED BY <1>1, <2>1, <2>2, <2>3, <2>4 DEF ConnectionLost, Inv
<1>2. CASE Reconnect
    <2> DEFINE known == {c \in Channels : list[c].connected # "none"}
    <2>1. Cardinality(known) \in Nat
        BY FS_Subset, FS_CardinalityType, ChannelsAssumption
    <2>2. PICK s \in [1 .. Cardinality(known) -> known] :
              toServer' = [i \in DOMAIN s |-> [cmd |-> "JOIN", chan |-> s[i]]]
        BY <1>2 DEF Reconnect, Orders
    <2>3. \A c \in Channels : [cmd |-> "JOIN", chan |-> c] \in Command
        BY DEF Command
    <2>4. toServer' \in [1 .. Cardinality(known) -> Command]
        BY <2>2, <2>3
    <2>5. \A n \in Nat : \A f \in [1 .. n -> Command] : f \in Seq(Command)
        OBVIOUS
    <2> HIDE DEF known
    <2>6. toServer' \in Seq(Command)
        BY <2>1, <2>4, <2>5
    <2>7. list' \in [Channels -> Good]
        <3>1. \A e \in Good : [e EXCEPT !.connected = "joining"] \in Good
            BY DEF Good, Chan
        <3>2. QED BY <1>2, <3>1 DEF Reconnect, Inv
    <2>8. QED BY <1>2, <2>6, <2>7 DEF Reconnect, Inv
<1>3. QED BY <1>1, <1>2

-----------------------------------------------------------------------------
\* Rooms that people leave and come to
LEMMA RoomTypes ==
    ASSUME Inv, NEW c \in Channels, NEW n \in Names
    PROVE  /\ Without(c, n) \in Room
           /\ With(c, n) \in Room /\ n \in With(c, n).nicks
<1>1. \A r \in Room : Emptied(r) \in Room
    BY DEF Emptied, Room
<1>2. [room[c] EXCEPT !.nicks = @ \ {n}, !.ops = @ \ {n}] \in Room
    BY DEF Inv, Room
<1>3. room[c] \in Room
    BY DEF Inv
<1>4. QED BY <1>1, <1>2, <1>3 DEF Without, With, Room

\* One message is a sequence of messages.
LEMMA OneMessage == ASSUME NEW m \in ToClient PROVE <<m>> \in Seq(ToClient)
OBVIOUS

\* The lines of names are messages.
LEMMA NameLinesType ==
    ASSUME NEW c \in Channels, NEW r \in Room, NEW lines \in NameLines(c, r)
    PROVE  lines \in Seq(ToClient)
<1>1. \A S \in SUBSET r.nicks : Line(c, r, S) \in ToClient
    BY DEF Line, ToClient, Room
<1>2. \A S \in SUBSET r.nicks : <<Line(c, r, S), Line(c, r, r.nicks \ S)>> \in Seq(ToClient)
    <2>1. \A m1, m2 \in ToClient : <<m1, m2>> \in Seq(ToClient)
        OBVIOUS
    <2>2. QED BY <1>1, <2>1
<1>3. <<Line(c, r, r.nicks)>> \in Seq(ToClient)
    BY <1>1, OneMessage
<1>4. QED BY <1>2, <1>3 DEF NameLines

\* Messages are appended to a sequence of messages.
LEMMA SendsType ==
    ASSUME Inv, NEW lines \in Seq(ToClient), Sends(lines)
    PROVE  toClient' \in Seq(ToClient)
BY ConcatProperties DEF Inv, Sends

\* One room changes.
LEMMA RoomsType ==
    ASSUME Inv, NEW c \in Channels, NEW r \in Room, Rooms(c, r)
    PROVE  room' \in [Channels -> Room]
BY DEF Inv, Rooms

\* What the server makes of a command leaves the invariant.
LEMMA ServerInv == ASSUME Inv, ServerReads PROVE Inv'
<1> DEFINE m == Head(toServer)
<1>1. m \in Command /\ toServer' \in Seq(Command)
    <2>1. toServer \in Seq(Command) /\ toServer # <<>> /\ toServer' = Tail(toServer)
        BY DEF Inv, ServerReads
    <2>2. QED BY <2>1, HeadTailProperties
<1>2. m.chan \in Channels
    BY <1>1 DEF Command
<1>3. UNCHANGED <<list, nickname, connected, me, typed, events, channelsEnv>>
    BY DEF ServerReads
<1> HIDE DEF m
<1> DEFINE c == m.chan
<1>4. AnswerJoin(c) \/ AnswerPart(c) \/ AnswerMode(c) \/ AnswerSetMode(c)
    BY DEF ServerReads, m
<1> HIDE DEF c
<1>5. c \in Channels /\ me \in Names /\ room[c] \in Room
    BY <1>2 DEF c, Inv
<1>6. toClient' \in Seq(ToClient) /\ room' \in [Channels -> Room]
    <2>1. CASE AnswerJoin(c)
        <3>1. CASE UNCHANGED <<toClient, room>>
            BY <3>1 DEF Inv
        <3>2. CASE Sends(<<[cmd |-> "471", chan |-> c]>>) /\ UNCHANGED room
            <4>1. <<[cmd |-> "471", chan |-> c]>> \in Seq(ToClient)
                <5>1. [cmd |-> "471", chan |-> c] \in ToClient
                    BY <1>5 DEF ToClient
                <5>2. QED BY <5>1, OneMessage
            <4>2. QED BY <3>2, <4>1, SendsType DEF Inv
        <3>3. ASSUME NEW lines \in NameLines(c, With(c, me)), Rooms(c, With(c, me)),
                     Sends(<<[cmd |-> "JOIN", chan |-> c, nick |-> me]>> \o lines)
              PROVE  toClient' \in Seq(ToClient) /\ room' \in [Channels -> Room]
            <4>1. <<[cmd |-> "JOIN", chan |-> c, nick |-> me]>> \in Seq(ToClient)
                <5>1. [cmd |-> "JOIN", chan |-> c, nick |-> me] \in ToClient
                    BY <1>5 DEF ToClient
                <5>2. QED BY <5>1, OneMessage
            <4>2. With(c, me) \in Room
                BY <1>5, RoomTypes
            <4>3. lines \in Seq(ToClient)
                BY <1>5, <4>2, <3>3, NameLinesType
            <4>4. <<[cmd |-> "JOIN", chan |-> c, nick |-> me]>> \o lines \in Seq(ToClient)
                BY <4>1, <4>3, ConcatProperties
            <4>5. QED BY <3>3, <1>5, <4>2, <4>4, SendsType, RoomsType
        <3>4. QED BY <2>1, <3>1, <3>2, <3>3 DEF AnswerJoin
    <2>2. CASE AnswerPart(c)
        <3>1. <<[cmd |-> "PART", chan |-> c, nick |-> me]>> \in Seq(ToClient)
            <4>1. [cmd |-> "PART", chan |-> c, nick |-> me] \in ToClient
                BY <1>5 DEF ToClient
            <4>2. QED BY <4>1, OneMessage
        <3>2. Without(c, me) \in Room
            BY <1>5, RoomTypes
        <3>3. QED BY <2>2, <1>5, <3>1, <3>2, SendsType, RoomsType DEF AnswerPart, Inv
    <2>3. CASE AnswerMode(c)
        <3>1. <<[cmd |-> "324", chan |-> c, moderated |-> room[c].moderated]>> \in Seq(ToClient)
            <4>1. [cmd |-> "324", chan |-> c, moderated |-> room[c].moderated] \in ToClient
                BY <1>5 DEF ToClient, Room
            <4>2. QED BY <4>1, OneMessage
        <3>2. QED BY <2>3, <3>1, SendsType DEF AnswerMode, Inv
    <2>4. CASE AnswerSetMode(c)
        <3>1. <<[cmd |-> "MODE_m", chan |-> c, add |-> TRUE]>> \in Seq(ToClient)
            <4>1. [cmd |-> "MODE_m", chan |-> c, add |-> TRUE] \in ToClient
                BY <1>5 DEF ToClient
            <4>2. QED BY <4>1, OneMessage
        <3>2. [room[c] EXCEPT !.moderated = TRUE] \in Room
            BY <1>5 DEF Room
        <3>3. QED BY <2>4, <1>5, <3>1, <3>2, SendsType, RoomsType DEF AnswerSetMode, Inv
    <2>5. QED BY <1>4, <2>1, <2>2, <2>3, <2>4
<1>7. QED BY <1>1, <1>3, <1>6 DEF Inv

\* A message that may be told is appended or not.
LEMMA ToldType ==
    ASSUME Inv, NEW m \in ToClient, NEW cs, Told(cs, m)
    PROVE  toClient' \in Seq(ToClient)
<1>1. <<m>> \in Seq(ToClient) /\ <<>> \in Seq(ToClient)
    BY EmptySeq
<1>2. QED BY <1>1, SendsType DEF Told

\* An event is counted.
LEMMA HappensType ==
    ASSUME Inv, Happens
    PROVE  /\ events' \in 0 .. MaxEvents
           /\ UNCHANGED <<list, nickname, connected, toServer, typed, channelsEnv>>
BY BoundsAssumption DEF Inv, Happens

\* What other people do leaves the invariant.
LEMMA EventInv ==
    ASSUME Inv, Others \/ \E c \in Channels : ModerationSet(c)
    PROVE  Inv'
<1>1. Happens
    BY ZenonT(60) DEF Others, OtherQuits, Renamed, OtherJoins, OtherParts, Kicked, Opped, ModerationSet
<1>2. toClient' \in Seq(ToClient) /\ room' \in [Channels -> Room] /\ me' \in Names
    <2>1. ASSUME NEW n \in Names, OtherQuits(n)
          PROVE  toClient' \in Seq(ToClient) /\ room' \in [Channels -> Room] /\ me' \in Names
        <3>1. [cmd |-> "QUIT", nick |-> n] \in ToClient
            BY DEF ToClient
        <3>2. QED BY <2>1, <3>1, ToldType, RoomTypes DEF OtherQuits, Inv
    <2>2. ASSUME NEW n \in Names, NEW new \in Names, Renamed(n, new)
          PROVE  toClient' \in Seq(ToClient) /\ room' \in [Channels -> Room] /\ me' \in Names
        <3> DEFINE moved(S) == (S \ {n}) \cup (IF n \in S THEN {new} ELSE {})
        <3>1. [cmd |-> "NICK", nick |-> n, new |-> new] \in ToClient
            BY DEF ToClient
        <3>2. toClient' \in Seq(ToClient)
            <4>1. <<[cmd |-> "NICK", nick |-> n, new |-> new]>> \in Seq(ToClient)
                BY <3>1
            <4>2. QED BY <2>2, <3>1, <4>1, SendsType, ToldType DEF Renamed
        <3>3. \A S \in SUBSET Names : moved(S) \in SUBSET Names
            OBVIOUS
        <3>4. room' = [c \in Channels |-> [room[c] EXCEPT !.nicks = moved(@), !.ops = moved(@)]]
            BY <2>2 DEF Renamed
        <3> HIDE DEF moved
        <3>5. \A r \in Room : [r EXCEPT !.nicks = moved(@), !.ops = moved(@)] \in Room
            BY <3>3 DEF Room
        <3>6. room' \in [Channels -> Room]
            BY <3>4, <3>5 DEF Inv
        <3>7. me' \in Names
            BY <2>2 DEF Renamed, Inv
        <3>8. QED BY <3>2, <3>6, <3>7
    <2>3. ASSUME NEW c \in Channels, NEW n \in Names,
                 OtherJoins(c, n) \/ OtherParts(c, n) \/ Kicked(c, n) \/ Opped(c, n)
          PROVE  toClient' \in Seq(ToClient) /\ room' \in [Channels -> Room] /\ me' \in Names
        <3>1. \A k \in {"JOIN", "PART", "KICK"} : [cmd |-> k, chan |-> c, nick |-> n] \in ToClient
            BY DEF ToClient
        <3>2. \A add \in BOOLEAN : [cmd |-> "MODE_o", chan |-> c, nick |-> n, add |-> add] \in ToClient
            BY DEF ToClient
        <3>3. \A r \in Room : Rooms(c, r) => room' \in [Channels -> Room]
            BY RoomsType
        <3>4. me' \in Names
            BY <2>3 DEF OtherJoins, OtherParts, Kicked, Opped, Inv
        <3>5. CASE OtherJoins(c, n)
            BY <3>5, <3>1, <3>3, <3>4, ToldType, RoomTypes DEF OtherJoins
        <3>6. CASE OtherParts(c, n)
            BY <3>6, <3>1, <3>3, <3>4, ToldType, RoomTypes DEF OtherParts
        <3>7. CASE Kicked(c, n)
            BY <3>7, <3>1, <3>3, <3>4, ToldType, RoomTypes DEF Kicked
        <3>8. CASE Opped(c, n)
            <4> DEFINE add == n \notin room[c].ops
                       r == [room[c] EXCEPT !.ops = IF add THEN @ \cup {n} ELSE @ \ {n}]
            <4>1. r \in Room
                BY DEF Inv, Room
            <4>2. Rooms(c, r) /\ Told({c}, [cmd |-> "MODE_o", chan |-> c, nick |-> n, add |-> add])
                BY <3>8 DEF Opped
            <4>3. add \in BOOLEAN
                OBVIOUS
            <4> HIDE DEF add, r
            <4>4. QED BY <4>1, <4>2, <4>3, <3>2, <3>3, <3>4, ToldType
        <3>9. QED BY <2>3, <3>5, <3>6, <3>7, <3>8
    <2>4. ASSUME NEW c \in Channels, ModerationSet(c)
          PROVE  toClient' \in Seq(ToClient) /\ room' \in [Channels -> Room] /\ me' \in Names
        <3> DEFINE r == [room[c] EXCEPT !.moderated = ~@]
                   m == [cmd |-> "MODE_m", chan |-> c, add |-> ~room[c].moderated]
        <3>1. r \in Room /\ m \in ToClient
            BY DEF Inv, Room, ToClient
        <3>2. Rooms(c, r) /\ Told({c}, m) /\ me' = me
            BY <2>4 DEF ModerationSet
        <3> HIDE DEF r, m
        <3>3. QED BY <3>1, <3>2, ToldType, RoomsType DEF Inv
    <2>5. QED BY <2>1, <2>2, <2>3, <2>4 DEF Others
<1>3. QED BY <1>1, <1>2, HappensType DEF Inv

-----------------------------------------------------------------------------
\* Every variable has its type in every state, and the operators of a channel (the
\* chanop flag of a nickname) are in its list of nicknames.
THEOREM TypeCorrect == ChannelsSpec => []ChannelsTypeOK
<1>1. ChannelsInit => Inv
    <2>1. ASSUME ChannelsInit PROVE Inv
        <3>1. list \in [Channels -> Good]
            BY <2>1, NoChannelGood DEF ChannelsInit
        <3>2. QED BY <2>1, <3>1, BoundsAssumption, ChannelSettingsAssumption, EmptySeq DEF ChannelsInit, Inv
    <2>2. QED BY <2>1
<1>2. Inv /\ [ChannelsNext]_channelsVars => Inv'
    <2>1. ASSUME Inv, UNCHANGED channelsVars PROVE Inv'
        BY <2>1 DEF Inv, channelsVars
    <2>2. QED BY <2>1, UserInv, ClientInv, ConnectionInv, ServerInv, EventInv DEF ChannelsNext
<1>3. QED BY <1>1, <1>2, InvIsTypeOK, PTL DEF ChannelsSpec

-----------------------------------------------------------------------------
(* The list against the server.  What the server has changes before the     *)
(* client hears of it, so no state relates the two: but the lines on their  *)
(* way do.  A view is what the client will know when it has read a line;    *)
(* the views of all lines on their way form a chain, from what the list     *)
(* says now to what the server has.  A handler takes the first link away,   *)
(* and the server adds one.                                                 *)

\* due: of a channel just joined, the nicknames whose 353 is still to come.
View == [me: Names, room: [Channels -> Room], due: [Channels -> SUBSET Names]]

NoRoom == [nicks |-> {}, ops |-> {}, moderated |-> FALSE]

On(v, c) == v.me \in v.room[c].nicks

IsView(v) ==
    /\ v \in View
    /\ \A c \in Channels : /\ v.room[c].ops \subseteq v.room[c].nicks
                           /\ v.due[c] \subseteq v.room[c].nicks
                           /\ ~On(v, c) => v.room[c] = NoRoom

\* What is known of a server: the channels we are on, and no others.
ViewOf(r, n) ==
    [me |-> n, room |-> [c \in Channels |-> IF n \in r[c].nicks THEN r[c] ELSE NoRoom],
     due |-> [c \in Channels |-> {}]]

More(r, n) == [r EXCEPT !.nicks = @ \cup {n}]
Opered(r, n, add) == [r EXCEPT !.ops = IF add THEN @ \cup {n} ELSE @ \ {n}]
Moderated(r, add) == [r EXCEPT !.moderated = add]
Less(r, n) == [r EXCEPT !.nicks = @ \ {n}, !.ops = @ \ {n}]
Moved(r, n, new) ==
    [r EXCEPT !.nicks = (@ \ {n}) \cup (IF n \in @ THEN {new} ELSE {}),
              !.ops = (@ \ {n}) \cup (IF n \in @ THEN {new} ELSE {})]

\* What each line says: the view w after it, from v before it.
SaysOwnJoin(v, m, w) ==
    /\ m.cmd = "JOIN" /\ m.chan \in Channels /\ m.nick = v.me /\ ~On(v, m.chan)
    /\ w.me = v.me /\ w.room = [v.room EXCEPT ![m.chan] = w.room[m.chan]] /\ On(w, m.chan)
    /\ w.due = [v.due EXCEPT ![m.chan] = w.room[m.chan].nicks]

SaysJoin(v, m, w) ==
    /\ m.cmd = "JOIN" /\ m.chan \in Channels /\ On(v, m.chan)
    /\ m.nick \in Names /\ m.nick \notin v.room[m.chan].nicks
    /\ w.me = v.me /\ w.due = v.due
    /\ w.room = [v.room EXCEPT ![m.chan] = More(@, m.nick)]

SaysLeft(env, v, m, w) ==
    /\ m.cmd \in {"PART", "KICK"} /\ m.chan \in Channels /\ On(v, m.chan) /\ m.nick \in v.room[m.chan].nicks
    /\ m.nick = v.me => env.leaves
    /\ w.me = v.me /\ w.due = v.due
    /\ w.room = [v.room EXCEPT ![m.chan] = IF m.nick = v.me THEN NoRoom ELSE Less(@, m.nick)]

SaysQuit(v, m, w) ==
    /\ m.cmd = "QUIT" /\ m.nick # v.me
    /\ w.me = v.me /\ w.due = v.due /\ w.room = [c \in Channels |-> Less(v.room[c], m.nick)]

SaysNick(v, m, w) ==
    /\ m.cmd = "NICK" /\ m.nick \in Names /\ m.new \in Names /\ m.new # v.me
    /\ \A c \in Channels : m.new \notin v.room[c].nicks
    /\ w.me = (IF m.nick = v.me THEN m.new ELSE v.me) /\ w.due = v.due
    /\ w.room = [c \in Channels |-> Moved(v.room[c], m.nick, m.new)]

SaysOper(v, m, w) ==
    /\ m.cmd = "MODE_o" /\ m.chan \in Channels /\ On(v, m.chan) /\ m.nick \in v.room[m.chan].nicks
    /\ m.add \in BOOLEAN
    /\ w.me = v.me /\ w.due = v.due
    /\ w.room = [v.room EXCEPT ![m.chan] = Opered(@, m.nick, m.add)]

SaysModerated(v, m, w) ==
    /\ m.cmd = "MODE_m" /\ m.chan \in Channels /\ On(v, m.chan) /\ m.add \in BOOLEAN
    /\ w.me = v.me /\ w.due = v.due
    /\ w.room = [v.room EXCEPT ![m.chan] = Moderated(@, m.add)]

SaysNames(env, v, m, w) ==
    /\ m.cmd = "353" /\ m.chan \in Channels /\ v.due[m.chan] # {}
    /\ m.nicks \subseteq v.due[m.chan] /\ m.ops = v.room[m.chan].ops \cap m.nicks
    /\ ~env.split => m.nicks = v.due[m.chan]
    /\ w.me = v.me /\ w.room = v.room
    /\ w.due = [v.due EXCEPT ![m.chan] = @ \ m.nicks]

SaysModes(v, m, w) ==
    /\ m.cmd = "324" /\ m.chan \in Channels /\ m.moderated \in BOOLEAN
    /\ On(v, m.chan) => m.moderated = v.room[m.chan].moderated
    /\ w = v

SaysRefused(v, m, w) == m.cmd = "471" /\ m.chan \in Channels /\ ~On(v, m.chan) /\ w = v

\* Nothing comes between a JOIN of ours and its names.
Explains(env, v, m, w) ==
    /\ (\E c \in Channels : v.due[c] # {}) => m.cmd = "353"
    /\ \/ SaysOwnJoin(v, m, w) \/ SaysJoin(v, m, w) \/ SaysLeft(env, v, m, w) \/ SaysQuit(v, m, w)
       \/ SaysNick(v, m, w) \/ SaysOper(v, m, w) \/ SaysModerated(v, m, w) \/ SaysNames(env, v, m, w)
       \/ SaysModes(v, m, w) \/ SaysRefused(v, m, w)

Chain(env, h, lines) ==
    /\ h \in Seq(View) /\ Len(h) = Len(lines) + 1
    /\ \A i \in 1 .. Len(h) : IsView(h[i])
    /\ \A i \in 1 .. Len(lines) : Explains(env, h[i], lines[i], h[i + 1])

-----------------------------------------------------------------------------
(* An entry of the list against the view before the first line.             *)

Listed(e, v, c) == e.connected # "limbo" /\ (On(v, c) => e.connected = "joined")

MembersRight(env, e, v, c) ==
    ~(env.split /\ env.leaves) =>
        /\ ~On(v, c) => e.connected # "joined"
        /\ On(v, c) => e.nicks = v.room[c].nicks \ v.due[c] /\ e.ops = v.room[c].ops \ v.due[c]
        /\ v.due[c] # {} => IF env.leaves THEN ~e.names ELSE ~e.mode

ModesRight(env, e, v, c) ==
    ~env.leaves =>
        /\ ~On(v, c) => ~e.chop /\ ~e.mode
        /\ On(v, c) => (e.chop <=> v.me \in v.room[c].ops \ v.due[c])
        /\ On(v, c) /\ e.moderated => v.room[c].moderated \/ env.loses
        /\ ~env.loses /\ ~On(v, c) => ~e.moderated

RightEntry(env, e, v, c) == Listed(e, v, c) /\ MembersRight(env, e, v, c) /\ ModesRight(env, e, v, c)

Right(env, l, n, v) == n = v.me /\ \A c \in Channels : RightEntry(env, l[c], v, c)

(* What is still to come of what was asked.                                 *)

Has(s, x) == \E i \in 1 .. Len(s) : s[i] = x
Refusal(c) == [cmd |-> "471", chan |-> c]
ModesTold(lines, c) == \E i \in 1 .. Len(lines) : lines[i].cmd = "324" /\ lines[i].chan = c
OwnJoin(m, v, c) == m.cmd = "JOIN" /\ m.chan = c /\ m.nick = v.me
JoinTold(lines, h, c) == \E i \in 1 .. Len(lines) : OwnJoin(lines[i], h[i], c)

\* A channel with a mode that the client does not know of
Wants(e, v, c) == On(v, c) /\ v.room[c].moderated /\ ~e.moderated

JoinAsked(e, ts, tc, h, c) ==
    e.connected = "joining" =>
        \/ Has(ts, [cmd |-> "JOIN", chan |-> c])
        \/ Has(tc, Refusal(c))
        \/ JoinTold(tc, h, c)

ModesComing(ts, tc, c) == Has(ts, [cmd |-> "MODE", chan |-> c]) \/ ModesTold(tc, c)

ModesAsked(env, e, ts, tc, h, c) ==
    ~env.leaves =>
        /\ ~Has(ts, [cmd |-> "PART", chan |-> c])
        /\ ModesComing(ts, tc, c) => e.connected = "joined"
        /\ Wants(e, h[1], c) => ~e.mode /\ ModesComing(ts, tc, c)

Asked(env, l, ts, tc, h) ==
    \A c \in Channels : JoinAsked(l[c], ts, tc, h, c) /\ ModesAsked(env, l[c], ts, tc, h, c)

RoomsRight == \A c \in Channels : room[c].ops \subseteq room[c].nicks

InTouch ==
    \E h : /\ Chain(channelsEnv, h, toClient)
           /\ h[Len(h)] = ViewOf(room, me)
           /\ Right(channelsEnv, list, nickname, h[1])
           /\ Asked(channelsEnv, list, toServer, toClient, h)

OutOfTouch ==
    /\ toServer = <<>> /\ toClient = <<>> /\ channelsEnv.loses
    /\ \A c \in Channels : /\ me \notin room[c].nicks
                           /\ list[c].connected \in {"none", "limbo"}
                           /\ ~channelsEnv.leaves => ~list[c].chop /\ ~list[c].mode

ListRight ==
    /\ Inv /\ RoomsRight
    /\ ~channelsEnv.impatient => IF connected THEN InTouch ELSE OutOfTouch

-----------------------------------------------------------------------------
(* Chains.                                                                  *)

LEMMA ElementsOf == ASSUME NEW S, NEW s \in Seq(S) PROVE Len(s) \in Nat /\ \A i \in 1 .. Len(s) : s[i] \in S
OBVIOUS

LEMMA TailIs ==
    ASSUME NEW S, NEW s \in Seq(S), s # <<>>
    PROVE  /\ Tail(s) \in Seq(S) /\ Len(Tail(s)) = Len(s) - 1 /\ Head(s) = s[1] /\ 1 \in 1 .. Len(s)
           /\ \A i \in 1 .. Len(s) - 1 : Tail(s)[i] = s[i + 1]
<1>1. Len(s) \in Nat /\ Len(s) # 0 BY EmptySeq
<1>2. \A i \in 1 .. Len(s) - 1 : Tail(s)[i] = s[i + 1] BY <1>1, HeadTailProperties
<1> QED BY <1>1, <1>2, HeadTailProperties

\* A line is read.
LEMMA ChainTail ==
    ASSUME NEW S, NEW env, NEW h, NEW lines \in Seq(S), lines # <<>>, Chain(env, h, lines)
    PROVE  /\ Chain(env, Tail(h), Tail(lines))
           /\ Tail(h)[1] = h[2] /\ Tail(h)[Len(Tail(h))] = h[Len(h)]
           /\ IsView(h[1]) /\ IsView(h[2]) /\ Explains(env, h[1], Head(lines), h[2])
<1>1. /\ h \in Seq(View) /\ Len(h) = Len(lines) + 1
      /\ \A i \in 1 .. Len(h) : IsView(h[i])
      /\ \A i \in 1 .. Len(lines) : Explains(env, h[i], lines[i], h[i + 1])
  BY DEF Chain
<1>2. Len(lines) \in Nat /\ Len(lines) >= 1
  <2>1. 1 \in 1 .. Len(lines) BY TailIs
  <2> QED BY <2>1
<1>3. h # <<>> BY <1>1, <1>2
<1>4. /\ Tail(lines) \in Seq(S) /\ Len(Tail(lines)) = Len(lines) - 1 /\ Head(lines) = lines[1]
      /\ \A i \in 1 .. Len(lines) - 1 : Tail(lines)[i] = lines[i + 1]
  BY TailIs
<1>5. /\ Tail(h) \in Seq(View) /\ Len(Tail(h)) = Len(h) - 1
      /\ \A i \in 1 .. Len(h) - 1 : Tail(h)[i] = h[i + 1]
  <2>1. h \in Seq(View) BY <1>1
  <2> QED BY <2>1, <1>3, TailIs
<1>6. \A i \in 1 .. Len(Tail(h)) : IsView(Tail(h)[i])
  <2> SUFFICES ASSUME NEW i \in 1 .. Len(Tail(h)) PROVE IsView(Tail(h)[i]) OBVIOUS
  <2>1. Tail(h)[i] = h[i + 1] /\ i + 1 \in 1 .. Len(h) BY <1>1, <1>2, <1>5
  <2> QED BY <1>1, <2>1
<1>7. \A i \in 1 .. Len(Tail(lines)) : Explains(env, Tail(h)[i], Tail(lines)[i], Tail(h)[i + 1])
  <2> SUFFICES ASSUME NEW i \in 1 .. Len(Tail(lines))
               PROVE  Explains(env, Tail(h)[i], Tail(lines)[i], Tail(h)[i + 1])
    OBVIOUS
  <2>1. i \in 1 .. Len(lines) - 1 /\ i + 1 \in 1 .. Len(lines) BY <1>2, <1>4
  <2>2. i \in 1 .. Len(h) - 1 /\ i + 1 \in 1 .. Len(h) - 1 BY <1>1, <1>2, <2>1
  <2>3. Tail(lines)[i] = lines[i + 1] BY <1>4, <2>1
  <2>4. Tail(h)[i] = h[i + 1] /\ Tail(h)[i + 1] = h[i + 1 + 1] BY <1>5, <2>2
  <2>5. Explains(env, h[i + 1], lines[i + 1], h[i + 1 + 1]) BY <1>1, <2>1
  <2> QED BY <2>3, <2>4, <2>5
<1>8. Chain(env, Tail(h), Tail(lines))
  <2>1. Len(Tail(h)) = Len(Tail(lines)) + 1 BY <1>1, <1>2, <1>4, <1>5
  <2> QED BY <1>5, <1>6, <1>7, <2>1 DEF Chain
<1>9. Tail(h)[1] = h[2] /\ Tail(h)[Len(Tail(h))] = h[Len(h)]
  <2>1. 1 \in 1 .. Len(h) - 1 /\ Len(h) - 1 \in 1 .. Len(h) - 1 /\ Len(h) - 1 + 1 = Len(h) /\ 1 + 1 = 2 BY <1>1, <1>2
  <2>2. Tail(h)[1] = h[1 + 1] /\ Tail(h)[Len(h) - 1] = h[Len(h) - 1 + 1] BY <1>5, <2>1
  <2> QED BY <1>5, <2>1, <2>2
<1>10. IsView(h[1]) /\ IsView(h[2]) /\ Explains(env, h[1], Head(lines), h[2])
  <2>1. 1 \in 1 .. Len(h) /\ 2 \in 1 .. Len(h) /\ 1 \in 1 .. Len(lines) /\ 1 + 1 = 2 BY <1>1, <1>2
  <2>2. Explains(env, h[1], lines[1], h[1 + 1]) BY <1>1, <2>1
  <2> QED BY <1>1, <1>4, <2>1, <2>2
<1> QED BY <1>8, <1>9, <1>10

\* A line is sent.
Extended(env, h, lines, m, w) ==
    /\ Chain(env, Append(h, w), Append(lines, m))
    /\ Append(h, w)[1] = h[1] /\ Append(h, w)[Len(Append(h, w))] = w
    /\ Append(h, w)[Len(lines) + 1] = h[Len(h)]

LEMMA ChainAppend ==
    ASSUME NEW S, NEW env, NEW h, NEW lines \in Seq(S), Chain(env, h, lines),
           NEW m \in S, NEW w, IsView(w), Explains(env, h[Len(h)], m, w)
    PROVE  Extended(env, h, lines, m, w)
<1>1. /\ h \in Seq(View) /\ Len(h) = Len(lines) + 1
      /\ \A i \in 1 .. Len(h) : IsView(h[i])
      /\ \A i \in 1 .. Len(lines) : Explains(env, h[i], lines[i], h[i + 1])
  BY DEF Chain
<1>2. Len(lines) \in Nat OBVIOUS
<1>3. w \in View BY DEF IsView
<1> DEFINE g == Append(h, w)
           new == Append(lines, m)
<1>4. /\ g \in Seq(View) /\ Len(g) = Len(h) + 1 /\ g[Len(h) + 1] = w
      /\ \A i \in 1 .. Len(h) : g[i] = h[i]
  BY <1>1, <1>3, AppendProperties
<1>5. /\ new \in Seq(S) /\ Len(new) = Len(lines) + 1 /\ new[Len(lines) + 1] = m
      /\ \A i \in 1 .. Len(lines) : new[i] = lines[i]
  BY AppendProperties
<1> HIDE DEF g, new
<1>6. ASSUME NEW i \in 1 .. Len(g) PROVE IsView(g[i])
  <2>1. CASE i \in 1 .. Len(h) BY <1>1, <1>4, <2>1
  <2>2. CASE i = Len(h) + 1 BY <1>4, <2>2
  <2> QED BY <1>1, <1>2, <1>4, <2>1, <2>2
<1>7. ASSUME NEW i \in 1 .. Len(new) PROVE Explains(env, g[i], new[i], g[i + 1])
  <2>1. CASE i \in 1 .. Len(lines)
    <3>1. i \in 1 .. Len(h) /\ i + 1 \in 1 .. Len(h) BY <1>1, <1>2, <2>1
    <3> QED BY <1>1, <1>4, <1>5, <2>1, <3>1
  <2>2. CASE i = Len(lines) + 1
    <3>1. g[i] = h[Len(h)] /\ g[i + 1] = w /\ new[i] = m BY <1>1, <1>2, <1>4, <1>5, <2>2
    <3> QED BY <3>1
  <2> QED BY <1>2, <1>5, <2>1, <2>2
<1>8. Chain(env, g, new)
  <2>1. Len(g) = Len(new) + 1 BY <1>1, <1>4, <1>5
  <2> QED BY <1>4, <1>6, <1>7, <2>1 DEF Chain
<1>9. g[1] = h[1] /\ g[Len(g)] = w /\ g[Len(lines) + 1] = h[Len(h)]
  BY <1>1, <1>2, <1>4
<1> QED BY <1>8, <1>9 DEF g, new, Extended

-----------------------------------------------------------------------------
(* The handlers: each takes the first link of the chain away.               *)

\* What a handler makes of what is still to come: e becomes e2.
Carries(env, e, v, m, w, e2, c) ==
    /\ e2.connected = "joining" => e.connected = "joining" /\ m # Refusal(c) /\ ~OwnJoin(m, v, c)
    /\ ~env.leaves =>
          /\ e.connected = "joined" => e2.connected = "joined"
          /\ Wants(e2, w, c) => /\ ~e2.mode
                                /\ (Wants(e, v, c) /\ ~(m.cmd = "324" /\ m.chan = c)) \/ OwnJoin(m, v, c)

Becomes(env, e, v, m, w, e2, c) == RightEntry(env, e2, w, c) /\ Carries(env, e, v, m, w, e2, c)

\* The parts of a view
LEMMA ViewParts ==
    ASSUME NEW v, IsView(v), NEW c \in Channels
    PROVE  /\ v.me \in Names /\ v.room \in [Channels -> Room] /\ v.due \in [Channels -> SUBSET Names]
           /\ v.room[c].nicks \in SUBSET Names /\ v.room[c].ops \in SUBSET Names
           /\ v.room[c].moderated \in BOOLEAN
           /\ v.room[c].ops \subseteq v.room[c].nicks /\ v.due[c] \subseteq v.room[c].nicks
           /\ ~On(v, c) => v.room[c].nicks = {} /\ v.room[c].ops = {} /\ v.due[c] = {}
<1>1. v \in View /\ v.room[c] \in Room BY DEF IsView, View
<1>2. ~On(v, c) => v.room[c].nicks = {} /\ v.room[c].ops = {} BY DEF IsView, NoRoom
<1> QED BY <1>1, <1>2 DEF IsView, View, Room

\* The parts of an entry
LEMMA EntryParts ==
    ASSUME NEW e \in Good
    PROVE  /\ e.connected \in {"none", "limbo", "joining", "joined"}
           /\ e.names \in BOOLEAN /\ e.mode \in BOOLEAN /\ e.chop \in BOOLEAN /\ e.moderated \in BOOLEAN
           /\ e.nicks \in SUBSET Names /\ e.ops \in SUBSET e.nicks
BY DEF Good, Chan

\* A line about another channel
LEMMA Untouched ==
    ASSUME NEW env, NEW e, NEW v, NEW w, NEW m, NEW c, RightEntry(env, e, v, c),
           w.me = v.me, w.room[c] = v.room[c], w.due[c] = v.due[c],
           m.cmd \in {"JOIN", "324", "471"} => m.chan # c,
           Wants(e, v, c) /\ ~env.leaves => ~e.mode
    PROVE  Becomes(env, e, v, m, w, e, c)
<1>1. On(w, c) <=> On(v, c) BY DEF On
<1>2. RightEntry(env, e, w, c)
  <2>1. Listed(e, w, c) BY <1>1 DEF RightEntry, Listed
  <2>2. MembersRight(env, e, w, c) BY <1>1 DEF RightEntry, MembersRight
  <2>3. ModesRight(env, e, w, c) BY <1>1 DEF RightEntry, ModesRight
  <2> QED BY <2>1, <2>2, <2>3 DEF RightEntry
<1>3. Wants(e, w, c) <=> Wants(e, v, c) BY <1>1 DEF Wants
<1>4. ~OwnJoin(m, v, c) BY DEF OwnJoin
<1>5. m # Refusal(c)
  <2>1. Refusal(c).cmd = "471" /\ Refusal(c).chan = c BY DEF Refusal
  <2> QED BY <2>1
<1>6. Carries(env, e, v, m, w, e, c) BY <1>3, <1>4, <1>5 DEF Carries
<1> QED BY <1>2, <1>6 DEF Becomes

\* The first line on its way, and the views before and after it
Reading(v, w) ==
    /\ Inv /\ IsView(v) /\ IsView(w)
    /\ toClient # <<>> /\ Explains(channelsEnv, v, Head(toClient), w)
    /\ Right(channelsEnv, list, nickname, v)
    /\ \A c \in Channels : Wants(list[c], v, c) /\ ~channelsEnv.leaves => ~list[c].mode

HasRead(v, w) ==
    /\ nickname' = w.me
    /\ \A c \in Channels : Becomes(channelsEnv, list[c], v, Head(toClient), w, list'[c], c)

\* What holds of every channel before a line is read
LEMMA ReadingParts ==
    ASSUME NEW v, NEW w, Reading(v, w), NEW c \in Channels
    PROVE  /\ list[c] \in Good /\ list \in [Channels -> Good]
           /\ nickname = v.me /\ RightEntry(channelsEnv, list[c], v, c)
           /\ Wants(list[c], v, c) /\ ~channelsEnv.leaves => ~list[c].mode
           /\ channelsEnv.leaves \in BOOLEAN /\ channelsEnv.split \in BOOLEAN /\ channelsEnv.loses \in BOOLEAN
           /\ Head(toClient).cmd # "353" => v.due[c] = {}
<1>1. Head(toClient).cmd # "353" => \A d \in Channels : v.due[d] = {} BY DEF Reading, Explains
<1>2. list \in [Channels -> Good] /\ channelsEnv \in ChannelSetting BY DEF Reading, Inv
<1>3. /\ channelsEnv.leaves \in BOOLEAN /\ channelsEnv.split \in BOOLEAN /\ channelsEnv.loses \in BOOLEAN
  BY <1>2 DEF ChannelSetting
<1>4. nickname = v.me /\ RightEntry(channelsEnv, list[c], v, c)
      /\ (Wants(list[c], v, c) /\ ~channelsEnv.leaves => ~list[c].mode)
  BY DEF Reading, Right
<1> QED BY <1>1, <1>2, <1>3, <1>4

\* A line that is about one channel: the others stay as they are.
LEMMA OneChannel ==
    ASSUME NEW v, NEW w, Reading(v, w), NEW c \in Channels,
           Head(toClient).cmd \in {"JOIN", "324", "471"} => Head(toClient).chan = c,
           w.me = v.me, \A d \in Channels \ {c} : w.room[d] = v.room[d] /\ w.due[d] = v.due[d],
           NEW e, list' = [list EXCEPT ![c] = e], nickname' = nickname,
           Becomes(channelsEnv, list[c], v, Head(toClient), w, e, c)
    PROVE  HasRead(v, w)
<1>1. nickname' = w.me BY ReadingParts
<1>2. ASSUME NEW d \in Channels
      PROVE  Becomes(channelsEnv, list[d], v, Head(toClient), w, list'[d], d)
  <2>1. CASE d = c
    <3>1. list'[d] = e BY <2>1, ReadingParts
    <3> QED BY <2>1, <3>1
  <2>2. CASE d # c
    <3>1. list'[d] = list[d] BY <2>2, ReadingParts
    <3>2. w.room[d] = v.room[d] /\ w.due[d] = v.due[d] BY <2>2
    <3>3. Head(toClient).cmd \in {"JOIN", "324", "471"} => Head(toClient).chan # d BY <2>2
    <3>4. RightEntry(channelsEnv, list[d], v, d)
          /\ (Wants(list[d], v, d) /\ ~channelsEnv.leaves => ~list[d].mode)
      BY ReadingParts, SMTT(30)
    <3> QED BY <3>1, <3>2, <3>3, <3>4, Untouched
  <2> QED BY <2>1, <2>2
<1> QED BY <1>1, <1>2 DEF HasRead

\* Of what is explained, the part that a command is for.
LEMMA ExplainedAs ==
    ASSUME NEW env, NEW v, NEW m, NEW w, Explains(env, v, m, w)
    PROVE  /\ m.cmd = "JOIN" => SaysOwnJoin(v, m, w) \/ SaysJoin(v, m, w)
           /\ m.cmd \in {"PART", "KICK"} => SaysLeft(env, v, m, w)
           /\ m.cmd = "QUIT" => SaysQuit(v, m, w)
           /\ m.cmd = "NICK" => SaysNick(v, m, w)
           /\ m.cmd = "MODE_o" => SaysOper(v, m, w)
           /\ m.cmd = "MODE_m" => SaysModerated(v, m, w)
           /\ m.cmd = "353" => SaysNames(env, v, m, w)
           /\ m.cmd = "324" => SaysModes(v, m, w)
           /\ m.cmd = "471" => SaysRefused(v, m, w)
BY DEF Explains, SaysOwnJoin, SaysJoin, SaysLeft, SaysQuit, SaysNick, SaysOper, SaysModerated, SaysNames,
       SaysModes, SaysRefused

\* JOIN
LEMMA PChannelReads == ASSUME NEW v, NEW w, Reading(v, w), PChannel PROVE HasRead(v, w)
<1> DEFINE m == Head(toClient)
           c == m.chan
           e == list[c]
           env == channelsEnv
<1>1. /\ m.cmd = "JOIN" /\ nickname' = nickname
      /\ IF m.nick = nickname THEN list' = [list EXCEPT ![c] = AddChannel(e, "joined")]
         ELSE list' = [list EXCEPT ![c] = AddToChannel(e, {m.nick}, {})]
  BY DEF PChannel, Reads, Became
<1>2. SaysOwnJoin(v, m, w) \/ SaysJoin(v, m, w) BY <1>1, ExplainedAs DEF Reading
<1>3. c \in Channels BY <1>2 DEF SaysOwnJoin, SaysJoin
<1>4. /\ e \in Good /\ nickname = v.me /\ RightEntry(env, e, v, c)
      /\ (Wants(e, v, c) /\ ~env.leaves => ~e.mode)
      /\ env.leaves \in BOOLEAN /\ env.split \in BOOLEAN /\ env.loses \in BOOLEAN
      /\ v.due[c] = {}
  BY <1>1, <1>3, ReadingParts
<1>5. IsView(v) /\ IsView(w) BY DEF Reading
<1>6. /\ v.room \in [Channels -> Room] /\ v.due \in [Channels -> SUBSET Names]
      /\ w.room[c].ops \subseteq w.room[c].nicks
      /\ v.room[c].ops \subseteq v.room[c].nicks /\ v.room[c] \in Room
      /\ w.me = v.me
  <2>1. w.me = v.me BY <1>2, SMTT(30) DEF SaysOwnJoin, SaysJoin
  <2> QED BY <1>3, <1>5, <2>1, ViewParts
<1>7. \A d \in Channels \ {c} : w.room[d] = v.room[d] /\ w.due[d] = v.due[d]
  BY <1>2, <1>3, <1>6 DEF SaysOwnJoin, SaysJoin
<1>8. CASE SaysOwnJoin(v, m, w)
  <2> DEFINE f == AddChannel(e, "joined")
  <2>1. /\ m.nick = v.me /\ ~On(v, c) /\ On(w, c) /\ w.due[c] = w.room[c].nicks
    BY <1>3, <1>6, <1>8 DEF SaysOwnJoin
  <2>2. /\ f.connected = "joined" /\ f.names = FALSE /\ f.nicks = {} /\ f.ops = {}
        /\ f.chop = e.chop /\ f.mode = e.mode /\ f.moderated = e.moderated
    BY <1>4 DEF AddChannel, ClearChannel, Good, Chan
  <2>3. list' = [list EXCEPT ![c] = f] BY <1>1, <1>4, <2>1
  <2> HIDE DEF f, e, c, m, env
  <2>4. Listed(f, w, c) BY <2>2 DEF Listed
  <2>5. MembersRight(env, f, w, c)
    <3>1. ~env.leaves => ~e.mode BY <1>4, <2>1 DEF RightEntry, ModesRight
    <3>2. w.room[c].nicks \ w.due[c] = {} /\ w.room[c].ops \ w.due[c] = {} BY <1>6, <2>1
    <3> QED BY <2>1, <2>2, <3>1, <3>2 DEF MembersRight
  <2>6. ModesRight(env, f, w, c)
    <3> SUFFICES ASSUME ~env.leaves PROVE ModesRight(env, f, w, c) BY DEF ModesRight
    <3>1. ~e.chop /\ ~e.mode /\ (~env.loses => ~e.moderated) BY <1>4, <2>1 DEF RightEntry, ModesRight
    <3>2. ~(w.me \in w.room[c].ops \ w.due[c]) BY <1>6, <2>1
    <3> QED BY <2>1, <2>2, <3>1, <3>2 DEF ModesRight
  <2>7. Carries(env, e, v, m, w, f, c)
    <3>1. OwnJoin(m, v, c) BY <1>1, <2>1 DEF OwnJoin, c
    <3>2. ~env.leaves => ~f.mode BY <1>4, <2>1, <2>2 DEF RightEntry, ModesRight
    <3> QED BY <2>2, <3>1, <3>2 DEF Carries
  <2>8. Becomes(env, e, v, m, w, f, c) BY <2>4, <2>5, <2>6, <2>7, SMTT(30) DEF Becomes, RightEntry
  <2> QED BY <1>1, <1>3, <1>6, <1>7, <2>3, <2>8, OneChannel DEF m, c, e, env
<1>9. CASE SaysJoin(v, m, w)
  <2> DEFINE f == AddToChannel(e, {m.nick}, {})
  <2>1. /\ On(v, c) /\ m.nick \notin v.room[c].nicks /\ m.nick # v.me /\ w.due[c] = {}
        /\ w.room[c] = More(v.room[c], m.nick)
    BY <1>3, <1>4, <1>6, <1>9 DEF SaysJoin, On
  <2>2. e.connected = "joined" BY <1>4, <2>1 DEF RightEntry, Listed
  <2>3. /\ f.connected = "joined" /\ f.names = e.names /\ f.nicks = e.nicks \cup {m.nick} /\ f.ops = e.ops \ {m.nick}
        /\ f.chop = e.chop /\ f.mode = e.mode /\ f.moderated = e.moderated
    BY <1>4, <2>2 DEF AddToChannel, Good, Chan
  <2>4. list' = [list EXCEPT ![c] = f] BY <1>1, <1>4, <2>1
  <2>5. /\ w.room[c].nicks = v.room[c].nicks \cup {m.nick} /\ w.room[c].ops = v.room[c].ops
        /\ w.room[c].moderated = v.room[c].moderated
    BY <1>6, <2>1, SMTT(30) DEF More, Room
  <2>6. On(w, c) BY <1>6, <2>1, <2>5 DEF On
  <2> HIDE DEF f, e, c, env
  <2>7. Listed(f, w, c) BY <2>3 DEF Listed
  <2>8. MembersRight(env, f, w, c)
    <3> SUFFICES ASSUME ~(env.split /\ env.leaves) PROVE MembersRight(env, f, w, c) BY DEF MembersRight
    <3>1. e.nicks = v.room[c].nicks /\ e.ops = v.room[c].ops BY <1>4, <2>1 DEF RightEntry, MembersRight
    <3>2. f.nicks = w.room[c].nicks /\ f.ops = w.room[c].ops BY <1>6, <2>1, <2>3, <2>5, <3>1
    <3> QED BY <2>1, <2>6, <3>2 DEF MembersRight
  <2>9. ModesRight(env, f, w, c)
    BY <1>4, <1>6, <2>1, <2>3, <2>5, <2>6 DEF RightEntry, ModesRight
  <2>10. Carries(env, e, v, m, w, f, c)
    <3>1. Wants(f, w, c) => Wants(e, v, c) BY <2>1, <2>3, <2>5 DEF Wants
    <3> QED BY <1>1, <1>4, <2>2, <2>3, <3>1 DEF Carries
  <2>11. Becomes(env, e, v, m, w, f, c) BY <2>7, <2>8, <2>9, <2>10 DEF Becomes, RightEntry
  <2> HIDE DEF m
  <2> QED BY <1>1, <1>3, <1>6, <1>7, <2>4, <2>11, OneChannel DEF m, c, e, env
<1> QED BY <1>2, <1>8, <1>9

\* PART
LEMMA PPartReads == ASSUME NEW v, NEW w, Reading(v, w), PPart \/ PKick PROVE HasRead(v, w)
<1> DEFINE m == Head(toClient)
           c == m.chan
           e == list[c]
           env == channelsEnv
           f == IF m.cmd = "PART" /\ ~IsOnChannel(c, m.nick) THEN e
                ELSE IF m.nick = nickname THEN NoChannel
                ELSE RemoveFromChannel(e, m.nick)
<1>1. m.cmd \in {"PART", "KICK"} /\ nickname' = nickname /\ list' = [list EXCEPT ![c] = f]
  <2>1. CASE PPart BY <2>1 DEF PPart, Reads, Became
  <2>2. CASE PKick BY <2>2 DEF PKick, Reads, Became
  <2> QED BY <2>1, <2>2
<1>2. SaysLeft(env, v, m, w) BY <1>1, ExplainedAs DEF Reading
<1>3. c \in Channels BY <1>2 DEF SaysLeft
<1>4. /\ e \in Good /\ nickname = v.me /\ RightEntry(env, e, v, c)
      /\ (Wants(e, v, c) /\ ~env.leaves => ~e.mode)
      /\ env.leaves \in BOOLEAN /\ env.split \in BOOLEAN /\ env.loses \in BOOLEAN
      /\ v.due[c] = {}
  <2>1. Head(toClient).cmd # "353" BY <1>1
  <2> QED BY <1>3, <2>1, ReadingParts
<1>5. IsView(v) /\ IsView(w) BY DEF Reading
<1>6. /\ v.room \in [Channels -> Room] /\ v.due \in [Channels -> SUBSET Names]
      /\ w.room[c].ops \subseteq w.room[c].nicks
      /\ v.room[c].ops \subseteq v.room[c].nicks /\ v.room[c] \in Room
      /\ w.me = v.me
  <2>1. w.me = v.me BY <1>2, SMTT(30) DEF SaysLeft
  <2> QED BY <1>3, <1>5, <2>1, ViewParts
<1>7. \A d \in Channels \ {c} : w.room[d] = v.room[d] /\ w.due[d] = v.due[d]
  BY <1>2, <1>3, <1>6, SMTT(30) DEF SaysLeft
<1>8. /\ On(v, c) /\ m.nick \in v.room[c].nicks /\ (m.nick = v.me => env.leaves) /\ w.due[c] = {}
      /\ w.room[c] = IF m.nick = v.me THEN NoRoom ELSE Less(v.room[c], m.nick)
  BY <1>2, <1>3, <1>4, <1>6 DEF SaysLeft
<1>9. e.connected = "joined" BY <1>4, <1>8 DEF RightEntry, Listed
<1>10. \/ f = e /\ m.cmd = "PART" /\ ~IsOnChannel(c, m.nick)
       \/ /\ ~(m.cmd = "PART" /\ ~IsOnChannel(c, m.nick))
          /\ f = IF m.nick = v.me THEN NoChannel ELSE RemoveFromChannel(e, m.nick)
  BY <1>4
<1>11. IsOnChannel(c, m.nick) <=> m.nick \in e.nicks BY <1>9 DEF IsOnChannel
<1>12. ~(env.split /\ env.leaves) => e.nicks = v.room[c].nicks /\ e.ops = v.room[c].ops
  BY <1>4, <1>8 DEF RightEntry, MembersRight
<1> HIDE DEF f, e, c, env
<1>13. CASE m.nick = v.me
  <2>1. ~On(w, c) BY <1>6, <1>8, <1>13 DEF On, NoRoom
  <2>2. ~(env.split /\ env.leaves) => f = NoChannel BY <1>8, <1>10, <1>11, <1>12, <1>13
  <2>3. f = NoChannel \/ f = e BY <1>10, <1>13
  <2>4. f.connected = "none" \/ f.connected = "joined" BY <1>9, <2>3 DEF NoChannel
  <2>5. f = NoChannel => f.connected = "none" BY DEF NoChannel
  <2>6. Listed(f, w, c) BY <2>1, <2>4 DEF Listed
  <2>7. MembersRight(env, f, w, c) BY <1>8, <2>1, <2>2, <2>5 DEF MembersRight
  <2>8. ModesRight(env, f, w, c) BY <1>8, <1>13 DEF ModesRight
  <2>9. Carries(env, e, v, m, w, f, c) BY <1>8, <1>13, <2>4 DEF Carries
  <2>10. Becomes(env, e, v, m, w, f, c) BY <2>6, <2>7, <2>8, <2>9 DEF Becomes, RightEntry
  <2> HIDE DEF m
  <2> QED BY <1>1, <1>3, <1>6, <1>7, <2>10, OneChannel DEF m, c, e, env
<1>14. CASE m.nick # v.me
  <2>1. /\ w.room[c].nicks = v.room[c].nicks \ {m.nick} /\ w.room[c].ops = v.room[c].ops \ {m.nick}
        /\ w.room[c].moderated = v.room[c].moderated
    BY <1>6, <1>8, <1>14 DEF Less, Room
  <2>2. On(w, c) BY <1>6, <1>8, <1>14, <2>1 DEF On
  <2>3. f = e \/ f = RemoveFromChannel(e, m.nick) BY <1>10, <1>14
  <2>4. /\ f.connected = "joined" /\ f.names = e.names
        /\ f.chop = e.chop /\ f.mode = e.mode /\ f.moderated = e.moderated
    BY <1>4, <1>9, <2>3 DEF RemoveFromChannel, Good, Chan
  <2>5. ~(env.split /\ env.leaves) => f.nicks = w.room[c].nicks /\ f.ops = w.room[c].ops
    <3> SUFFICES ASSUME ~(env.split /\ env.leaves) PROVE f.nicks = w.room[c].nicks /\ f.ops = w.room[c].ops
      OBVIOUS
    <3>1. f = RemoveFromChannel(e, m.nick) BY <1>8, <1>10, <1>11, <1>12, <1>14
    <3>2. f.nicks = e.nicks \ {m.nick} /\ f.ops = e.ops \ {m.nick}
      BY <1>4, <3>1 DEF RemoveFromChannel, Good, Chan
    <3> QED BY <1>12, <2>1, <3>2
  <2>6. Listed(f, w, c) BY <2>4 DEF Listed
  <2>7. MembersRight(env, f, w, c)
    BY <1>8, <2>2, <2>5 DEF MembersRight
  <2>8. ModesRight(env, f, w, c)
    <3>1. v.me \in w.room[c].ops \ w.due[c] <=> v.me \in v.room[c].ops \ v.due[c] BY <1>4, <1>8, <1>14, <2>1
    <3> QED BY <1>4, <1>6, <1>8, <2>1, <2>2, <2>4, <3>1 DEF RightEntry, ModesRight
  <2>9. Carries(env, e, v, m, w, f, c)
    <3>1. Wants(f, w, c) => Wants(e, v, c) BY <1>8, <2>1, <2>4 DEF Wants
    <3> QED BY <1>1, <1>4, <1>9, <2>4, <3>1 DEF Carries
  <2>10. Becomes(env, e, v, m, w, f, c) BY <2>6, <2>7, <2>8, <2>9 DEF Becomes, RightEntry
  <2> HIDE DEF m
  <2> QED BY <1>1, <1>3, <1>6, <1>7, <2>10, OneChannel DEF m, c, e, env
<1> QED BY <1>13, <1>14

\* QUIT
LEMMA PQuitReads == ASSUME NEW v, NEW w, Reading(v, w), PQuit PROVE HasRead(v, w)
<1> DEFINE m == Head(toClient)
           env == channelsEnv
<1>1. m.cmd = "QUIT" /\ nickname' = nickname /\ list' = [c \in Channels |-> RemoveFromChannel(list[c], m.nick)]
  BY DEF PQuit, Reads
<1>2. m.nick # v.me /\ w.me = v.me /\ w.due = v.due /\ w.room = [c \in Channels |-> Less(v.room[c], m.nick)]
  BY <1>1, ExplainedAs DEF Reading, SaysQuit
<1>3. nickname' = w.me BY <1>1, <1>2 DEF Reading, Right
<1>4. ASSUME NEW c \in Channels PROVE Becomes(env, list[c], v, m, w, list'[c], c)
  <2> DEFINE e == list[c]
             f == RemoveFromChannel(e, m.nick)
  <2>0. list'[c] = f BY <1>1
  <2>1. /\ e \in Good /\ RightEntry(env, e, v, c)
        /\ (Wants(e, v, c) /\ ~env.leaves => ~e.mode)
        /\ env.leaves \in BOOLEAN /\ env.split \in BOOLEAN /\ env.loses \in BOOLEAN
        /\ v.due[c] = {} /\ w.due[c] = {}
    BY <1>1, <1>2, ReadingParts
  <2>2. v.room[c] \in Room BY ViewParts DEF Reading, IsView, View
  <2>3. /\ w.room[c].nicks = v.room[c].nicks \ {m.nick} /\ w.room[c].ops = v.room[c].ops \ {m.nick}
        /\ w.room[c].moderated = v.room[c].moderated
    BY <1>2, <2>2, ZenonT(60) DEF Less, Room
  <2>4. On(w, c) <=> On(v, c) BY <1>2, <2>3 DEF On
  <2>5. /\ f.connected = e.connected /\ f.names = e.names
        /\ f.chop = e.chop /\ f.mode = e.mode /\ f.moderated = e.moderated
        /\ f.nicks = e.nicks \ {m.nick} /\ f.ops = e.ops \ {m.nick}
    BY <2>1 DEF RemoveFromChannel, Good, Chan
  <2> HIDE DEF f, e, env
  <2>6. Listed(f, w, c) BY <2>1, <2>4, <2>5 DEF RightEntry, Listed
  <2>7. MembersRight(env, f, w, c) BY <2>1, <2>3, <2>4, <2>5 DEF RightEntry, MembersRight
  <2>8. ModesRight(env, f, w, c)
    <3>1. v.me \in w.room[c].ops \ w.due[c] <=> v.me \in v.room[c].ops \ v.due[c] BY <1>2, <2>1, <2>3
    <3> QED BY <1>2, <2>1, <2>3, <2>4, <2>5, <3>1 DEF RightEntry, ModesRight
  <2>9. Carries(env, e, v, m, w, f, c)
    <3>1. Wants(f, w, c) => Wants(e, v, c) BY <2>3, <2>4, <2>5 DEF Wants
    <3>2. m # Refusal(c) /\ ~OwnJoin(m, v, c) BY <1>1 DEF Refusal, OwnJoin
    <3> QED BY <1>1, <2>1, <2>5, <3>1, <3>2 DEF Carries
  <2> QED BY <2>0, <2>6, <2>7, <2>8, <2>9 DEF Becomes, RightEntry, e, env
<1> QED BY <1>3, <1>4 DEF HasRead

\* NICK
LEMMA PNickReads == ASSUME NEW v, NEW w, Reading(v, w), PNick PROVE HasRead(v, w)
<1> DEFINE m == Head(toClient)
           env == channelsEnv
<1>1. /\ m.cmd = "NICK" /\ nickname' = IF m.nick = nickname THEN m.new ELSE nickname
      /\ list' = [c \in Channels |-> RenameNick(list[c], m.nick, m.new)]
  BY DEF PNick, Reads
<1>2. /\ m.new # v.me /\ \A c \in Channels : m.new \notin v.room[c].nicks
      /\ w.me = (IF m.nick = v.me THEN m.new ELSE v.me) /\ w.due = v.due
      /\ w.room = [c \in Channels |-> Moved(v.room[c], m.nick, m.new)]
  BY <1>1, ExplainedAs DEF Reading, SaysNick
<1>3. nickname' = w.me BY <1>1, <1>2 DEF Reading, Right
<1>4. ASSUME NEW c \in Channels PROVE Becomes(env, list[c], v, m, w, list'[c], c)
  <2> DEFINE e == list[c]
             f == RenameNick(e, m.nick, m.new)
             moved(S) == (S \ {m.nick}) \cup (IF m.nick \in S THEN {m.new} ELSE {})
  <2>0. list'[c] = f BY <1>1
  <2>1. /\ e \in Good /\ RightEntry(env, e, v, c)
        /\ (Wants(e, v, c) /\ ~env.leaves => ~e.mode)
        /\ env.leaves \in BOOLEAN /\ env.split \in BOOLEAN /\ env.loses \in BOOLEAN
        /\ v.due[c] = {} /\ w.due[c] = {}
    BY <1>1, <1>2, ReadingParts
  <2>2. v.room[c] \in Room /\ v.room[c].ops \subseteq v.room[c].nicks BY ViewParts, SMTT(30) DEF Reading, IsView, View
  <2>3. /\ w.room[c].nicks = moved(v.room[c].nicks) /\ w.room[c].ops = moved(v.room[c].ops)
        /\ w.room[c].moderated = v.room[c].moderated
    BY <1>2, <2>2, ZenonT(60) DEF Moved, Room
  <2>4. m.new \notin v.room[c].nicks /\ m.new \notin v.room[c].ops BY <1>2, <2>2
  <2>5. w.me \in moved(v.room[c].nicks) <=> v.me \in v.room[c].nicks BY <1>2, <2>4
  <2>6. w.me \in moved(v.room[c].ops) <=> v.me \in v.room[c].ops BY <1>2, <2>4
  <2>7. On(w, c) <=> On(v, c) BY <2>3, <2>5 DEF On
  <2>8. /\ f.connected = e.connected /\ f.names = e.names
        /\ f.chop = e.chop /\ f.mode = e.mode /\ f.moderated = e.moderated
        /\ f.nicks = moved(e.nicks) /\ f.ops = moved(e.ops)
    BY <2>1 DEF RenameNick, Good, Chan
  <2>9. \A S : moved(S \ {}) = moved(S) /\ moved(S) \ {} = moved(S) /\ S \ {} = S
    <3>1. \A S : S \ {} = S OBVIOUS
    <3> QED BY <3>1
  <2> HIDE DEF f, e, env, moved
  <2>10. Listed(f, w, c) BY <2>1, <2>7, <2>8 DEF RightEntry, Listed
  <2>11. MembersRight(env, f, w, c)
    <3> SUFFICES ASSUME ~(env.split /\ env.leaves) PROVE MembersRight(env, f, w, c) BY DEF MembersRight
    <3>1. On(v, c) => e.nicks = v.room[c].nicks /\ e.ops = v.room[c].ops BY <2>1, <2>9 DEF RightEntry, MembersRight
    <3>2. On(w, c) => f.nicks = w.room[c].nicks \ w.due[c] /\ f.ops = w.room[c].ops \ w.due[c]
      BY <2>1, <2>3, <2>7, <2>8, <2>9, <3>1
    <3>3. ~On(v, c) => e.connected # "joined" BY <2>1 DEF RightEntry, MembersRight
    <3> QED BY <2>1, <2>7, <2>8, <3>2, <3>3 DEF MembersRight
  <2>12. ModesRight(env, f, w, c)
    <3>1. w.me \in w.room[c].ops \ w.due[c] <=> v.me \in v.room[c].ops \ v.due[c] BY <2>1, <2>3, <2>6, <2>9
    <3> QED BY <2>1, <2>3, <2>7, <2>8, <3>1 DEF RightEntry, ModesRight
  <2>13. Carries(env, e, v, m, w, f, c)
    <3>1. Wants(f, w, c) => Wants(e, v, c) BY <2>3, <2>7, <2>8 DEF Wants
    <3>2. m # Refusal(c) /\ ~OwnJoin(m, v, c) BY <1>1 DEF Refusal, OwnJoin
    <3> QED BY <1>1, <2>1, <2>8, <3>1, <3>2 DEF Carries
  <2> QED BY <2>0, <2>10, <2>11, <2>12, <2>13 DEF Becomes, RightEntry, e, env
<1> QED BY <1>3, <1>4 DEF HasRead

\* MODE +o and -o
LEMMA PModeOperReads == ASSUME NEW v, NEW w, Reading(v, w), PModeOper PROVE HasRead(v, w)
<1> DEFINE m == Head(toClient)
           c == m.chan
           e == list[c]
           env == channelsEnv
           chop == IF m.nick = nickname THEN m.add ELSE e.chop
           ops == IF m.add THEN e.ops \cup ({m.nick} \cap e.nicks) ELSE e.ops \ {m.nick}
           f == [e EXCEPT !.chop = chop, !.ops = ops]
<1>1. m.cmd = "MODE_o" BY DEF PModeOper, Reads
<1>2. SaysOper(v, m, w) BY <1>1, ExplainedAs DEF Reading
<1>3. c \in Channels /\ m.add \in BOOLEAN BY <1>2 DEF SaysOper
<1>4. /\ e \in Good /\ nickname = v.me /\ RightEntry(env, e, v, c)
      /\ (Wants(e, v, c) /\ ~env.leaves => ~e.mode)
      /\ env.leaves \in BOOLEAN /\ env.split \in BOOLEAN /\ env.loses \in BOOLEAN
      /\ v.due[c] = {}
  <2>1. Head(toClient).cmd # "353" BY <1>1
  <2> QED BY <1>3, <2>1, ReadingParts
<1>5. /\ nickname' = nickname /\ list' = [list EXCEPT ![c] = IF e.connected = "none" THEN e ELSE f]
  BY <1>4 DEF PModeOper, Reads, Became, Good, Chan
<1>6. /\ v.room \in [Channels -> Room] /\ v.due \in [Channels -> SUBSET Names]
      /\ v.room[c].ops \subseteq v.room[c].nicks /\ v.room[c] \in Room
      /\ w.me = v.me
  <2>1. w.me = v.me BY <1>2 DEF SaysOper
  <2> QED BY <1>3, <2>1, ViewParts DEF Reading
<1>7. \A d \in Channels \ {c} : w.room[d] = v.room[d] /\ w.due[d] = v.due[d]
  BY <1>2, <1>3, <1>6 DEF SaysOper
<1>8. /\ On(v, c) /\ m.nick \in v.room[c].nicks /\ w.due[c] = {}
      /\ w.room[c] = Opered(v.room[c], m.nick, m.add)
  BY <1>2, <1>3, <1>4, <1>6 DEF SaysOper
<1>9. e.connected = "joined" BY <1>4, <1>8 DEF RightEntry, Listed
<1>10. /\ f.connected = "joined" /\ f.names = e.names /\ f.mode = e.mode /\ f.moderated = e.moderated
       /\ f.nicks = e.nicks /\ f.ops = ops /\ f.chop = chop
  BY <1>4, <1>9 DEF Good, Chan
<1>11. list' = [list EXCEPT ![c] = f] BY <1>5, <1>9
<1>12. /\ w.room[c].nicks = v.room[c].nicks /\ w.room[c].moderated = v.room[c].moderated
       /\ w.room[c].ops = IF m.add THEN v.room[c].ops \cup {m.nick} ELSE v.room[c].ops \ {m.nick}
  BY <1>6, <1>8 DEF Opered, Room
<1>13. On(w, c) BY <1>6, <1>8, <1>12 DEF On
<1>14. ~(env.split /\ env.leaves) => f.nicks = w.room[c].nicks /\ f.ops = w.room[c].ops
  <2> SUFFICES ASSUME ~(env.split /\ env.leaves) PROVE f.nicks = w.room[c].nicks /\ f.ops = w.room[c].ops
    OBVIOUS
  <2>1. e.nicks = v.room[c].nicks /\ e.ops = v.room[c].ops BY <1>4, <1>8 DEF RightEntry, MembersRight
  <2>2. {m.nick} \cap e.nicks = {m.nick} BY <1>8, <2>1
  <2> QED BY <1>3, <1>10, <1>12, <2>1, <2>2, ZenonT(60)
<1>15. ~env.leaves => (f.chop <=> v.me \in w.room[c].ops)
  <2> SUFFICES ASSUME ~env.leaves PROVE f.chop <=> v.me \in w.room[c].ops
    OBVIOUS
  <2>1. e.chop <=> v.me \in v.room[c].ops BY <1>4, <1>8 DEF RightEntry, ModesRight
  <2>2. CASE m.nick = v.me
    <3>1. m.add <=> v.me \in w.room[c].ops BY <1>12, <2>2
    <3> QED BY <1>4, <1>10, <2>2, <3>1
  <2>3. CASE m.nick # v.me
    <3>1. v.me \in v.room[c].ops <=> v.me \in w.room[c].ops BY <1>12, <2>3
    <3> QED BY <1>4, <1>10, <2>1, <2>3, <3>1
  <2> QED BY <2>2, <2>3
<1> HIDE DEF f, e, c, env, chop, ops
<1>16. Listed(f, w, c) BY <1>10 DEF Listed
<1>17. MembersRight(env, f, w, c) BY <1>8, <1>13, <1>14 DEF MembersRight
<1>18. ModesRight(env, f, w, c)
  <2> SUFFICES ASSUME ~env.leaves PROVE ModesRight(env, f, w, c) BY DEF ModesRight
  <2>1. e.moderated => v.room[c].moderated \/ env.loses BY <1>4, <1>8 DEF RightEntry, ModesRight
  <2>2. v.me \in w.room[c].ops \ w.due[c] <=> v.me \in w.room[c].ops BY <1>8
  <2> QED BY <1>6, <1>10, <1>12, <1>13, <1>15, <2>1, <2>2 DEF ModesRight
<1>19. Carries(env, e, v, m, w, f, c)
  <2>1. Wants(f, w, c) => Wants(e, v, c) BY <1>8, <1>10, <1>12 DEF Wants
  <2> QED BY <1>1, <1>4, <1>9, <1>10, <2>1 DEF Carries
<1>20. Becomes(env, e, v, m, w, f, c) BY <1>16, <1>17, <1>18, <1>19 DEF Becomes, RightEntry
<1> HIDE DEF m
<1> QED BY <1>1, <1>3, <1>5, <1>6, <1>7, <1>11, <1>20, OneChannel, ZenonT(60) DEF m, c, e, env

\* MODE +m and -m
LEMMA PModeModeratedReads == ASSUME NEW v, NEW w, Reading(v, w), PModeModerated PROVE HasRead(v, w)
<1> DEFINE m == Head(toClient)
           c == m.chan
           e == list[c]
           env == channelsEnv
           f == [e EXCEPT !.moderated = m.add]
<1>1. /\ m.cmd = "MODE_m" /\ nickname' = nickname
      /\ list' = [list EXCEPT ![c] = IF e.connected = "none" THEN e ELSE f]
  BY DEF PModeModerated, Reads, Became
<1>2. SaysModerated(v, m, w) BY <1>1, ExplainedAs DEF Reading
<1>3. c \in Channels /\ m.add \in BOOLEAN BY <1>2 DEF SaysModerated
<1>4. /\ e \in Good /\ nickname = v.me /\ RightEntry(env, e, v, c)
      /\ (Wants(e, v, c) /\ ~env.leaves => ~e.mode)
      /\ env.leaves \in BOOLEAN /\ env.split \in BOOLEAN /\ env.loses \in BOOLEAN
      /\ v.due[c] = {}
  <2>1. Head(toClient).cmd # "353" BY <1>1
  <2> QED BY <1>3, <2>1, ReadingParts
<1>5. /\ v.room \in [Channels -> Room] /\ v.due \in [Channels -> SUBSET Names]
      /\ v.room[c] \in Room /\ w.me = v.me
  <2>1. w.me = v.me BY <1>2 DEF SaysModerated
  <2> QED BY <1>3, <2>1, ViewParts DEF Reading
<1>6. \A d \in Channels \ {c} : w.room[d] = v.room[d] /\ w.due[d] = v.due[d]
  BY <1>2, <1>3, <1>5 DEF SaysModerated
<1>7. On(v, c) /\ w.due[c] = {} /\ w.room[c] = Moderated(v.room[c], m.add)
  BY <1>2, <1>3, <1>4, <1>5 DEF SaysModerated
<1>8. e.connected = "joined" BY <1>4, <1>7 DEF RightEntry, Listed
<1>9. /\ f.connected = "joined" /\ f.names = e.names /\ f.mode = e.mode /\ f.moderated = m.add
      /\ f.nicks = e.nicks /\ f.ops = e.ops /\ f.chop = e.chop
  BY <1>4, <1>8 DEF Good, Chan
<1>10. list' = [list EXCEPT ![c] = f] BY <1>1, <1>8
<1>11. /\ w.room[c].nicks = v.room[c].nicks /\ w.room[c].moderated = m.add
       /\ w.room[c].ops = v.room[c].ops
  BY <1>5, <1>7 DEF Moderated, Room
<1>12. On(w, c) BY <1>5, <1>7, <1>11 DEF On
<1> HIDE DEF f, e, c, env
<1>13. Listed(f, w, c) BY <1>9 DEF Listed
<1>14. MembersRight(env, f, w, c) BY <1>4, <1>7, <1>9, <1>11, <1>12 DEF RightEntry, MembersRight
<1>15. ModesRight(env, f, w, c)
  BY <1>4, <1>5, <1>7, <1>9, <1>11, <1>12 DEF RightEntry, ModesRight
<1>16. Carries(env, e, v, m, w, f, c)
  <2>1. ~Wants(f, w, c) BY <1>3, <1>9, <1>11 DEF Wants
  <2> QED BY <1>9, <2>1 DEF Carries
<1>17. Becomes(env, e, v, m, w, f, c) BY <1>13, <1>14, <1>15, <1>16 DEF Becomes, RightEntry
<1> HIDE DEF m
<1> QED BY <1>1, <1>3, <1>5, <1>6, <1>10, <1>17, OneChannel, ZenonT(60) DEF m, c, e, env

\* 353, a line of names
LEMMA FunnyNamreplyReads == ASSUME NEW v, NEW w, Reading(v, w), FunnyNamreply PROVE HasRead(v, w)
<1> DEFINE m == Head(toClient)
           c == m.chan
           e == list[c]
           env == channelsEnv
           f == IF Expected(e) THEN NamesTaken(e, m) ELSE e
<1>1. m.cmd = "353" /\ nickname' = nickname BY DEF FunnyNamreply, Reads
<1>2. SaysNames(env, v, m, w) BY <1>1, ExplainedAs DEF Reading
<1>3. c \in Channels BY <1>2 DEF SaysNames
<1>4. /\ e \in Good /\ list \in [Channels -> Good] /\ nickname = v.me /\ RightEntry(env, e, v, c)
      /\ (Wants(e, v, c) /\ ~env.leaves => ~e.mode)
      /\ env.leaves \in BOOLEAN /\ env.split \in BOOLEAN /\ env.loses \in BOOLEAN
  BY <1>3, ReadingParts
<1>5. list' = [list EXCEPT ![c] = f]
  <2>1. CASE Expected(e) BY <2>1 DEF FunnyNamreply, Became
  <2>2. CASE ~Expected(e) BY <1>4, <2>2 DEF FunnyNamreply
  <2> QED BY <2>1, <2>2
<1>6. /\ v.room \in [Channels -> Room] /\ v.due \in [Channels -> SUBSET Names]
      /\ v.room[c] \in Room /\ w.me = v.me
      /\ v.room[c].ops \subseteq v.room[c].nicks /\ v.due[c] \subseteq v.room[c].nicks
      /\ ~On(v, c) => v.due[c] = {}
  <2>1. w.me = v.me BY <1>2 DEF SaysNames
  <2> QED BY <1>3, <2>1, ViewParts DEF Reading
<1>7. \A d \in Channels \ {c} : w.room[d] = v.room[d] /\ w.due[d] = v.due[d]
  BY <1>2, <1>3, <1>6 DEF SaysNames
<1>8. /\ On(v, c) /\ On(w, c) /\ w.room[c] = v.room[c] /\ w.due[c] = v.due[c] \ m.nicks /\ v.due[c] # {}
      /\ m.nicks \subseteq v.due[c] /\ m.ops = v.room[c].ops \cap m.nicks
      /\ ~env.split => m.nicks = v.due[c]
  BY <1>2, <1>3, <1>6 DEF SaysNames, On
<1>9. e.connected = "joined" BY <1>4, <1>8, SMTT(30) DEF RightEntry, Listed
<1>10. f = e \/ /\ f.connected = "joined" /\ f.mode = e.mode /\ f.moderated = e.moderated
                /\ f.nicks = e.nicks \cup m.nicks /\ f.ops = (e.ops \ m.nicks) \cup m.ops
                /\ f.chop = (e.chop \/ (nickname \in m.ops /\ ~e.mode))
  BY <1>4, <1>9 DEF NamesTaken, AddToChannel, Good, Chan
<1>11. (~env.leaves => ~e.mode) /\ (~env.split => Expected(e) /\ w.due[c] = {}) /\ (~env.leaves => Expected(e))
  <2>1. ~env.leaves => ~e.mode BY <1>4, <1>8, SMTT(30) DEF RightEntry, MembersRight
  <2>2. env.leaves /\ ~env.split => ~e.names BY <1>4, <1>8 DEF RightEntry, MembersRight
  <2> QED BY <1>8, <1>9, <2>1, <2>2, SMTT(30) DEF Expected
<1>12. Expected(e) => f.nicks = e.nicks \cup m.nicks /\ f.ops = (e.ops \ m.nicks) \cup m.ops
                      /\ f.chop = (e.chop \/ (nickname \in m.ops /\ ~e.mode))
  BY <1>4, <1>9 DEF NamesTaken, AddToChannel, Good, Chan
<1>13. e.mode \in BOOLEAN /\ e.chop \in BOOLEAN BY <1>4, EntryParts
<1> HIDE DEF f, e, c, env
<1>14. f.connected = "joined" /\ f.mode = e.mode /\ f.moderated = e.moderated BY <1>9, <1>10
<1>15. Listed(f, w, c) BY <1>14 DEF Listed
<1>16. MembersRight(env, f, w, c)
  <2> SUFFICES ASSUME ~(env.split /\ env.leaves) PROVE MembersRight(env, f, w, c) BY DEF MembersRight
  <2>1. Expected(e) BY <1>4, <1>11
  <2>2. e.nicks = v.room[c].nicks \ v.due[c] /\ e.ops = v.room[c].ops \ v.due[c]
    BY <1>4, <1>8 DEF RightEntry, MembersRight
  <2>3. f.nicks = w.room[c].nicks \ w.due[c]
    <3>1. f.nicks = (v.room[c].nicks \ v.due[c]) \cup m.nicks BY <1>12, <2>1, <2>2
    <3> QED BY <1>6, <1>8, <3>1
  <2>4. f.ops = w.room[c].ops \ w.due[c]
    <3>1. f.ops = ((v.room[c].ops \ v.due[c]) \ m.nicks) \cup (v.room[c].ops \cap m.nicks)
      BY <1>8, <1>12, <2>1, <2>2
    <3> QED BY <1>6, <1>8, <3>1
  <2>5. w.due[c] # {} => ~env.leaves /\ ~f.mode BY <1>4, <1>11, <1>14
  <2> QED BY <1>8, <2>3, <2>4, <2>5 DEF MembersRight
<1>17. ModesRight(env, f, w, c)
  <2> SUFFICES ASSUME ~env.leaves PROVE ModesRight(env, f, w, c) BY DEF ModesRight
  <2>1. /\ e.chop <=> v.me \in v.room[c].ops \ v.due[c]
        /\ e.moderated => v.room[c].moderated \/ env.loses
    BY <1>4, <1>8 DEF RightEntry, ModesRight
  <2>2. f.chop <=> e.chop \/ v.me \in m.ops BY <1>4, <1>11, <1>12, <1>13
  <2>3. w.me \in w.room[c].ops \ w.due[c] <=> v.me \in v.room[c].ops \ v.due[c] \/ v.me \in m.ops
    BY <1>6, <1>8
  <2>4. f.chop <=> w.me \in w.room[c].ops \ w.due[c] BY <2>1, <2>2, <2>3
  <2> QED BY <1>8, <1>14, <2>1, <2>4 DEF ModesRight
<1>18. Carries(env, e, v, m, w, f, c)
  <2>1. Wants(f, w, c) => Wants(e, v, c) BY <1>8, <1>14 DEF Wants
  <2> QED BY <1>1, <1>4, <1>9, <1>11, <1>14, <2>1 DEF Carries
<1>19. Becomes(env, e, v, m, w, f, c) BY <1>15, <1>16, <1>17, <1>18 DEF Becomes, RightEntry
<1> HIDE DEF m
<1> QED BY <1>1, <1>3, <1>5, <1>6, <1>7, <1>19, OneChannel DEF m, c, e, env

\* 324, the modes
LEMMA FunnyModeReads ==
    ASSUME NEW v, NEW w, Reading(v, w), FunnyMode,
           ~channelsEnv.leaves => list[Head(toClient).chan].connected = "joined"
    PROVE  HasRead(v, w)
<1> DEFINE m == Head(toClient)
           c == m.chan
           e == list[c]
           env == channelsEnv
           f == IF Expected(e) THEN [e EXCEPT !.mode = TRUE, !.moderated = @ \/ m.moderated] ELSE e
<1>1. m.cmd = "324" /\ nickname' = nickname /\ list' = [list EXCEPT ![c] = f]
  BY DEF FunnyMode, Reads, Became
<1>2. SaysModes(v, m, w) BY <1>1, ExplainedAs DEF Reading
<1>3. c \in Channels /\ w = v /\ (On(v, c) => m.moderated = v.room[c].moderated) /\ m.moderated \in BOOLEAN
  BY <1>2 DEF SaysModes
<1>4. /\ e \in Good /\ RightEntry(env, e, v, c)
      /\ (Wants(e, v, c) /\ ~env.leaves => ~e.mode)
      /\ env.leaves \in BOOLEAN /\ env.split \in BOOLEAN /\ env.loses \in BOOLEAN
      /\ v.due[c] = {}
  <2>1. Head(toClient).cmd # "353" BY <1>1
  <2> QED BY <1>3, <2>1, ReadingParts
<1>5. /\ f.connected = e.connected /\ f.nicks = e.nicks /\ f.ops = e.ops /\ f.chop = e.chop
      /\ f.names = e.names
      /\ Expected(e) => (f.moderated = (e.moderated \/ m.moderated))
      /\ ~Expected(e) => f = e
  BY <1>4 DEF Good, Chan
<1>6. ~env.leaves => On(v, c)
  BY <1>4 DEF RightEntry, MembersRight
<1>7. e.moderated \in BOOLEAN /\ e.mode \in BOOLEAN BY <1>4, EntryParts
<1>8. ~Expected(e) /\ ~env.leaves => e.mode BY DEF Expected
<1> HIDE DEF f, e, c, env
<1>9. Listed(f, v, c) BY <1>4, <1>5 DEF RightEntry, Listed
<1>10. MembersRight(env, f, v, c) BY <1>4, <1>5 DEF RightEntry, MembersRight
<1>11. ModesRight(env, f, v, c)
  <2> SUFFICES ASSUME ~env.leaves PROVE ModesRight(env, f, v, c) BY DEF ModesRight
  <2>1. /\ e.chop <=> v.me \in v.room[c].ops \ v.due[c]
        /\ e.moderated => v.room[c].moderated \/ env.loses
    BY <1>4, <1>6 DEF RightEntry, ModesRight
  <2>2. f.moderated => v.room[c].moderated \/ env.loses
    BY <1>3, <1>5, <1>6, <1>7, <2>1
  <2> QED BY <1>5, <1>6, <2>1, <2>2 DEF ModesRight
<1>12. Carries(env, e, v, m, v, f, c)
  <2>1. ~env.leaves => ~Wants(f, v, c)
    <3> SUFFICES ASSUME ~env.leaves, Wants(f, v, c) PROVE FALSE OBVIOUS
    <3>1. v.room[c].moderated /\ ~f.moderated BY DEF Wants
    <3>2. CASE Expected(e) BY <1>3, <1>5, <1>6, <3>1, <3>2
    <3>3. CASE ~Expected(e)
      <4>1. Wants(e, v, c) BY <1>5, <3>3
      <4> QED BY <1>4, <1>8, <3>3, <4>1
    <3> QED BY <3>2, <3>3
  <2>2. m # Refusal(c) /\ ~OwnJoin(m, v, c) BY <1>1 DEF Refusal, OwnJoin
  <2> QED BY <1>5, <2>1, <2>2 DEF Carries
<1>13. Becomes(env, e, v, m, w, f, c) BY <1>3, <1>9, <1>10, <1>11, <1>12 DEF Becomes, RightEntry
<1>14. \A d \in Channels \ {c} : w.room[d] = v.room[d] /\ w.due[d] = v.due[d] BY <1>3
<1> HIDE DEF m
<1> QED BY <1>1, <1>3, <1>13, <1>14, OneChannel DEF m, c, e, env

\* 471
LEMMA CannotJoinReads == ASSUME NEW v, NEW w, Reading(v, w), CannotJoinChannel PROVE HasRead(v, w)
<1> DEFINE m == Head(toClient)
           c == m.chan
           e == list[c]
           env == channelsEnv
           f == IF IsOnChannel(c, nickname) THEN e ELSE NoChannel
<1>1. m.cmd = "471" /\ nickname' = nickname /\ list' = [list EXCEPT ![c] = f]
  BY DEF CannotJoinChannel, Reads, Became
<1>2. SaysRefused(v, m, w) BY <1>1, ExplainedAs DEF Reading
<1>3. c \in Channels /\ w = v /\ ~On(v, c) BY <1>2 DEF SaysRefused
<1>4. /\ e \in Good /\ RightEntry(env, e, v, c)
      /\ env.leaves \in BOOLEAN /\ env.split \in BOOLEAN /\ env.loses \in BOOLEAN
      /\ v.due[c] = {}
  <2>1. Head(toClient).cmd # "353" BY <1>1
  <2> QED BY <1>3, <2>1, ReadingParts
<1>5. ~(env.split /\ env.leaves) => e.connected # "joined" BY <1>3, <1>4 DEF RightEntry, MembersRight
<1>6. /\ f = NoChannel \/ f.connected = "joined"
      /\ ~(env.split /\ env.leaves) => f = NoChannel
  BY <1>5 DEF IsOnChannel
<1>7. NoChannel.connected = "none" /\ ~NoChannel.chop /\ ~NoChannel.mode /\ ~NoChannel.moderated
  BY DEF NoChannel
<1> HIDE DEF f, e, c, env
<1>8. Listed(f, v, c) BY <1>3, <1>6, <1>7 DEF Listed
<1>9. MembersRight(env, f, v, c) BY <1>3, <1>4, <1>6, <1>7 DEF MembersRight
<1>10. ModesRight(env, f, v, c) BY <1>3, <1>6, <1>7 DEF ModesRight
<1>11. Carries(env, e, v, m, v, f, c)
  <2>1. ~Wants(f, v, c) BY <1>3 DEF Wants
  <2> QED BY <1>5, <1>6, <1>7, <2>1 DEF Carries
<1>12. Becomes(env, e, v, m, w, f, c) BY <1>3, <1>8, <1>9, <1>10, <1>11 DEF Becomes, RightEntry
<1>13. \A d \in Channels \ {c} : w.room[d] = v.room[d] /\ w.due[d] = v.due[d] BY <1>3
<1> HIDE DEF m
<1> QED BY <1>1, <1>3, <1>12, <1>13, OneChannel DEF m, c, e, env

-----------------------------------------------------------------------------
(* What is still to come, when something is read or sent.                   *)

\* A queue with one more element
LEMMA HasAppend ==
    ASSUME NEW S, NEW s \in Seq(S), NEW y \in S, NEW x
    PROVE  Has(Append(s, y), x) <=> Has(s, x) \/ x = y
<1>1. /\ Len(s) \in Nat /\ Len(Append(s, y)) = Len(s) + 1 /\ Append(s, y)[Len(s) + 1] = y
      /\ \A i \in 1 .. Len(s) : Append(s, y)[i] = s[i]
  BY AppendProperties
<1> DEFINE t == Append(s, y)
<1> HIDE DEF t
<1>2. /\ Len(s) \in Nat /\ Len(t) = Len(s) + 1 /\ t[Len(s) + 1] = y
      /\ \A i \in 1 .. Len(s) : t[i] = s[i]
  BY <1>1 DEF t
<1>3. Has(t, x) => Has(s, x) \/ x = y
  <2> SUFFICES ASSUME NEW i \in 1 .. Len(t), t[i] = x PROVE Has(s, x) \/ x = y BY DEF Has
  <2>1. CASE i \in 1 .. Len(s) BY <1>2, <2>1 DEF Has
  <2>2. CASE i = Len(s) + 1 BY <1>2, <2>2
  <2> QED BY <1>2, <2>1, <2>2
<1>4. Has(s, x) => Has(t, x)
  <2> SUFFICES ASSUME NEW i \in 1 .. Len(s), s[i] = x PROVE Has(t, x) BY DEF Has
  <2>1. i \in 1 .. Len(t) /\ t[i] = x BY <1>2
  <2> QED BY <2>1 DEF Has
<1>5. x = y => Has(t, x)
  <2>1. Len(s) + 1 \in 1 .. Len(t) BY <1>2
  <2> QED BY <1>2, <2>1 DEF Has
<1> QED BY <1>3, <1>4, <1>5 DEF t

\* A queue without its first element
LEMMA HasTail ==
    ASSUME NEW S, NEW s \in Seq(S), s # <<>>, NEW x
    PROVE  Has(s, x) <=> Head(s) = x \/ Has(Tail(s), x)
<1> DEFINE t == Tail(s)
<1>1. /\ t \in Seq(S) /\ Len(t) = Len(s) - 1 /\ Head(s) = s[1] /\ 1 \in 1 .. Len(s)
      /\ \A i \in 1 .. Len(s) - 1 : t[i] = s[i + 1]
  BY TailIs
<1>2. Len(s) \in Nat OBVIOUS
<1> HIDE DEF t
<1>3. Has(s, x) => Head(s) = x \/ Has(t, x)
  <2> SUFFICES ASSUME NEW i \in 1 .. Len(s), s[i] = x PROVE Head(s) = x \/ Has(t, x) BY DEF Has
  <2>1. CASE i = 1 BY <1>1, <2>1
  <2>2. CASE i # 1
    <3>1. i - 1 \in 1 .. Len(s) - 1 /\ i - 1 + 1 = i BY <1>2, <2>2
    <3>2. i - 1 \in 1 .. Len(t) /\ t[i - 1] = x BY <1>1, <3>1
    <3> QED BY <3>2 DEF Has
  <2> QED BY <2>1, <2>2
<1>4. Head(s) = x => Has(s, x) BY <1>1 DEF Has
<1>5. Has(t, x) => Has(s, x)
  <2> SUFFICES ASSUME NEW i \in 1 .. Len(t), t[i] = x PROVE Has(s, x) BY DEF Has
  <2>1. i \in 1 .. Len(s) - 1 /\ i + 1 \in 1 .. Len(s) BY <1>1, <1>2
  <2>2. s[i + 1] = x BY <1>1, <2>1
  <2> QED BY <2>1, <2>2 DEF Has
<1> QED BY <1>3, <1>4, <1>5 DEF t

\* The replies to MODE among the lines
LEMMA ModesToldAppend ==
    ASSUME NEW S, NEW s \in Seq(S), NEW y \in S, NEW c
    PROVE  ModesTold(Append(s, y), c) <=> ModesTold(s, c) \/ (y.cmd = "324" /\ y.chan = c)
<1> DEFINE t == Append(s, y)
<1>2. /\ Len(s) \in Nat /\ Len(t) = Len(s) + 1 /\ t[Len(s) + 1] = y
      /\ \A i \in 1 .. Len(s) : t[i] = s[i]
  BY AppendProperties
<1> HIDE DEF t
<1>3. ModesTold(t, c) => ModesTold(s, c) \/ (y.cmd = "324" /\ y.chan = c)
  <2> SUFFICES ASSUME NEW i \in 1 .. Len(t), t[i].cmd = "324", t[i].chan = c
               PROVE  ModesTold(s, c) \/ (y.cmd = "324" /\ y.chan = c)
    BY DEF ModesTold
  <2>1. CASE i \in 1 .. Len(s) BY <1>2, <2>1 DEF ModesTold
  <2>2. CASE i = Len(s) + 1 BY <1>2, <2>2
  <2> QED BY <1>2, <2>1, <2>2
<1>4. ModesTold(s, c) => ModesTold(t, c)
  <2> SUFFICES ASSUME NEW i \in 1 .. Len(s), s[i].cmd = "324", s[i].chan = c PROVE ModesTold(t, c)
    BY DEF ModesTold
  <2>1. i \in 1 .. Len(t) /\ t[i] = s[i] BY <1>2
  <2> QED BY <2>1 DEF ModesTold
<1>5. y.cmd = "324" /\ y.chan = c => ModesTold(t, c)
  <2>1. Len(s) + 1 \in 1 .. Len(t) BY <1>2
  <2> QED BY <1>2, <2>1 DEF ModesTold
<1> QED BY <1>3, <1>4, <1>5 DEF t

LEMMA ModesToldTail ==
    ASSUME NEW S, NEW s \in Seq(S), s # <<>>, NEW c
    PROVE  ModesTold(s, c) <=> (Head(s).cmd = "324" /\ Head(s).chan = c) \/ ModesTold(Tail(s), c)
<1> DEFINE t == Tail(s)
<1>1. /\ t \in Seq(S) /\ Len(t) = Len(s) - 1 /\ Head(s) = s[1] /\ 1 \in 1 .. Len(s)
      /\ \A i \in 1 .. Len(s) - 1 : t[i] = s[i + 1]
  BY TailIs
<1>2. Len(s) \in Nat OBVIOUS
<1> HIDE DEF t
<1>3. ModesTold(s, c) => (Head(s).cmd = "324" /\ Head(s).chan = c) \/ ModesTold(t, c)
  <2> SUFFICES ASSUME NEW i \in 1 .. Len(s), s[i].cmd = "324", s[i].chan = c
               PROVE  (Head(s).cmd = "324" /\ Head(s).chan = c) \/ ModesTold(t, c)
    BY DEF ModesTold
  <2>1. CASE i = 1 BY <1>1, <2>1
  <2>2. CASE i # 1
    <3>1. i - 1 \in 1 .. Len(s) - 1 /\ i - 1 + 1 = i BY <1>2, <2>2
    <3>2. i - 1 \in 1 .. Len(t) /\ t[i - 1] = s[i] BY <1>1, <3>1
    <3> QED BY <3>2 DEF ModesTold
  <2> QED BY <2>1, <2>2
<1>4. Head(s).cmd = "324" /\ Head(s).chan = c => ModesTold(s, c) BY <1>1 DEF ModesTold
<1>5. ModesTold(t, c) => ModesTold(s, c)
  <2> SUFFICES ASSUME NEW i \in 1 .. Len(t), t[i].cmd = "324", t[i].chan = c PROVE ModesTold(s, c)
    BY DEF ModesTold
  <2>1. i \in 1 .. Len(s) - 1 /\ i + 1 \in 1 .. Len(s) BY <1>1, <1>2
  <2>2. s[i + 1] = t[i] BY <1>1, <2>1
  <2> QED BY <2>1, <2>2 DEF ModesTold
<1> QED BY <1>3, <1>4, <1>5 DEF t

\* A JOIN of ours that is on its way is read or still is.
LEMMA JoinToldTail ==
    ASSUME NEW S, NEW env, NEW h, NEW lines \in Seq(S), lines # <<>>, Chain(env, h, lines), NEW c
    PROVE  JoinTold(lines, h, c) =>
               OwnJoin(Head(lines), h[1], c) \/ JoinTold(Tail(lines), Tail(h), c)
<1> SUFFICES ASSUME NEW i \in 1 .. Len(lines), OwnJoin(lines[i], h[i], c), ~OwnJoin(Head(lines), h[1], c)
             PROVE  JoinTold(Tail(lines), Tail(h), c)
  BY DEF JoinTold
<1>1. h \in Seq(View) /\ Len(h) = Len(lines) + 1 BY DEF Chain
<1>2. /\ Len(Tail(lines)) = Len(lines) - 1 /\ Head(lines) = lines[1]
      /\ \A j \in 1 .. Len(lines) - 1 : Tail(lines)[j] = lines[j + 1]
  BY TailIs
<1>3. Len(lines) \in Nat OBVIOUS
<1>4. h # <<>> BY <1>1, <1>3
<1>5. \A j \in 1 .. Len(h) - 1 : Tail(h)[j] = h[j + 1] BY <1>1, <1>4, TailIs
<1>6. i # 1 BY <1>2
<1>7. i - 1 \in 1 .. Len(lines) - 1 /\ i - 1 + 1 = i /\ i - 1 \in 1 .. Len(h) - 1 BY <1>1, <1>3, <1>6
<1>8. Tail(lines)[i - 1] = lines[i] /\ Tail(h)[i - 1] = h[i] BY <1>2, <1>5, <1>7
<1>9. i - 1 \in 1 .. Len(Tail(lines)) BY <1>2, <1>7
<1> QED BY <1>8, <1>9 DEF JoinTold

\* Or it is still on its way when a line is sent.
LEMMA JoinToldAppend ==
    ASSUME NEW S, NEW env, NEW h, NEW lines \in Seq(S), Chain(env, h, lines), NEW m \in S, NEW w \in View, NEW c
    PROVE  JoinTold(lines, h, c) => JoinTold(Append(lines, m), Append(h, w), c)
<1> SUFFICES ASSUME NEW i \in 1 .. Len(lines), OwnJoin(lines[i], h[i], c)
             PROVE  JoinTold(Append(lines, m), Append(h, w), c)
  BY DEF JoinTold
<1>1. h \in Seq(View) /\ Len(h) = Len(lines) + 1 BY DEF Chain
<1>2. /\ Len(Append(lines, m)) = Len(lines) + 1
      /\ \A j \in 1 .. Len(lines) : Append(lines, m)[j] = lines[j]
  BY AppendProperties
<1>3. \A j \in 1 .. Len(h) : Append(h, w)[j] = h[j] BY <1>1, AppendProperties
<1>4. Len(lines) \in Nat OBVIOUS
<1>5. i \in 1 .. Len(h) /\ i \in 1 .. Len(Append(lines, m)) BY <1>1, <1>2, <1>4
<1>6. Append(lines, m)[i] = lines[i] /\ Append(h, w)[i] = h[i] BY <1>2, <1>3, <1>5
<1> QED BY <1>5, <1>6 DEF JoinTold

\* What is asked of one channel is still asked after a line has been read.
LEMMA AskedAfter ==
    ASSUME NEW env, NEW h, NEW tc \in Seq(ToClient), tc # <<>>, Chain(env, h, tc),
           NEW ts \in Seq(Command), NEW ts2, NEW c \in Channels, NEW e, NEW e2,
           JoinAsked(e, ts, tc, h, c), ModesAsked(env, e, ts, tc, h, c),
           Becomes(env, e, h[1], Head(tc), h[2], e2, c), env.leaves \in BOOLEAN,
           OwnJoin(Head(tc), h[1], c) => e2.connected = "joined",
           ts2 = ts \/ \E x \in Command :
               /\ ts2 = Append(ts, x) /\ x.cmd \in {"MODE", "MODE_set"}
               /\ x.cmd = "MODE" /\ x.chan = c => OwnJoin(Head(tc), h[1], c),
           OwnJoin(Head(tc), h[1], c) => Has(ts2, [cmd |-> "MODE", chan |-> c])
    PROVE  JoinAsked(e2, ts2, Tail(tc), Tail(h), c) /\ ModesAsked(env, e2, ts2, Tail(tc), Tail(h), c)
<1> DEFINE m == Head(tc)
           v == h[1]
           w == h[2]
           TheJoin == [cmd |-> "JOIN", chan |-> c]
           PartIt == [cmd |-> "PART", chan |-> c]
           Mode == [cmd |-> "MODE", chan |-> c]
           rest == Tail(tc)
           g == Tail(h)
<1>1. g[1] = w BY ChainTail
<1>2. Carries(env, e, v, m, w, e2, c) BY DEF Becomes
<1>3. \A x : Has(ts, x) => Has(ts2, x)
  <2> SUFFICES ASSUME NEW y \in Command, ts2 = Append(ts, y), NEW x, Has(ts, x) PROVE Has(ts2, x)
    OBVIOUS
  <2> QED BY HasAppend
<1>4. Has(ts2, PartIt) => Has(ts, PartIt)
  <2> SUFFICES ASSUME NEW x \in Command, ts2 = Append(ts, x), x.cmd \in {"MODE", "MODE_set"}, Has(ts2, PartIt)
               PROVE  Has(ts, PartIt)
    OBVIOUS
  <2>1. PartIt.cmd = "PART" OBVIOUS
  <2>2. x # PartIt BY <2>1
  <2> QED BY <2>2, HasAppend
<1>5. Has(ts2, Mode) => Has(ts, Mode) \/ OwnJoin(m, v, c)
  <2> SUFFICES ASSUME NEW x \in Command, ts2 = Append(ts, x), Has(ts2, Mode),
                      x.cmd = "MODE" /\ x.chan = c => OwnJoin(m, v, c)
               PROVE  Has(ts, Mode) \/ OwnJoin(m, v, c)
    OBVIOUS
  <2>1. Mode.cmd = "MODE" /\ Mode.chan = c OBVIOUS
  <2>2. x = Mode => OwnJoin(m, v, c) BY <2>1
  <2> QED BY <2>2, HasAppend
<1>6. Has(tc, Refusal(c)) => m = Refusal(c) \/ Has(rest, Refusal(c)) BY HasTail
<1>7. ModesTold(tc, c) <=> (m.cmd = "324" /\ m.chan = c) \/ ModesTold(rest, c) BY ModesToldTail
<1>8. JoinTold(tc, h, c) => OwnJoin(m, v, c) \/ JoinTold(rest, g, c) BY JoinToldTail
<1>9. OwnJoin(m, v, c) => Has(ts2, Mode) OBVIOUS
<1> HIDE DEF m, v, w, TheJoin, PartIt, Mode, rest, g
<1>10. JoinAsked(e2, ts2, rest, g, c)
  <2> SUFFICES ASSUME e2.connected = "joining"
               PROVE  Has(ts2, TheJoin) \/ Has(rest, Refusal(c)) \/ JoinTold(rest, g, c)
    BY DEF JoinAsked, TheJoin
  <2>1. e.connected = "joining" /\ m # Refusal(c) /\ ~OwnJoin(m, v, c) BY <1>2 DEF Carries
  <2>2. Has(ts, TheJoin) \/ Has(tc, Refusal(c)) \/ JoinTold(tc, h, c) BY <2>1 DEF JoinAsked, TheJoin
  <2> QED BY <1>3, <1>6, <1>8, <2>1, <2>2
<1>11. ModesAsked(env, e2, ts2, rest, g, c)
  <2> SUFFICES ASSUME ~env.leaves
               PROVE  /\ ~Has(ts2, PartIt)
                      /\ ModesComing(ts2, rest, c) => e2.connected = "joined"
                      /\ Wants(e2, w, c) => ~e2.mode /\ ModesComing(ts2, rest, c)
    BY <1>1 DEF ModesAsked, PartIt
  <2>1. /\ ~Has(ts, PartIt)
        /\ ModesComing(ts, tc, c) => e.connected = "joined"
        /\ Wants(e, v, c) => ~e.mode /\ ModesComing(ts, tc, c)
    BY DEF ModesAsked, PartIt, v
  <2>2. ModesComing(ts2, rest, c) => e2.connected = "joined"
    <3>1. ModesComing(ts2, rest, c) => ModesComing(ts, tc, c) \/ OwnJoin(m, v, c)
      BY <1>5, <1>7 DEF ModesComing, Mode
    <3>2. OwnJoin(m, v, c) => e2.connected = "joined" BY DEF m, v
    <3> QED BY <1>2, <2>1, <3>1, <3>2 DEF Carries
  <2>3. Wants(e2, w, c) => ~e2.mode /\ ModesComing(ts2, rest, c)
    <3> SUFFICES ASSUME Wants(e2, w, c) PROVE ~e2.mode /\ ModesComing(ts2, rest, c) OBVIOUS
    <3>1. ~e2.mode /\ ((Wants(e, v, c) /\ ~(m.cmd = "324" /\ m.chan = c)) \/ OwnJoin(m, v, c))
      BY <1>2 DEF Carries
    <3>2. CASE OwnJoin(m, v, c) BY <1>9, <3>1, <3>2 DEF ModesComing, Mode
    <3>3. CASE Wants(e, v, c) /\ ~(m.cmd = "324" /\ m.chan = c)
      <4>1. ModesComing(ts, tc, c) BY <2>1, <3>3
      <4>2. ModesComing(ts2, rest, c) BY <1>3, <1>7, <3>3, <4>1 DEF ModesComing, Mode
      <4> QED BY <3>1, <4>2
    <3> QED BY <3>1, <3>2, <3>3
  <2> QED BY <1>4, <2>1, <2>2, <2>3
<1> QED BY <1>10, <1>11 DEF rest, g

\* What a handler sends: MODE after a JOIN of ours, and the modes that an operator restores.
LEMMA ClientSends ==
    ASSUME NEW v, NEW w, Reading(v, w), Client
    PROVE  /\ toClient' = Tail(toClient) /\ UNCHANGED <<connected, room, me, channelsEnv>>
           /\ toServer' = toServer \/ \E x \in Command :
                 /\ toServer' = Append(toServer, x) /\ x.cmd \in {"MODE", "MODE_set"}
                 /\ x.cmd = "MODE" => OwnJoin(Head(toClient), v, x.chan)
           /\ \A c \in Channels : OwnJoin(Head(toClient), v, c) => Has(toServer', [cmd |-> "MODE", chan |-> c])
<1> DEFINE m == Head(toClient)
<1>1. PICK cmd \in {"JOIN", "PART", "KICK", "QUIT", "NICK", "MODE_o", "MODE_m", "353", "324", "471"} :
          Reads(cmd)
    BY DEF Client, PChannel, PPart, PKick, PQuit, PNick, PModeOper, PModeModerated,
           FunnyNamreply, FunnyMode, CannotJoinChannel
<1>2. toClient' = Tail(toClient) /\ UNCHANGED <<connected, room, me, channelsEnv>> BY <1>1 DEF Reads
<1>3. nickname = v.me BY DEF Reading, Right
<1>4. Explains(channelsEnv, v, m, w) BY DEF Reading
<1>5. \A c \in Channels, k \in {"MODE", "MODE_set"} : [cmd |-> k, chan |-> c] \in Command BY DEF Command
<1>6. toServer \in Seq(Command) BY DEF Reading, Inv
<1> HIDE DEF m
<1>7. CASE PChannel
  <2>1. m.cmd = "JOIN" BY <1>7 DEF PChannel, Reads, m
  <2>2. m.chan \in Channels BY <1>4, <2>1, ExplainedAs DEF SaysOwnJoin, SaysJoin
  <2>3. CASE m.nick = nickname
    <3>1. toServer' = Append(toServer, [cmd |-> "MODE", chan |-> m.chan])
      BY <1>7, <2>3 DEF PChannel, AskedModes, m
    <3>2. Has(toServer', [cmd |-> "MODE", chan |-> m.chan])
      <4> DEFINE x == [cmd |-> "MODE", chan |-> m.chan]
      <4>1. x \in Command BY <1>5, <2>2
      <4>2. toServer' = Append(toServer, x) BY <3>1
      <4> HIDE DEF x
      <4>3. Has(Append(toServer, x), x) BY <1>6, <4>1, HasAppend
      <4> QED BY <4>2, <4>3 DEF x
    <3>3. OwnJoin(m, v, m.chan) BY <1>3, <2>1, <2>3 DEF OwnJoin
    <3>4. \A c \in Channels : OwnJoin(m, v, c) => c = m.chan BY DEF OwnJoin
    <3>5. \E x \in Command : /\ toServer' = Append(toServer, x) /\ x.cmd \in {"MODE", "MODE_set"}
                             /\ x.cmd = "MODE" => OwnJoin(m, v, x.chan)
      <4>1. [cmd |-> "MODE", chan |-> m.chan] \in Command BY <1>5, <2>2
      <4> QED BY <3>1, <3>3, <4>1
    <3> QED BY <1>2, <3>2, <3>4, <3>5 DEF m
  <2>4. CASE m.nick # nickname
    <3>1. toServer' = toServer BY <1>7, <2>4 DEF PChannel, m
    <3>2. \A c \in Channels : ~OwnJoin(m, v, c) BY <1>3, <2>4 DEF OwnJoin
    <3> QED BY <1>2, <3>1, <3>2 DEF m
  <2> QED BY <2>3, <2>4
<1>8. CASE ~PChannel
  <2>1. m.cmd # "JOIN"
    BY <1>8 DEF Client, PChannel, PPart, PKick, PQuit, PNick, PModeOper, PModeModerated,
           FunnyNamreply, FunnyMode, CannotJoinChannel, Reads, m
  <2>2. \A c \in Channels : ~OwnJoin(m, v, c) BY <2>1 DEF OwnJoin
  <2>3. CASE FunnyNamreply
    <3>1. m.cmd = "353" BY <2>3 DEF FunnyNamreply, Reads, m
    <3>2. m.chan \in Channels BY <1>4, <3>1, ExplainedAs DEF SaysNames
    <3>3. toServer' = toServer \/ toServer' = Append(toServer, [cmd |-> "MODE_set", chan |-> m.chan])
      BY <2>3 DEF FunnyNamreply, ModesRestored, m
    <3>4. [cmd |-> "MODE_set", chan |-> m.chan] \in Command BY <1>5, <3>2
    <3> QED BY <1>2, <2>2, <3>3, <3>4 DEF m
  <2>4. CASE ~FunnyNamreply
    <3>1. toServer' = toServer
      BY <1>8, <2>4 DEF Client, PPart, PKick, PQuit, PNick, PModeOper, PModeModerated,
           FunnyMode, CannotJoinChannel
    <3> QED BY <1>2, <2>2, <3>1 DEF m
  <2> QED BY <2>3, <2>4
<1> QED BY <1>7, <1>8

\* A handler leaves the list in touch with the server.
LEMMA ClientInTouch == ASSUME Inv, InTouch, Client PROVE InTouch'
<1>1. PICK h : /\ Chain(channelsEnv, h, toClient)
               /\ h[Len(h)] = ViewOf(room, me)
               /\ Right(channelsEnv, list, nickname, h[1])
               /\ Asked(channelsEnv, list, toServer, toClient, h)
  BY DEF InTouch
<1>2. toClient \in Seq(ToClient) /\ toServer \in Seq(Command) /\ channelsEnv.leaves \in BOOLEAN
  BY DEF Inv, ChannelSetting
<1>3. toClient # <<>>
  BY DEF Client, PChannel, PPart, PKick, PQuit, PNick, PModeOper, PModeModerated,
         FunnyNamreply, FunnyMode, CannotJoinChannel, Reads
<1> DEFINE v == h[1]
           w == h[2]
           m == Head(toClient)
<1>4. /\ Chain(channelsEnv, Tail(h), Tail(toClient))
      /\ Tail(h)[1] = w /\ Tail(h)[Len(Tail(h))] = h[Len(h)]
      /\ IsView(v) /\ IsView(w) /\ Explains(channelsEnv, v, m, w)
  BY <1>1, <1>2, <1>3, ChainTail
<1>5. \A c \in Channels : /\ JoinAsked(list[c], toServer, toClient, h, c)
                          /\ ModesAsked(channelsEnv, list[c], toServer, toClient, h, c)
  BY <1>1 DEF Asked
<1>6. Reading(v, w)
  <2>1. \A c \in Channels : Wants(list[c], v, c) /\ ~channelsEnv.leaves => ~list[c].mode
    BY <1>5 DEF ModesAsked
  <2> QED BY <1>1, <1>3, <1>4, <2>1 DEF Reading
<1>7. FunnyMode /\ ~channelsEnv.leaves => list[m.chan].connected = "joined"
  <2> SUFFICES ASSUME FunnyMode, ~channelsEnv.leaves PROVE list[m.chan].connected = "joined" OBVIOUS
  <2>1. m.cmd = "324" BY DEF FunnyMode, Reads
  <2>2. m.chan \in Channels BY <1>4, <2>1, ExplainedAs DEF SaysModes
  <2>3. ModesTold(toClient, m.chan) BY <1>2, <1>3, <2>1, ModesToldTail
  <2> QED BY <1>5, <2>2, <2>3 DEF ModesAsked, ModesComing
<1> HIDE DEF v, w, m
<1>8. HasRead(v, w)
  <2>1. FunnyMode => HasRead(v, w) BY <1>6, <1>7, FunnyModeReads DEF m
  <2> QED BY <1>6, <2>1, PChannelReads, PPartReads, PQuitReads, PNickReads, PModeOperReads, PModeModeratedReads,
             FunnyNamreplyReads, CannotJoinReads DEF Client
<1>9. /\ toClient' = Tail(toClient) /\ UNCHANGED <<connected, room, me, channelsEnv>>
      /\ toServer' = toServer \/ \E x \in Command :
            /\ toServer' = Append(toServer, x) /\ x.cmd \in {"MODE", "MODE_set"}
            /\ x.cmd = "MODE" => OwnJoin(m, v, x.chan)
      /\ \A c \in Channels : OwnJoin(m, v, c) => Has(toServer', [cmd |-> "MODE", chan |-> c])
  BY <1>6, ClientSends DEF m
<1>10. nickname' = w.me /\ \A c \in Channels : Becomes(channelsEnv, list[c], v, m, w, list'[c], c)
  BY <1>8 DEF HasRead, m
<1>11. Right(channelsEnv', list', nickname', Tail(h)[1])
  BY <1>4, <1>9, <1>10 DEF Right, Becomes
<1>12. Asked(channelsEnv', list', toServer', toClient', Tail(h))
  <2> SUFFICES ASSUME NEW c \in Channels
               PROVE  /\ JoinAsked(list'[c], toServer', Tail(toClient), Tail(h), c)
                      /\ ModesAsked(channelsEnv, list'[c], toServer', Tail(toClient), Tail(h), c)
    BY <1>9 DEF Asked
  <2>1. OwnJoin(m, v, c) => list'[c].connected = "joined"
    <3> SUFFICES ASSUME OwnJoin(m, v, c) PROVE list'[c].connected = "joined" OBVIOUS
    <3>1. m.cmd = "JOIN" /\ m.chan = c /\ m.nick = v.me BY DEF OwnJoin
    <3>2. SaysOwnJoin(v, m, w) \/ SaysJoin(v, m, w) BY <1>4, <3>1, ExplainedAs
    <3>3. ~SaysJoin(v, m, w) BY <3>1 DEF SaysJoin, On
    <3>4. On(w, c) BY <3>1, <3>2, <3>3 DEF SaysOwnJoin
    <3> QED BY <1>10, <3>4 DEF Becomes, RightEntry, Listed
  <2>2. toServer' = toServer \/ \E x \in Command :
            /\ toServer' = Append(toServer, x) /\ x.cmd \in {"MODE", "MODE_set"}
            /\ x.cmd = "MODE" /\ x.chan = c => OwnJoin(m, v, c)
    BY <1>9
  <2> QED BY <1>1, <1>2, <1>3, <1>5, <1>9, <1>10, <2>1, <2>2, AskedAfter DEF m, v, w
<1>13. Tail(h)[Len(Tail(h))] = ViewOf(room', me') BY <1>1, <1>4, <1>9
<1> QED BY <1>4, <1>9, <1>11, <1>12, <1>13 DEF InTouch

\* What the user types leaves the list in touch with the server.
LEMMA UserInTouch == ASSUME Inv, InTouch, ~channelsEnv.impatient, User PROVE InTouch'
<1> DEFINE env == channelsEnv
<1>1. PICK h : /\ Chain(channelsEnv, h, toClient)
               /\ h[Len(h)] = ViewOf(room, me)
               /\ Right(channelsEnv, list, nickname, h[1])
               /\ Asked(channelsEnv, list, toServer, toClient, h)
  BY DEF InTouch
<1>2. PICK c \in Channels : Join(c) \/ Part(c) \/ AskMode(c) BY DEF User
<1>3. PICK k \in {"JOIN", "PART", "MODE"} :
         /\ TypeIn([cmd |-> k, chan |-> c])
         /\ (k = "JOIN" /\ Join(c)) \/ (env.leaves /\ UNCHANGED list)
  BY <1>2 DEF Join, Part, AskMode
<1> DEFINE x == [cmd |-> k, chan |-> c]
           v == h[1]
<1>4. x \in Command /\ x.cmd = k /\ x.chan = c BY DEF Command
<1>5. toServer' = Append(toServer, x) /\ UNCHANGED <<toClient, room, me, channelsEnv, nickname, connected>>
  BY <1>3 DEF TypeIn
<1>6. toServer \in Seq(Command) /\ list \in [Channels -> Good] BY DEF Inv
<1>7. IsView(v)
  <2>1. Len(h) = Len(toClient) + 1 /\ \A i \in 1 .. Len(h) : IsView(h[i]) BY <1>1 DEF Chain
  <2>2. Len(toClient) \in Nat BY DEF Inv
  <2> QED BY <2>1, <2>2
<1> HIDE DEF x, v
<1>8. \A y : Has(toServer', y) <=> Has(toServer, y) \/ y = x BY <1>4, <1>5, <1>6, HasAppend
<1>9. CASE env.leaves /\ UNCHANGED list
  <2>1. Right(channelsEnv', list', nickname', v) BY <1>1, <1>5, <1>9 DEF v
  <2>2. Asked(channelsEnv', list', toServer', toClient', h)
    BY <1>1, <1>5, <1>8, <1>9 DEF Asked, JoinAsked, ModesAsked
  <2> QED BY <1>1, <1>5, <2>1, <2>2 DEF InTouch, v
<1>10. CASE k = "JOIN" /\ Join(c)
  <2> DEFINE e == list[c]
             f == AddChannel(e, "joining")
  <2>1. list' = [list EXCEPT ![c] = f] /\ e.connected # "joined" BY <1>10 DEF Join
  <2>2. /\ f.connected = "joining" /\ f.nicks = e.nicks /\ f.ops = e.ops /\ f.names = e.names
        /\ f.mode = e.mode /\ f.chop = e.chop /\ f.moderated = e.moderated
    BY <1>6 DEF AddChannel, Good, Chan
  <2>3. list'[c] = f /\ \A d \in Channels \ {c} : list'[d] = list[d] BY <1>6, <2>1
  <2>4. nickname = v.me /\ \A d \in Channels : RightEntry(env, list[d], v, d) BY <1>1 DEF Right, v
  <2>5. ~On(v, c) BY <2>1, <2>4 DEF RightEntry, Listed
  <2>6. v.due[c] = {} BY <1>7, <2>5, ViewParts
  <2>7. RightEntry(env, e, v, c) BY <2>4
  <2> HIDE DEF e, f
  <2>8. RightEntry(env, f, v, c)
    <3>1. Listed(f, v, c) BY <2>2, <2>5 DEF Listed
    <3>2. MembersRight(env, f, v, c) BY <2>2, <2>5, <2>6 DEF MembersRight
    <3>3. ModesRight(env, f, v, c) BY <2>2, <2>5, <2>7 DEF ModesRight, RightEntry
    <3> QED BY <3>1, <3>2, <3>3 DEF RightEntry
  <2>9. Right(channelsEnv', list', nickname', v)
    <3>1. \A d \in Channels : RightEntry(env, list'[d], v, d) BY <2>3, <2>4, <2>8
    <3> QED BY <1>5, <2>4, <3>1 DEF Right
  <2>10. \A d \in Channels : /\ JoinAsked(list[d], toServer, toClient, h, d)
                             /\ ModesAsked(env, list[d], toServer, toClient, h, d)
    BY <1>1 DEF Asked
  <2>11. x = [cmd |-> "JOIN", chan |-> c] BY <1>10 DEF x
  <2>12. \A d \in Channels : JoinAsked(list'[d], toServer', toClient, h, d)
    <3> SUFFICES ASSUME NEW d \in Channels PROVE JoinAsked(list'[d], toServer', toClient, h, d) OBVIOUS
    <3>1. CASE d = c
      <4>1. Has(toServer', [cmd |-> "JOIN", chan |-> d]) BY <1>8, <2>11, <3>1
      <4> QED BY <4>1 DEF JoinAsked
    <3>2. CASE d # c
      <4>1. JoinAsked(list[d], toServer', toClient, h, d) BY <1>8, <2>10 DEF JoinAsked
      <4> QED BY <2>3, <3>2, <4>1
    <3> QED BY <3>1, <3>2
  <2>13. \A d \in Channels : ModesAsked(env, list'[d], toServer', toClient, h, d)
    <3> SUFFICES ASSUME NEW d \in Channels, ~env.leaves PROVE ModesAsked(env, list'[d], toServer', toClient, h, d)
      BY DEF ModesAsked
    <3>1. x # [cmd |-> "PART", chan |-> d] /\ x # [cmd |-> "MODE", chan |-> d]
      <4>1. [cmd |-> "PART", chan |-> d].cmd = "PART" /\ [cmd |-> "MODE", chan |-> d].cmd = "MODE" OBVIOUS
      <4> QED BY <1>4, <1>10, <4>1
    <3>2. ModesAsked(env, list[d], toServer', toClient, h, d)
      BY <1>8, <2>10, <3>1 DEF ModesAsked, ModesComing
    <3>3. CASE d # c BY <2>3, <3>2, <3>3
    <3>4. CASE d = c
      <4>1. ~ModesComing(toServer', toClient, c) /\ ~Has(toServer', [cmd |-> "PART", chan |-> c])
        BY <2>1, <3>2, <3>4 DEF ModesAsked, e
      <4>2. ~Wants(f, v, c) BY <2>5 DEF Wants
      <4> QED BY <2>3, <3>4, <4>1, <4>2 DEF ModesAsked, v
    <3> QED BY <3>3, <3>4
  <2>14. Asked(channelsEnv', list', toServer', toClient', h) BY <1>5, <2>12, <2>13 DEF Asked
  <2> QED BY <1>1, <1>5, <2>9, <2>14 DEF InTouch, v
<1> QED BY <1>3, <1>9, <1>10

\* A set of numbers has a least one: what stands for induction here.
LessPairs == {p \in Nat \X Nat : p[1] < p[2]}

LEMMA LessIsWellFounded == IsWellFoundedOn(LessPairs, Nat)
BY NatLessThanWellFounded DEF OpToRel, LessPairs

LEMMA LeastOf ==
    ASSUME NEW T \in SUBSET Nat, T # {}
    PROVE  \E x \in T : \A y \in T : x <= y
<1>1. PICK x \in T : \A y \in T : <<y, x>> \notin LessPairs
  BY LessIsWellFounded, WFMin
<1>2. \A y \in T : ~(y < x) BY <1>1 DEF LessPairs
<1> QED BY <1>2

\* Only a JOIN of ours puts us on a channel.
LEMMA OnByJoin ==
    ASSUME NEW env, NEW v, NEW m, NEW w, IsView(v), Explains(env, v, m, w), NEW c \in Channels,
           ~On(v, c), On(w, c)
    PROVE  OwnJoin(m, v, c)
<1>1. /\ v.room \in [Channels -> Room] /\ v.room[c].nicks = {} /\ v.me \in Names BY ViewParts
<1>2. v.room[c] \in Room BY <1>1
<1>3. CASE SaysOwnJoin(v, m, w)
  <2>1. w.room[c] = v.room[c] \/ m.chan = c BY <1>1, <1>3 DEF SaysOwnJoin
  <2> QED BY <1>3, <2>1 DEF SaysOwnJoin, OwnJoin, On
<1>4. CASE \/ SaysJoin(v, m, w) \/ SaysLeft(env, v, m, w) \/ SaysOper(v, m, w) \/ SaysModerated(v, m, w)
           \/ SaysNames(env, v, m, w) \/ SaysModes(v, m, w) \/ SaysRefused(v, m, w)
  <2>1. w.me = v.me
    BY <1>4 DEF SaysJoin, SaysLeft, SaysOper, SaysModerated, SaysNames, SaysModes, SaysRefused
  <2>2. w.room[c] = v.room[c]
    BY <1>1, <1>4 DEF SaysJoin, SaysLeft, SaysOper, SaysModerated, SaysNames, SaysModes, SaysRefused, On
  <2> QED BY <2>1, <2>2 DEF On
<1>5. CASE SaysQuit(v, m, w)
  <2>1. w.room[c] = Less(v.room[c], m.nick) /\ w.me = v.me BY <1>5 DEF SaysQuit
  <2>2. w.room[c].nicks = {} BY <1>1, <1>2, <2>1 DEF Less, Room
  <2> QED BY <2>2 DEF On
<1>6. CASE SaysNick(v, m, w)
  <2>1. w.room[c] = Moved(v.room[c], m.nick, m.new) BY <1>6 DEF SaysNick
  <2>2. w.room[c].nicks = {} BY <1>1, <1>2, <2>1 DEF Moved, Room
  <2> QED BY <2>2 DEF On
<1> QED BY <1>3, <1>4, <1>5, <1>6 DEF Explains

LEMMA JoinOnTheWay ==
    ASSUME NEW env, NEW h, NEW tc \in Seq(ToClient), Chain(env, h, tc), NEW c \in Channels,
           ~On(h[1], c), On(h[Len(h)], c)
    PROVE  JoinTold(tc, h, c)
<1> DEFINE T == {i \in 1 .. Len(h) : On(h[i], c)}
<1>1. /\ Len(h) = Len(tc) + 1
      /\ \A i \in 1 .. Len(h) : IsView(h[i])
      /\ \A i \in 1 .. Len(tc) : Explains(env, h[i], tc[i], h[i + 1])
  BY DEF Chain
<1>2. Len(tc) \in Nat OBVIOUS
<1>3. T \in SUBSET Nat /\ T # {}
  <2>1. Len(h) \in 1 .. Len(h) BY <1>1, <1>2
  <2>2. Len(h) \in T BY <2>1
  <2> QED BY <1>1, <1>2, <2>2
<1>4. PICK k \in T : \A j \in T : k <= j
  <2> HIDE DEF T
  <2> QED BY <1>3, LeastOf
<1>5. k \in 1 .. Len(h) /\ On(h[k], c) /\ k # 1 BY <1>4
<1>6. k - 1 \in 1 .. Len(tc) /\ k - 1 \in 1 .. Len(h) /\ k - 1 + 1 = k BY <1>1, <1>2, <1>5
<1>7. ~On(h[k - 1], c)
  <2> SUFFICES ASSUME On(h[k - 1], c) PROVE FALSE OBVIOUS
  <2>1. k - 1 \in T BY <1>6
  <2>2. k <= k - 1 BY <1>4, <2>1
  <2> QED BY <1>1, <1>2, <1>5, <2>2
<1>8. Explains(env, h[k - 1], tc[k - 1], h[k]) BY <1>1, <1>6
<1>9. OwnJoin(tc[k - 1], h[k - 1], c) BY <1>1, <1>5, <1>6, <1>7, <1>8, OnByJoin
<1> QED BY <1>6, <1>9 DEF JoinTold

-----------------------------------------------------------------------------
(* The server: it adds a link at the end of the chain.                      *)

\* In touch, with the view at the end of the chain
Linked(env, l, n, ts, tc, v) ==
    \E h : Chain(env, h, tc) /\ h[Len(h)] = v /\ Right(env, l, n, h[1]) /\ Asked(env, l, ts, tc, h)

LEMMA InTouchIsLinked ==
    /\ InTouch <=> Linked(channelsEnv, list, nickname, toServer, toClient, ViewOf(room, me))
    /\ InTouch' <=> Linked(channelsEnv', list', nickname', toServer', toClient', ViewOf(room', me'))
BY DEF InTouch, Linked

\* What is asked for with ts is asked for with ts2, or answered by the line m.
Passes(ts, ts2, m, v) ==
    \A c \in Channels :
        /\ Has(ts, [cmd |-> "JOIN", chan |-> c]) =>
               Has(ts2, [cmd |-> "JOIN", chan |-> c]) \/ m = Refusal(c) \/ OwnJoin(m, v, c)
        /\ Has(ts2, [cmd |-> "PART", chan |-> c]) => Has(ts, [cmd |-> "PART", chan |-> c])
        /\ Has(ts2, [cmd |-> "MODE", chan |-> c]) => Has(ts, [cmd |-> "MODE", chan |-> c])
        /\ m.cmd = "324" /\ m.chan = c => Has(ts, [cmd |-> "MODE", chan |-> c])
        /\ Has(ts, [cmd |-> "MODE", chan |-> c]) =>
               Has(ts2, [cmd |-> "MODE", chan |-> c]) \/ (m.cmd = "324" /\ m.chan = c)

\* A line is sent.
LEMMA SentLinked ==
    ASSUME NEW env, NEW l, NEW n, NEW ts, NEW ts2, NEW tc \in Seq(ToClient), NEW v, NEW w, NEW m \in ToClient,
           Linked(env, l, n, ts, tc, v), IsView(w), Explains(env, v, m, w), Passes(ts, ts2, m, v)
    PROVE  Linked(env, l, n, ts2, Append(tc, m), w)
<1>1. PICK h : Chain(env, h, tc) /\ h[Len(h)] = v /\ Right(env, l, n, h[1]) /\ Asked(env, l, ts, tc, h)
  BY DEF Linked
<1> DEFINE g == Append(h, w)
           lines == Append(tc, m)
<1>2. /\ Chain(env, g, lines) /\ g[1] = h[1] /\ g[Len(g)] = w /\ g[Len(tc) + 1] = v
  <2>1. Explains(env, h[Len(h)], m, w) BY <1>1
  <2>2. Extended(env, h, tc, m, w) BY <1>1, <2>1, ChainAppend
  <2> QED BY <1>1, <2>2 DEF Extended
<1>3. lines[Len(tc) + 1] = m /\ Len(tc) + 1 \in 1 .. Len(lines)
  <2>1. Len(tc) \in Nat /\ Len(lines) = Len(tc) + 1 /\ lines[Len(tc) + 1] = m BY AppendProperties
  <2> HIDE DEF lines
  <2> QED BY <2>1
<1>4. \A x : Has(lines, x) <=> Has(tc, x) \/ x = m
  <2> SUFFICES ASSUME NEW x PROVE Has(lines, x) <=> Has(tc, x) \/ x = m OBVIOUS
  <2> QED BY HasAppend
<1>5. \A c : ModesTold(lines, c) <=> ModesTold(tc, c) \/ (m.cmd = "324" /\ m.chan = c)
  <2> SUFFICES ASSUME NEW c PROVE ModesTold(lines, c) <=> ModesTold(tc, c) \/ (m.cmd = "324" /\ m.chan = c)
    OBVIOUS
  <2> QED BY ModesToldAppend
<1>6. \A c : JoinTold(tc, h, c) => JoinTold(lines, g, c)
  <2> SUFFICES ASSUME NEW c PROVE JoinTold(tc, h, c) => JoinTold(lines, g, c) OBVIOUS
  <2>1. w \in View BY DEF IsView
  <2> QED BY <1>1, <2>1, JoinToldAppend
<1>7. \A c : OwnJoin(m, v, c) => JoinTold(lines, g, c) BY <1>2, <1>3 DEF JoinTold
<1> HIDE DEF g, lines
<1>8. Asked(env, l, ts2, lines, g)
  <2> SUFFICES ASSUME NEW c \in Channels
               PROVE  JoinAsked(l[c], ts2, lines, g, c) /\ ModesAsked(env, l[c], ts2, lines, g, c)
    BY DEF Asked
  <2>1. JoinAsked(l[c], ts, tc, h, c) /\ ModesAsked(env, l[c], ts, tc, h, c) BY <1>1 DEF Asked
  <2> DEFINE J == [cmd |-> "JOIN", chan |-> c]
             P == [cmd |-> "PART", chan |-> c]
             M == [cmd |-> "MODE", chan |-> c]
  <2>2. /\ Has(ts, J) => Has(ts2, J) \/ m = Refusal(c) \/ OwnJoin(m, v, c)
        /\ Has(ts2, P) => Has(ts, P)
        /\ Has(ts2, M) => Has(ts, M)
        /\ m.cmd = "324" /\ m.chan = c => Has(ts, M)
        /\ Has(ts, M) => Has(ts2, M) \/ (m.cmd = "324" /\ m.chan = c)
    BY DEF Passes
  <2>3. l[c].connected = "joining" => Has(ts, J) \/ Has(tc, Refusal(c)) \/ JoinTold(tc, h, c)
    BY <2>1 DEF JoinAsked
  <2>4. ~env.leaves => /\ ~Has(ts, P)
                       /\ ModesComing(ts, tc, c) => l[c].connected = "joined"
                       /\ Wants(l[c], h[1], c) => ~l[c].mode /\ ModesComing(ts, tc, c)
    BY <2>1 DEF ModesAsked
  <2>5. ModesComing(ts, tc, c) <=> Has(ts, M) \/ ModesTold(tc, c) BY DEF ModesComing
  <2>6. ModesComing(ts2, lines, c) <=> Has(ts2, M) \/ ModesTold(lines, c) BY DEF ModesComing
  <2>7. JoinAsked(l[c], ts2, lines, g, c) <=>
          (l[c].connected = "joining" => Has(ts2, J) \/ Has(lines, Refusal(c)) \/ JoinTold(lines, g, c))
    BY DEF JoinAsked
  <2>8. ModesAsked(env, l[c], ts2, lines, g, c) <=>
           (~env.leaves => /\ ~Has(ts2, P)
                           /\ ModesComing(ts2, lines, c) => l[c].connected = "joined"
                           /\ Wants(l[c], g[1], c) => ~l[c].mode /\ ModesComing(ts2, lines, c))
    BY DEF ModesAsked
  <2> HIDE DEF J, P, M
  <2>9. ModesComing(ts2, lines, c) <=> ModesComing(ts, tc, c) BY <1>5, <2>2, <2>5, <2>6
  <2>10. JoinAsked(l[c], ts2, lines, g, c) BY <1>4, <1>6, <1>7, <2>2, <2>3, <2>7
  <2>11. ModesAsked(env, l[c], ts2, lines, g, c) BY <1>2, <2>2, <2>4, <2>8, <2>9
  <2> QED BY <2>10, <2>11
<1> QED BY <1>1, <1>2, <1>8 DEF Linked, g, lines

\* A command is read that is not answered.
LEMMA NotAnswered ==
    ASSUME NEW env, NEW l, NEW n, NEW ts, NEW ts2, NEW tc \in Seq(ToClient), NEW v,
           Linked(env, l, n, ts, tc, v),
           \A c \in Channels :
               /\ Has(ts, [cmd |-> "JOIN", chan |-> c]) => Has(ts2, [cmd |-> "JOIN", chan |-> c]) \/ On(v, c)
               /\ Has(ts2, [cmd |-> "PART", chan |-> c]) => Has(ts, [cmd |-> "PART", chan |-> c])
               /\ Has(ts2, [cmd |-> "MODE", chan |-> c]) <=> Has(ts, [cmd |-> "MODE", chan |-> c])
    PROVE  Linked(env, l, n, ts2, tc, v)
<1>1. PICK h : Chain(env, h, tc) /\ h[Len(h)] = v /\ Right(env, l, n, h[1]) /\ Asked(env, l, ts, tc, h)
  BY DEF Linked
<1>2. Asked(env, l, ts2, tc, h)
  <2> SUFFICES ASSUME NEW c \in Channels
               PROVE  JoinAsked(l[c], ts2, tc, h, c) /\ ModesAsked(env, l[c], ts2, tc, h, c)
    BY DEF Asked
  <2>1. JoinAsked(l[c], ts, tc, h, c) /\ ModesAsked(env, l[c], ts, tc, h, c) BY <1>1 DEF Asked
  <2>2. ModesAsked(env, l[c], ts2, tc, h, c) BY <2>1 DEF ModesAsked, ModesComing
  <2>3. l[c].connected = "joining" /\ On(v, c) => JoinTold(tc, h, c)
    <3> SUFFICES ASSUME l[c].connected = "joining", On(v, c) PROVE JoinTold(tc, h, c) OBVIOUS
    <3>1. ~On(h[1], c) BY <1>1 DEF Right, RightEntry, Listed
    <3> QED BY <1>1, <3>1, JoinOnTheWay
  <2>4. JoinAsked(l[c], ts2, tc, h, c) BY <2>1, <2>3 DEF JoinAsked
  <2> QED BY <2>2, <2>4
<1> QED BY <1>1, <1>2 DEF Linked

\* Lines appended to what is on its way
LEMMA Lines ==
    ASSUME NEW s \in Seq(ToClient), NEW a \in ToClient, NEW b \in ToClient, NEW d \in ToClient
    PROVE  /\ s \o <<>> = s
           /\ s \o <<a>> = Append(s, a)
           /\ s \o (<<a>> \o <<b>>) = Append(Append(s, a), b)
           /\ s \o (<<a>> \o <<b, d>>) = Append(Append(Append(s, a), b), d)
<1>1. \A t \in Seq(ToClient), x \in ToClient : t \o <<x>> = Append(t, x) /\ Append(t, x) \in Seq(ToClient)
  BY AppendProperties
<1>2. <<a>> \in Seq(ToClient) /\ <<b>> \in Seq(ToClient) /\ <<d>> \in Seq(ToClient) BY OneMessage
<1>3. s \o (<<a>> \o <<b>>) = (s \o <<a>>) \o <<b>> BY <1>2, ConcatAssociative
<1>4. <<b, d>> = <<b>> \o <<d>>
  <2>1. /\ <<b>> \o <<d>> \in Seq(ToClient) /\ Len(<<b>> \o <<d>>) = 2
        /\ (<<b>> \o <<d>>)[1] = b /\ (<<b>> \o <<d>>)[2] = d
    BY <1>2, ConcatProperties
  <2>2. <<b, d>> \in Seq(ToClient) /\ Len(<<b, d>>) = 2 /\ <<b, d>>[1] = b /\ <<b, d>>[2] = d OBVIOUS
  <2> DEFINE p == <<b, d>>
             q == <<b>> \o <<d>>
  <2> HIDE DEF p, q
  <2>3. /\ p \in Seq(ToClient) /\ q \in Seq(ToClient) /\ Len(p) = 2 /\ Len(q) = 2
        /\ p[1] = q[1] /\ p[2] = q[2]
    BY <2>1, <2>2 DEF p, q
  <2>4. \A i \in 1 .. Len(p) : p[i] = q[i] BY <2>3
  <2>5. p = q BY <2>3, <2>4, SeqEqual
  <2> QED BY <2>5 DEF p, q
<1>5. <<a>> \o (<<b>> \o <<d>>) = (<<a>> \o <<b>>) \o <<d>> BY <1>2, ConcatAssociative
<1>6. <<a>> \o <<b>> \in Seq(ToClient) BY <1>2, ConcatProperties
<1>7. s \o ((<<a>> \o <<b>>) \o <<d>>) = (s \o (<<a>> \o <<b>>)) \o <<d>> BY <1>2, <1>6, ConcatAssociative
<1>8. s \o <<>> = s BY ConcatEmptySeq
<1>9. s \o <<a>> = Append(s, a) BY <1>1
<1>10. s \o (<<a>> \o <<b>>) = Append(Append(s, a), b) BY <1>1, <1>3, <1>9
<1>11. s \o (<<a>> \o <<b, d>>) = Append(Append(Append(s, a), b), d)
  <2>1. s \o (<<a>> \o <<b, d>>) = (s \o (<<a>> \o <<b>>)) \o <<d>> BY <1>4, <1>5, <1>7
  <2>2. Append(Append(s, a), b) \in Seq(ToClient) BY <1>1
  <2> QED BY <1>1, <1>10, <2>1, <2>2
<1> QED BY <1>8, <1>9, <1>10, <1>11

\* What is known of a server is a view.
LEMMA ViewOfParts ==
    ASSUME NEW r \in [Channels -> Room], NEW n \in Names, \A c \in Channels : r[c].ops \subseteq r[c].nicks
    PROVE  /\ IsView(ViewOf(r, n)) /\ ViewOf(r, n).me = n
           /\ \A c \in Channels : /\ On(ViewOf(r, n), c) <=> n \in r[c].nicks
                                  /\ n \in r[c].nicks => ViewOf(r, n).room[c] = r[c]
                                  /\ n \notin r[c].nicks => ViewOf(r, n).room[c] = NoRoom
                                  /\ ViewOf(r, n).due[c] = {}
<1> DEFINE v == ViewOf(r, n)
<1>1. v.me = n BY DEF ViewOf
<1>2. \A c \in Channels : v.room[c] = IF n \in r[c].nicks THEN r[c] ELSE NoRoom BY DEF ViewOf
<1>3. \A c \in Channels : v.due[c] = {} BY DEF ViewOf
<1>4. NoRoom \in Room BY DEF NoRoom, Room
<1>5. v \in View BY <1>4 DEF ViewOf, View
<1> HIDE DEF v
<1>6. n \notin NoRoom.nicks /\ NoRoom.ops = {} BY DEF NoRoom
<1>7. \A c \in Channels : On(v, c) <=> n \in r[c].nicks BY <1>1, <1>2, <1>6 DEF On
<1>8. IsView(v)
  <2> SUFFICES ASSUME NEW c \in Channels
               PROVE  /\ v.room[c].ops \subseteq v.room[c].nicks /\ v.due[c] \subseteq v.room[c].nicks
                      /\ ~On(v, c) => v.room[c] = NoRoom
    BY <1>5 DEF IsView
  <2> QED BY <1>2, <1>3, <1>6, <1>7
<1> QED BY <1>1, <1>2, <1>3, <1>7, <1>8 DEF v

\* One room of the server changes.
RoomChanged(v, w, c, x) == w.me = v.me /\ w.due = v.due /\ w.room = [v.room EXCEPT ![c] = x]

LEMMA OneRoom ==
    ASSUME NEW r \in [Channels -> Room], NEW n, NEW c \in Channels, NEW x \in Room
    PROVE  RoomChanged(ViewOf(r, n), ViewOf([r EXCEPT ![c] = x], n), c, IF n \in x.nicks THEN x ELSE NoRoom)
<1> DEFINE q == [r EXCEPT ![c] = x]
<1>1. \A d \in Channels : q[d] = IF d = c THEN x ELSE r[d] OBVIOUS
<1> HIDE DEF q
<1>2. ViewOf(q, n).me = ViewOf(r, n).me /\ ViewOf(q, n).due = ViewOf(r, n).due BY DEF ViewOf
<1>3. ViewOf(q, n).room = [d \in Channels |-> IF n \in q[d].nicks THEN q[d] ELSE NoRoom] BY DEF ViewOf
<1>4. ViewOf(r, n).room = [d \in Channels |-> IF n \in r[d].nicks THEN r[d] ELSE NoRoom] BY DEF ViewOf
<1>5. ViewOf(q, n).room = [ViewOf(r, n).room EXCEPT ![c] = IF n \in x.nicks THEN x ELSE NoRoom]
  BY <1>1, <1>3, <1>4
<1> QED BY <1>2, <1>5 DEF q, RoomChanged

\* The rooms that people come to and leave
LEMMA RoomParts ==
    ASSUME Inv, RoomsRight, NEW c \in Channels, NEW n \in Names
    PROVE  /\ room[c] \in Room /\ room[c].ops \subseteq room[c].nicks
           /\ With(c, n).ops \subseteq With(c, n).nicks
           /\ With(c, n).nicks = room[c].nicks \cup {n}
           /\ room[c].nicks # {} => With(c, n) = More(room[c], n)
           /\ Without(c, n).ops \subseteq Without(c, n).nicks
           /\ Without(c, n).nicks = room[c].nicks \ {n}
           /\ room[c].nicks \ {n} # {} => Without(c, n) = Less(room[c], n)
<1>1. room[c] \in Room /\ room[c].ops \subseteq room[c].nicks BY DEF Inv, RoomsRight
<1>2. /\ With(c, n).ops \subseteq With(c, n).nicks
      /\ With(c, n).nicks = room[c].nicks \cup {n}
      /\ room[c].nicks # {} => With(c, n) = More(room[c], n)
  BY <1>1 DEF With, More, Room
<1>3. /\ Less(room[c], n) \in Room /\ Less(room[c], n).ops \subseteq Less(room[c], n).nicks
      /\ Less(room[c], n).nicks = room[c].nicks \ {n}
  BY <1>1 DEF Less, Room
<1>4. Without(c, n) = Emptied(Less(room[c], n)) BY DEF Without, Less
<1>5. \A r \in Room : /\ Emptied(r).ops = r.ops /\ Emptied(r).nicks = r.nicks
                      /\ r.nicks # {} => Emptied(r) = r
  BY DEF Emptied, Room
<1> QED BY <1>1, <1>2, <1>3, <1>4, <1>5

\* Nothing more is to come of a line of another kind.
LEMMA HeadPasses ==
    ASSUME NEW ts \in Seq(Command), ts # <<>>, NEW m, NEW v,
           \A c \in Channels : Head(ts) = [cmd |-> "JOIN", chan |-> c] => m = Refusal(c) \/ OwnJoin(m, v, c),
           \A c \in Channels : Head(ts) = [cmd |-> "MODE", chan |-> c] <=> m.cmd = "324" /\ m.chan = c
    PROVE  Passes(ts, Tail(ts), m, v)
<1>1. \A x : Has(ts, x) <=> Head(ts) = x \/ Has(Tail(ts), x)
  <2> SUFFICES ASSUME NEW x PROVE Has(ts, x) <=> Head(ts) = x \/ Has(Tail(ts), x) OBVIOUS
  <2> QED BY HasTail
<1> QED BY <1>1 DEF Passes

LEMMA IdlePasses == ASSUME NEW ts, NEW m, NEW v, m.cmd # "324" PROVE Passes(ts, ts, m, v)
BY DEF Passes

\* One line is sent, and the room of one channel changes.
LEMMA OneSent ==
    ASSUME Inv, RoomsRight, NEW ts, NEW ts2, NEW m \in ToClient, NEW c \in Channels, NEW x \in Room,
           x.ops \subseteq x.nicks,
           Linked(channelsEnv, list, nickname, ts, toClient, ViewOf(room, me)),
           Explains(channelsEnv, ViewOf(room, me), m, ViewOf([room EXCEPT ![c] = x], me)),
           Passes(ts, ts2, m, ViewOf(room, me)),
           Sends(<<m>>), Rooms(c, x)
    PROVE  Linked(channelsEnv, list, nickname, ts2, toClient', ViewOf(room', me)) /\ RoomsRight'
<1>1. toClient \in Seq(ToClient) /\ room \in [Channels -> Room] /\ me \in Names BY DEF Inv
<1>2. toClient' = Append(toClient, m) BY <1>1, Lines DEF Sends
<1>3. room' = [room EXCEPT ![c] = x] BY DEF Rooms
<1>4. room' \in [Channels -> Room] BY <1>1, <1>3
<1>5. \A d \in Channels : room'[d].ops \subseteq room'[d].nicks BY <1>1, <1>3 DEF RoomsRight
<1>6. IsView(ViewOf(room', me)) BY <1>1, <1>4, <1>5, ViewOfParts
<1>7. Linked(channelsEnv, list, nickname, ts2, Append(toClient, m), ViewOf(room', me))
  BY <1>1, <1>3, <1>6, SentLinked
<1> QED BY <1>2, <1>5, <1>7 DEF RoomsRight

\* JOIN of a channel that we may join: our JOIN, and the names.
LEMMA JoinLinked ==
    ASSUME Inv, RoomsRight, NEW ts \in Seq(Command), ts # <<>>, NEW c \in Channels,
           Head(ts) = [cmd |-> "JOIN", chan |-> c], me \notin room[c].nicks,
           Linked(channelsEnv, list, nickname, ts, toClient, ViewOf(room, me)),
           NEW lines \in NameLines(c, With(c, me)), Rooms(c, With(c, me)),
           Sends(<<[cmd |-> "JOIN", chan |-> c, nick |-> me]>> \o lines)
    PROVE  Linked(channelsEnv, list, nickname, Tail(ts), toClient', ViewOf(room', me)) /\ RoomsRight'
<1> DEFINE J == [cmd |-> "JOIN", chan |-> c, nick |-> me]
           x == With(c, me)
           v == ViewOf(room, me)
           u == ViewOf(room', me)
           Due(S) == [u EXCEPT !.due = [v.due EXCEPT ![c] = S]]
           env == channelsEnv
<1>1. toClient \in Seq(ToClient) /\ room \in [Channels -> Room] /\ me \in Names /\ env \in ChannelSetting
  BY DEF Inv
<1>2. x \in Room /\ x.ops \subseteq x.nicks /\ me \in x.nicks BY <1>1, RoomParts, RoomTypes
<1>3. room' = [room EXCEPT ![c] = x] BY DEF Rooms
<1>4. room' \in [Channels -> Room] BY <1>1, <1>2, <1>3
<1>5. \A d \in Channels : room'[d].ops \subseteq room'[d].nicks BY <1>1, <1>2, <1>3 DEF RoomsRight
<1>6. IsView(v) /\ v.me = me /\ ~On(v, c) BY <1>1, ViewOfParts DEF RoomsRight
<1>7. /\ IsView(u) /\ u.me = me /\ On(u, c) /\ u.room[c] = x
      /\ \A d \in Channels : u.due[d] = {}
  <2>1. room'[c] = x BY <1>1, <1>3
  <2> HIDE DEF x
  <2>2. me \in room'[c].nicks BY <1>2, <2>1
  <2> QED BY <1>1, <1>4, <1>5, <2>1, <2>2, ViewOfParts
<1>8. u.me = v.me /\ u.due = v.due /\ u.room = [v.room EXCEPT ![c] = x]
  <2> HIDE DEF x, u, v
  <2>1. RoomChanged(ViewOf(room, me), ViewOf([room EXCEPT ![c] = x], me), c, IF me \in x.nicks THEN x ELSE NoRoom)
    BY <1>1, <1>2, OneRoom
  <2> QED BY <1>2, <1>3, <2>1 DEF u, v, RoomChanged
<1>9. J \in ToClient BY <1>1 DEF ToClient
<1>10. J.cmd = "JOIN" /\ J.chan = c /\ J.nick = me OBVIOUS
<1>11. \A S \in SUBSET x.nicks :
          /\ Line(c, x, S) \in ToClient
          /\ Line(c, x, S).cmd = "353" /\ Line(c, x, S).chan = c /\ Line(c, x, S).nicks = S
          /\ Line(c, x, S).ops = x.ops \cap S
  BY <1>2 DEF Line, ToClient, Room
<1>12. /\ v.due \in [Channels -> SUBSET Names] /\ v.room \in [Channels -> Room] /\ u \in View
  BY <1>6, <1>7, ViewParts DEF IsView
<1> HIDE DEF J, x, v, u, env
<1>13. \A S \in SUBSET x.nicks :
          /\ IsView(Due(S)) /\ Due(S).me = me /\ Due(S).room = u.room /\ Due(S).due = [v.due EXCEPT ![c] = S]
          /\ Due(S).due[c] = S
  <2> SUFFICES ASSUME NEW S \in SUBSET x.nicks
               PROVE  /\ IsView(Due(S)) /\ Due(S).me = me /\ Due(S).room = u.room /\ Due(S).due = [v.due EXCEPT ![c] = S]
                      /\ Due(S).due[c] = S
    OBVIOUS
  <2> DEFINE due == [v.due EXCEPT ![c] = S]
  <2>1. due \in [Channels -> SUBSET Names] /\ due[c] = S /\ \A d \in Channels \ {c} : due[d] = {}
    <3>1. S \in SUBSET Names BY <1>2 DEF Room
    <3> QED BY <1>7, <1>8, <1>12, <3>1
  <2> HIDE DEF due
  <2>2. Due(S) \in View /\ Due(S).me = u.me /\ Due(S).room = u.room /\ Due(S).due = due
    BY <1>12, <2>1 DEF View, due
  <2>3. \A d \in Channels : due[d] \subseteq u.room[d].nicks BY <1>7, <2>1
  <2> HIDE DEF Due
  <2>4. IsView(Due(S)) BY <1>7, <2>2, <2>3 DEF IsView, On
  <2> QED BY <1>7, <2>1, <2>2, <2>4 DEF due
<1>14. Due({}) = u
  <2>1. [v.due EXCEPT ![c] = {}] = u.due BY <1>7, <1>8, <1>12
  <2> QED BY <1>12, <2>1 DEF View
<1> HIDE DEF Due
<1>15. Linked(env, list, nickname, Tail(ts), Append(toClient, J), Due(x.nicks))
  <2>1. OwnJoin(J, v, c) BY <1>6, <1>10 DEF OwnJoin
  <2>2. Passes(ts, Tail(ts), J, v)
    <3>1. \A d \in Channels : Head(ts) = [cmd |-> "JOIN", chan |-> d] => d = c
      <4>1. \A d \in Channels : [cmd |-> "JOIN", chan |-> d].chan = d OBVIOUS
      <4> QED BY <4>1
    <3>2. \A d \in Channels : Head(ts) # [cmd |-> "MODE", chan |-> d]
      <4>1. \A d \in Channels : [cmd |-> "MODE", chan |-> d].cmd = "MODE" /\ Head(ts).cmd = "JOIN" OBVIOUS
      <4> QED BY <4>1
    <3> QED BY <1>10, <2>1, <3>1, <3>2, HeadPasses
  <2>3. Explains(env, v, J, Due(x.nicks))
    <3>1. \A d \in Channels : v.due[d] = {} BY <1>7, <1>8
    <3>2. SaysOwnJoin(v, J, Due(x.nicks))
      <4>1. /\ Due(x.nicks).me = me /\ Due(x.nicks).room = u.room /\ Due(x.nicks).due = [v.due EXCEPT ![c] = x.nicks]
        BY <1>13
      <4>2. On(Due(x.nicks), c) BY <1>2, <1>7, <4>1 DEF On
      <4> QED BY <1>6, <1>7, <1>8, <1>10, <4>1, <4>2 DEF SaysOwnJoin
    <3> QED BY <3>1, <3>2 DEF Explains
  <2> QED BY <1>1, <1>9, <1>13, <2>2, <2>3, SentLinked DEF v, env
<1>16. ASSUME NEW D \in SUBSET x.nicks, NEW S \in SUBSET D, D # {}, ~env.split => S = D,
              NEW tc \in Seq(ToClient), Linked(env, list, nickname, Tail(ts), tc, Due(D))
       PROVE  Linked(env, list, nickname, Tail(ts), Append(tc, Line(c, x, S)), Due(D \ S))
  <2> DEFINE m == Line(c, x, S)
  <2>1. m \in ToClient /\ m.cmd = "353" /\ m.chan = c /\ m.nicks = S /\ m.ops = x.ops \cap S BY <1>11
  <2>2. /\ IsView(Due(D \ S)) /\ Due(D \ S).me = me /\ Due(D \ S).room = u.room
        /\ Due(D \ S).due = [v.due EXCEPT ![c] = D \ S]
    BY <1>13
  <2>3. Due(D).me = me /\ Due(D).room = u.room /\ Due(D).due = [v.due EXCEPT ![c] = D] /\ Due(D).due[c] = D
    BY <1>13
  <2> HIDE DEF m
  <2>4. [Due(D).due EXCEPT ![c] = @ \ S] = [v.due EXCEPT ![c] = D \ S] BY <1>12, <2>3
  <2>5. SaysNames(env, Due(D), m, Due(D \ S))
    BY <1>7, <1>16, <2>1, <2>2, <2>3, <2>4 DEF SaysNames
  <2>6. Explains(env, Due(D), m, Due(D \ S)) BY <2>1, <2>5 DEF Explains
  <2>7. Passes(Tail(ts), Tail(ts), m, Due(D)) BY <2>1, IdlePasses
  <2> QED BY <1>16, <2>1, <2>2, <2>6, <2>7, SentLinked DEF m
<1>17. Append(toClient, J) \in Seq(ToClient) BY <1>1, <1>9, AppendProperties
<1>18. lines = <<Line(c, x, x.nicks)>> \/
         /\ env.split
         /\ \E S \in (SUBSET x.nicks) \ {{}, x.nicks} : lines = <<Line(c, x, S), Line(c, x, x.nicks \ S)>>
  BY DEF NameLines, x, env
<1>19. CASE lines = <<Line(c, x, x.nicks)>>
  <2>1. toClient' = Append(Append(toClient, J), Line(c, x, x.nicks))
    BY <1>1, <1>9, <1>11, <1>19, Lines DEF Sends, J
  <2>2. Linked(env, list, nickname, Tail(ts), toClient', Due(x.nicks \ x.nicks))
    BY <1>2, <1>15, <1>16, <1>17, <2>1
  <2>3. x.nicks \ x.nicks = {} OBVIOUS
  <2> QED BY <1>5, <1>14, <2>2, <2>3 DEF RoomsRight, u, env
<1>20. ASSUME env.split, NEW S \in (SUBSET x.nicks) \ {{}, x.nicks}, lines = <<Line(c, x, S), Line(c, x, x.nicks \ S)>>
       PROVE  Linked(env, list, nickname, Tail(ts), toClient', u)
  <2> DEFINE a == Line(c, x, S)
             b == Line(c, x, x.nicks \ S)
  <2>0. a \in ToClient /\ b \in ToClient BY <1>11
  <2> HIDE DEF a, b
  <2>1. toClient' = Append(Append(Append(toClient, J), a), b)
    BY <1>1, <1>9, <1>20, <2>0, Lines DEF Sends, J, a, b
  <2>2. Linked(env, list, nickname, Tail(ts), Append(Append(toClient, J), a), Due(x.nicks \ S))
    BY <1>2, <1>15, <1>16, <1>17, <1>20 DEF a
  <2>3. Append(Append(toClient, J), a) \in Seq(ToClient) BY <1>17, <2>0, AppendProperties
  <2>4. x.nicks \ S # {}
    <3>1. S \subseteq x.nicks /\ S # x.nicks BY <1>20
    <3>2. \E n \in x.nicks : n \notin S BY <3>1
    <3> QED BY <3>2
  <2>5. Linked(env, list, nickname, Tail(ts), toClient', Due((x.nicks \ S) \ (x.nicks \ S)))
    BY <1>16, <1>20, <2>1, <2>2, <2>3, <2>4 DEF b
  <2>6. (x.nicks \ S) \ (x.nicks \ S) = {} OBVIOUS
  <2> QED BY <1>14, <2>5, <2>6
<1> QED BY <1>5, <1>18, <1>19, <1>20 DEF RoomsRight, u, env

\* What the server makes of a command leaves the list in touch with it.
LEMMA ServerInTouch == ASSUME Inv, RoomsRight, InTouch, ServerReads PROVE InTouch' /\ RoomsRight'
<1> DEFINE ts == toServer
           q == Head(toServer)
           c == q.chan
           v == ViewOf(room, me)
           env == channelsEnv
<1>1. /\ ts \in Seq(Command) /\ toClient \in Seq(ToClient) /\ room \in [Channels -> Room] /\ me \in Names
      /\ env \in ChannelSetting
  BY DEF Inv
<1>2. /\ ts # <<>> /\ toServer' = Tail(ts)
      /\ UNCHANGED <<list, nickname, connected, me, typed, events, channelsEnv>>
      /\ \/ q.cmd = "JOIN" /\ AnswerJoin(c)
         \/ q.cmd = "PART" /\ AnswerPart(c)
         \/ q.cmd = "MODE" /\ AnswerMode(c)
         \/ q.cmd = "MODE_set" /\ AnswerSetMode(c)
  BY DEF ServerReads
<1>3. q \in Command BY <1>1, <1>2, HeadTailProperties
<1>4. c \in Channels /\ q = [cmd |-> q.cmd, chan |-> c] BY <1>3 DEF Command
<1>5. Linked(env, list, nickname, ts, toClient, v) BY InTouchIsLinked
<1>6. /\ IsView(v) /\ v.me = me /\ (On(v, c) <=> me \in room[c].nicks)
      /\ me \in room[c].nicks => v.room[c] = room[c]
      /\ \A d \in Channels : v.due[d] = {}
  BY <1>1, <1>4, ViewOfParts DEF RoomsRight
<1>7. /\ room[c] \in Room /\ room[c].ops \subseteq room[c].nicks /\ room = [room EXCEPT ![c] = room[c]]
  BY <1>1, <1>4 DEF RoomsRight
<1>8. \A k \in {"JOIN", "PART", "MODE"}, d \in Channels : q = [cmd |-> k, chan |-> d] <=> q.cmd = k /\ c = d
  <2> SUFFICES ASSUME NEW k \in {"JOIN", "PART", "MODE"}, NEW d \in Channels
               PROVE  q = [cmd |-> k, chan |-> d] <=> q.cmd = k /\ c = d
    OBVIOUS
  <2>1. q = [cmd |-> k, chan |-> d] => q.cmd = k /\ c = d OBVIOUS
  <2> QED BY <1>4, <2>1
<1>9. Linked(env, list, nickname, Tail(ts), toClient', ViewOf(room', me)) /\ RoomsRight' => InTouch' /\ RoomsRight'
  BY <1>2, InTouchIsLinked
<1>10. \A x : Has(ts, x) <=> q = x \/ Has(Tail(ts), x)
  <2> SUFFICES ASSUME NEW x PROVE Has(ts, x) <=> q = x \/ Has(Tail(ts), x) OBVIOUS
  <2> QED BY <1>1, <1>2, HasTail
<1> HIDE DEF c, q, v, ts, env
<1>11. ASSUME UNCHANGED <<toClient, room>>, q.cmd \notin {"JOIN", "MODE"} \/ (q.cmd = "JOIN" /\ On(v, c))
       PROVE  InTouch' /\ RoomsRight'
  <2>1. \A d \in Channels :
            /\ Has(ts, [cmd |-> "JOIN", chan |-> d]) => Has(Tail(ts), [cmd |-> "JOIN", chan |-> d]) \/ On(v, d)
            /\ Has(Tail(ts), [cmd |-> "PART", chan |-> d]) => Has(ts, [cmd |-> "PART", chan |-> d])
            /\ Has(Tail(ts), [cmd |-> "MODE", chan |-> d]) <=> Has(ts, [cmd |-> "MODE", chan |-> d])
    BY <1>8, <1>10, <1>11
  <2>2. Linked(env, list, nickname, Tail(ts), toClient, v) BY <1>1, <1>5, <2>1, NotAnswered
  <2> QED BY <1>9, <1>11, <2>2 DEF RoomsRight, v
<1>12. ASSUME NEW m \in ToClient, NEW x \in Room, x.ops \subseteq x.nicks, Rooms(c, x), Sends(<<m>>),
              Explains(env, v, m, ViewOf([room EXCEPT ![c] = x], me)),
              q.cmd = "JOIN" => m = Refusal(c) \/ OwnJoin(m, v, c),
              q.cmd = "MODE" <=> m.cmd = "324", m.cmd = "324" => m.chan = c
       PROVE  InTouch' /\ RoomsRight'
  <2>1. Passes(ts, Tail(ts), m, v)
    <3>1. \A d \in Channels : q = [cmd |-> "JOIN", chan |-> d] => m = Refusal(d) \/ OwnJoin(m, v, d)
      BY <1>8, <1>12
    <3>2. \A d \in Channels : q = [cmd |-> "MODE", chan |-> d] <=> m.cmd = "324" /\ m.chan = d
      BY <1>8, <1>12
    <3> QED BY <1>1, <1>2, <3>1, <3>2, HeadPasses DEF q, ts
  <2>2. Linked(env, list, nickname, Tail(ts), toClient', ViewOf(room', me)) /\ RoomsRight'
    BY <1>4, <1>5, <1>12, <2>1, OneSent DEF v, env
  <2> QED BY <1>9, <2>2
<1>13. CASE q.cmd = "JOIN" /\ AnswerJoin(c)
  <2>1. CASE me \in room[c].nicks
    BY <1>6, <1>11, <1>13, <2>1 DEF AnswerJoin
  <2>2. CASE me \notin room[c].nicks /\ Sends(<<[cmd |-> "471", chan |-> c]>>) /\ UNCHANGED room
    <3> DEFINE m == [cmd |-> "471", chan |-> c]
    <3>1. m \in ToClient /\ m.cmd = "471" /\ m.chan = c /\ m = Refusal(c) BY <1>4 DEF ToClient, Refusal
    <3>2. Sends(<<m>>) BY <2>2
    <3> HIDE DEF m
    <3>3. SaysRefused(v, m, v) BY <1>4, <1>6, <2>2, <3>1 DEF SaysRefused
    <3>4. Explains(env, v, m, v) BY <1>6, <3>3 DEF Explains
    <3>5. Explains(env, v, m, ViewOf([room EXCEPT ![c] = room[c]], me)) BY <1>7, <3>4 DEF v
    <3>6. Rooms(c, room[c]) BY <1>7, <2>2 DEF Rooms
    <3> QED BY <1>7, <1>12, <1>13, <3>1, <3>2, <3>5, <3>6
  <2>3. ASSUME me \notin room[c].nicks, Rooms(c, With(c, me)), NEW lines \in NameLines(c, With(c, me)),
               Sends(<<[cmd |-> "JOIN", chan |-> c, nick |-> me]>> \o lines)
        PROVE  InTouch' /\ RoomsRight'
    <3>1. q = [cmd |-> "JOIN", chan |-> c] BY <1>4, <1>13
    <3>2. Linked(env, list, nickname, Tail(ts), toClient', ViewOf(room', me)) /\ RoomsRight'
      BY <1>1, <1>2, <1>4, <1>5, <2>3, <3>1, JoinLinked DEF q, ts, v, env
    <3> QED BY <1>9, <3>2
  <2> QED BY <1>13, <2>1, <2>2, <2>3 DEF AnswerJoin
<1>14. CASE q.cmd = "PART" /\ AnswerPart(c)
  <2>1. CASE me \notin room[c].nicks
    BY <1>11, <1>14, <2>1 DEF AnswerPart
  <2>2. CASE me \in room[c].nicks
    <3> DEFINE m == [cmd |-> "PART", chan |-> c, nick |-> me]
               x == Without(c, me)
               w == ViewOf([room EXCEPT ![c] = x], me)
    <3>1. m \in ToClient /\ m.cmd = "PART" /\ m.chan = c /\ m.nick = me BY <1>1, <1>4 DEF ToClient
    <3>2. Sends(<<m>>) /\ Rooms(c, x) BY <1>14, <2>2 DEF AnswerPart
    <3>3. x \in Room /\ x.ops \subseteq x.nicks /\ me \notin x.nicks BY <1>1, <1>4, RoomParts, RoomTypes
    <3> HIDE DEF m, x
    <3>4. w.me = v.me /\ w.due = v.due /\ w.room = [v.room EXCEPT ![c] = NoRoom]
      <4>1. RoomChanged(v, w, c, IF me \in x.nicks THEN x ELSE NoRoom) BY <1>1, <1>4, <3>3, OneRoom DEF v
      <4> QED BY <3>3, <4>1 DEF RoomChanged
    <3> HIDE DEF w
    <3>5. env.leaves
      <4>1. Has(ts, [cmd |-> "PART", chan |-> c]) BY <1>4, <1>8, <1>10, <1>14
      <4>2. PICK h : Asked(env, list, ts, toClient, h) BY <1>5 DEF Linked
      <4>3. ModesAsked(env, list[c], ts, toClient, h, c) BY <1>4, <4>2 DEF Asked
      <4> QED BY <4>1, <4>3 DEF ModesAsked
    <3>6. SaysLeft(env, v, m, w) BY <1>4, <1>6, <2>2, <3>1, <3>4, <3>5 DEF SaysLeft
    <3>7. Explains(env, v, m, w) BY <1>6, <3>6 DEF Explains
    <3> QED BY <1>12, <1>14, <3>1, <3>2, <3>3, <3>7 DEF w
  <2> QED BY <2>1, <2>2
<1>15. CASE q.cmd = "MODE" /\ AnswerMode(c)
  <2> DEFINE m == [cmd |-> "324", chan |-> c, moderated |-> room[c].moderated]
  <2>1. m \in ToClient /\ m.cmd = "324" /\ m.chan = c /\ m.moderated = room[c].moderated /\ m.moderated \in BOOLEAN
    BY <1>4, <1>7 DEF ToClient, Room
  <2>2. Sends(<<m>>) /\ Rooms(c, room[c]) BY <1>7, <1>15 DEF AnswerMode, Rooms
  <2> HIDE DEF m
  <2>3. SaysModes(v, m, v) BY <1>4, <1>6, <2>1 DEF SaysModes
  <2>4. Explains(env, v, m, v) BY <1>6, <2>3 DEF Explains
  <2>5. Explains(env, v, m, ViewOf([room EXCEPT ![c] = room[c]], me)) BY <1>7, <2>4 DEF v
  <2> QED BY <1>7, <1>12, <1>15, <2>1, <2>2, <2>5
<1>16. CASE q.cmd = "MODE_set" /\ AnswerSetMode(c)
  <2>1. CASE ~(me \in room[c].ops /\ ~room[c].moderated)
    BY <1>11, <1>16, <2>1 DEF AnswerSetMode
  <2>2. CASE me \in room[c].ops /\ ~room[c].moderated
    <3> DEFINE m == [cmd |-> "MODE_m", chan |-> c, add |-> TRUE]
               x == [room[c] EXCEPT !.moderated = TRUE]
               w == ViewOf([room EXCEPT ![c] = x], me)
    <3>1. m \in ToClient /\ m.cmd = "MODE_m" /\ m.chan = c /\ m.add = TRUE BY <1>4 DEF ToClient
    <3>2. Sends(<<m>>) /\ Rooms(c, x) BY <1>16, <2>2 DEF AnswerSetMode
    <3>3. x \in Room /\ x.ops \subseteq x.nicks /\ me \in x.nicks /\ x = Moderated(room[c], TRUE)
      BY <1>7, <2>2 DEF Room, Moderated
    <3> HIDE DEF m, x
    <3>4. w.me = v.me /\ w.due = v.due /\ w.room = [v.room EXCEPT ![c] = x]
      <4>1. RoomChanged(v, w, c, IF me \in x.nicks THEN x ELSE NoRoom) BY <1>1, <1>4, <3>3, OneRoom DEF v
      <4> QED BY <3>3, <4>1 DEF RoomChanged
    <3> HIDE DEF w
    <3>5. On(v, c) /\ v.room[c] = room[c] BY <1>6, <1>7, <2>2
    <3>6. SaysModerated(v, m, w) BY <1>4, <3>1, <3>3, <3>4, <3>5 DEF SaysModerated
    <3>7. Explains(env, v, m, w) BY <1>6, <3>6 DEF Explains
    <3> QED BY <1>12, <1>16, <3>1, <3>2, <3>3, <3>7 DEF w
  <2> QED BY <2>1, <2>2
<1> QED BY <1>2, <1>13, <1>14, <1>15, <1>16

-----------------------------------------------------------------------------
(* What other people do.                                                    *)

\* The client is told, or the view it could have does not change.
LEMMA ToldOrNot ==
    ASSUME Inv, Inv', InTouch, Happens, RoomsRight', NEW m \in ToClient, m.cmd # "324",
           \/ Sends(<<m>>) /\ Explains(channelsEnv, ViewOf(room, me), m, ViewOf(room', me'))
           \/ Sends(<<>>) /\ ViewOf(room', me') = ViewOf(room, me)
    PROVE  InTouch'
<1> DEFINE v == ViewOf(room, me)
           w == ViewOf(room', me')
           env == channelsEnv
<1>1. UNCHANGED <<list, nickname, toServer, channelsEnv>> BY DEF Happens
<1>2. toClient \in Seq(ToClient) BY DEF Inv
<1>3. IsView(w)
  <2>1. room' \in [Channels -> Room] /\ me' \in Names BY DEF Inv
  <2>2. \A c \in Channels : room'[c].ops \subseteq room'[c].nicks BY DEF RoomsRight
  <2> QED BY <2>1, <2>2, ViewOfParts
<1>4. Linked(env, list, nickname, toServer, toClient, v) BY InTouchIsLinked
<1>5. Linked(env, list, nickname, toServer, toClient', w) => InTouch' BY <1>1, InTouchIsLinked
<1>6. CASE Sends(<<m>>) /\ Explains(env, v, m, w)
  <2>1. toClient' = Append(toClient, m) BY <1>2, <1>6, Lines DEF Sends
  <2>2. Passes(toServer, toServer, m, v) BY IdlePasses
  <2> HIDE DEF v, w, env
  <2>3. Linked(env, list, nickname, toServer, Append(toClient, m), w)
    BY <1>2, <1>3, <1>4, <1>6, <2>2, SentLinked
  <2> QED BY <1>5, <2>1, <2>3
<1>7. CASE Sends(<<>>) /\ w = v
  <2>1. toClient' = toClient BY <1>2, <1>7, ConcatEmptySeq DEF Sends
  <2> QED BY <1>4, <1>5, <1>7, <2>1
<1> QED BY <1>6, <1>7

\* Something happens on one channel.
LEMMA OneTold ==
    ASSUME Inv, Inv', RoomsRight, InTouch, Happens, UNCHANGED me, NEW c \in Channels, NEW x \in Room,
           x.ops \subseteq x.nicks, Rooms(c, x), NEW m \in ToClient, m.cmd # "324", Told({c}, m),
           me \in x.nicks => me \in room[c].nicks,
           \A w : /\ me \in room[c].nicks
                  /\ RoomChanged(ViewOf(room, me), w, c, IF me \in x.nicks THEN x ELSE NoRoom)
                  => Explains(channelsEnv, ViewOf(room, me), m, w)
    PROVE  InTouch' /\ RoomsRight'
<1> DEFINE v == ViewOf(room, me)
           w == ViewOf(room', me')
<1>1. room \in [Channels -> Room] /\ me \in Names /\ room' = [room EXCEPT ![c] = x]
  BY DEF Inv, Rooms
<1>2. RoomsRight' BY <1>1 DEF RoomsRight
<1>3. RoomChanged(v, w, c, IF me \in x.nicks THEN x ELSE NoRoom) BY <1>1, OneRoom
<1>4. IsView(v) /\ (me \notin room[c].nicks => v.room[c] = NoRoom) BY <1>1, ViewOfParts DEF RoomsRight
<1>5. IsView(w)
  <2>1. room' \in [Channels -> Room] /\ me' \in Names BY DEF Inv
  <2>2. \A d \in Channels : room'[d].ops \subseteq room'[d].nicks BY <1>2 DEF RoomsRight
  <2> QED BY <2>1, <2>2, ViewOfParts
<1> HIDE DEF v, w
<1>6. CASE me \in room[c].nicks
  <2>1. Sends(<<m>>) BY <1>6 DEF Told
  <2>2. Explains(channelsEnv, v, m, w) BY <1>3, <1>6 DEF v
  <2> QED BY <1>2, <2>1, <2>2, ToldOrNot DEF v, w
<1>7. CASE me \notin room[c].nicks
  <2>1. Sends(<<>>) BY <1>7 DEF Told
  <2>2. w.me = v.me /\ w.due = v.due /\ w.room = [v.room EXCEPT ![c] = NoRoom]
    BY <1>3, <1>7 DEF RoomChanged
  <2>3. v \in View /\ w \in View BY <1>4, <1>5 DEF IsView
  <2>4. w.room = v.room BY <1>4, <1>7, <2>2, <2>3 DEF View
  <2>5. w = v BY <2>2, <2>3, <2>4 DEF View
  <2> QED BY <1>2, <2>1, <2>5, ToldOrNot DEF v, w
<1> QED BY <1>6, <1>7

\* JOIN, PART, KICK and MODE of other people
LEMMA ChannelEventInTouch ==
    ASSUME Inv, Inv', RoomsRight, InTouch, NEW c \in Channels, NEW n \in Names,
           OtherJoins(c, n) \/ OtherParts(c, n) \/ Kicked(c, n) \/ Opped(c, n) \/ ModerationSet(c)
    PROVE  InTouch' /\ RoomsRight'
<1> DEFINE v == ViewOf(room, me)
           env == channelsEnv
<1>1. Happens /\ UNCHANGED me BY DEF OtherJoins, OtherParts, Kicked, Opped, ModerationSet
<1>2. /\ room \in [Channels -> Room] /\ me \in Names /\ room[c] \in Room
      /\ room[c].ops \subseteq room[c].nicks
  BY DEF Inv, RoomsRight
<1>3. /\ IsView(v) /\ v.me = me /\ (On(v, c) <=> me \in room[c].nicks)
      /\ me \in room[c].nicks => v.room[c] = room[c]
      /\ \A d \in Channels : v.due[d] = {}
  BY <1>2, ViewOfParts DEF RoomsRight
<1> HIDE DEF v, env
<1>4. CASE OtherJoins(c, n)
  <2> DEFINE x == With(c, n)
             m == [cmd |-> "JOIN", chan |-> c, nick |-> n]
  <2>1. m \in ToClient /\ m.cmd = "JOIN" /\ m.chan = c /\ m.nick = n BY DEF ToClient
  <2>2. /\ x \in Room /\ x.ops \subseteq x.nicks /\ x.nicks = room[c].nicks \cup {n}
        /\ room[c].nicks # {} => x = More(room[c], n)
    BY RoomTypes, RoomParts
  <2>3. n # me /\ n \notin room[c].nicks /\ Rooms(c, x) /\ Told({c}, m) BY <1>4 DEF OtherJoins
  <2> HIDE DEF x, m
  <2>4. ASSUME NEW w, me \in room[c].nicks, RoomChanged(v, w, c, IF me \in x.nicks THEN x ELSE NoRoom)
        PROVE  Explains(env, v, m, w)
    <3>1. w.me = v.me /\ w.due = v.due /\ w.room = [v.room EXCEPT ![c] = More(v.room[c], n)]
      BY <1>3, <2>2, <2>4 DEF RoomChanged
    <3>2. SaysJoin(v, m, w) BY <1>3, <2>1, <2>3, <2>4, <3>1 DEF SaysJoin
    <3> QED BY <1>3, <3>2 DEF Explains
  <2>5. m.cmd # "324" BY <2>1
  <2> QED BY <1>1, <2>1, <2>2, <2>3, <2>4, <2>5, OneTold DEF v, env
<1>5. CASE OtherParts(c, n) \/ Kicked(c, n)
  <2> DEFINE x == Without(c, n)
  <2>1. PICK k \in {"PART", "KICK"} :
           /\ n \in room[c].nicks /\ Rooms(c, x) /\ Told({c}, [cmd |-> k, chan |-> c, nick |-> n])
           /\ n = me => env.leaves
    BY <1>5 DEF OtherParts, Kicked, env
  <2> DEFINE m == [cmd |-> k, chan |-> c, nick |-> n]
  <2>2. m \in ToClient /\ m.cmd = k /\ m.chan = c /\ m.nick = n BY DEF ToClient
  <2>3. /\ x \in Room /\ x.ops \subseteq x.nicks /\ x.nicks = room[c].nicks \ {n}
        /\ room[c].nicks \ {n} # {} => x = Less(room[c], n)
    BY RoomTypes, RoomParts
  <2>4. Told({c}, m) BY <2>1
  <2> HIDE DEF x, m
  <2>5. ASSUME NEW w, me \in room[c].nicks, RoomChanged(v, w, c, IF me \in x.nicks THEN x ELSE NoRoom)
        PROVE  Explains(env, v, m, w)
    <3>1. w.me = v.me /\ w.due = v.due /\ w.room = [v.room EXCEPT ![c] = IF n = v.me THEN NoRoom ELSE Less(v.room[c], n)]
      BY <1>3, <2>3, <2>5 DEF RoomChanged
    <3>2. SaysLeft(env, v, m, w) BY <1>3, <2>1, <2>2, <2>5, <3>1 DEF SaysLeft
    <3> QED BY <1>3, <3>2 DEF Explains
  <2>6. m.cmd # "324" /\ (me \in x.nicks => me \in room[c].nicks) BY <2>2, <2>3
  <2> QED BY <1>1, <2>1, <2>2, <2>3, <2>4, <2>5, <2>6, OneTold DEF v, env
<1>6. CASE Opped(c, n)
  <2> DEFINE add == n \notin room[c].ops
             x == Opered(room[c], n, add)
             m == [cmd |-> "MODE_o", chan |-> c, nick |-> n, add |-> add]
  <2>1. m \in ToClient /\ m.cmd = "MODE_o" /\ m.chan = c /\ m.nick = n /\ m.add = add /\ m.add \in BOOLEAN
    BY DEF ToClient
  <2>2. n \in room[c].nicks /\ Rooms(c, x) /\ Told({c}, m) BY <1>6 DEF Opped, Opered
  <2>3. x \in Room /\ x.ops \subseteq x.nicks /\ x.nicks = room[c].nicks BY <1>2, <2>2 DEF Opered, Room
  <2>4. x = Opered(room[c], n, m.add) OBVIOUS
  <2> HIDE DEF x, m, add
  <2>5. ASSUME NEW w, me \in room[c].nicks, RoomChanged(v, w, c, IF me \in x.nicks THEN x ELSE NoRoom)
        PROVE  Explains(env, v, m, w)
    <3>1. w.me = v.me /\ w.due = v.due /\ w.room = [v.room EXCEPT ![c] = Opered(v.room[c], n, m.add)]
      BY <1>3, <2>3, <2>4, <2>5 DEF RoomChanged
    <3>2. SaysOper(v, m, w) BY <1>3, <2>1, <2>2, <2>5, <3>1 DEF SaysOper
    <3> QED BY <1>3, <3>2 DEF Explains
  <2>6. m.cmd # "324" /\ (me \in x.nicks => me \in room[c].nicks) BY <2>1, <2>3
  <2> QED BY <1>1, <2>1, <2>2, <2>3, <2>5, <2>6, OneTold DEF v, env
<1>7. CASE ModerationSet(c)
  <2> DEFINE add == ~room[c].moderated
             x == Moderated(room[c], add)
             m == [cmd |-> "MODE_m", chan |-> c, add |-> add]
  <2>1. m \in ToClient /\ m.cmd = "MODE_m" /\ m.chan = c /\ m.add = add /\ m.add \in BOOLEAN
    BY DEF ToClient
  <2>2. Rooms(c, x) /\ Told({c}, m) BY <1>7 DEF ModerationSet, Moderated
  <2>3. x \in Room /\ x.ops \subseteq x.nicks /\ x.nicks = room[c].nicks BY <1>2 DEF Moderated, Room
  <2>4. x = Moderated(room[c], m.add) OBVIOUS
  <2> HIDE DEF x, m, add
  <2>5. ASSUME NEW w, me \in room[c].nicks, RoomChanged(v, w, c, IF me \in x.nicks THEN x ELSE NoRoom)
        PROVE  Explains(env, v, m, w)
    <3>1. w.me = v.me /\ w.due = v.due /\ w.room = [v.room EXCEPT ![c] = Moderated(v.room[c], m.add)]
      BY <1>3, <2>3, <2>4, <2>5 DEF RoomChanged
    <3>2. SaysModerated(v, m, w) BY <1>3, <2>1, <2>5, <3>1 DEF SaysModerated
    <3> QED BY <1>3, <3>2 DEF Explains
  <2>6. m.cmd # "324" /\ (me \in x.nicks => me \in room[c].nicks) BY <2>1, <2>3
  <2> QED BY <1>1, <2>1, <2>2, <2>3, <2>5, <2>6, OneTold DEF v, env
<1> QED BY <1>4, <1>5, <1>6, <1>7

\* QUIT of other people
LEMMA QuitInTouch ==
    ASSUME Inv, Inv', RoomsRight, InTouch, NEW n \in Names, OtherQuits(n)
    PROVE  InTouch' /\ RoomsRight'
<1> DEFINE v == ViewOf(room, me)
           w == ViewOf(room', me')
           env == channelsEnv
           on == {c \in Channels : n \in room[c].nicks}
           m == [cmd |-> "QUIT", nick |-> n]
<1>1. /\ room \in [Channels -> Room] /\ me \in Names
      /\ \A c \in Channels : room[c] \in Room /\ room[c].ops \subseteq room[c].nicks
  BY DEF Inv, RoomsRight
<1>2. Happens /\ n # me /\ me' = me /\ room' = [c \in Channels |-> Without(c, n)] /\ Told(on, m)
  BY DEF OtherQuits
<1>3. m \in ToClient /\ m.cmd = "QUIT" /\ m.nick = n BY DEF ToClient
<1> HIDE DEF m
<1>4. \A c \in Channels : /\ Without(c, n).ops \subseteq Without(c, n).nicks
                          /\ Without(c, n).nicks = room[c].nicks \ {n}
                          /\ room[c].nicks \ {n} # {} => Without(c, n) = Less(room[c], n)
  BY RoomParts
<1>5. RoomsRight' BY <1>2, <1>4 DEF RoomsRight
<1>6. /\ v.me = me /\ \A c \in Channels : v.due[c] = {} BY <1>1, ViewOfParts DEF RoomsRight
<1>7. NoRoom.nicks = {} /\ Less(NoRoom, n) = NoRoom
  <2>1. NoRoom.nicks = {} /\ NoRoom.ops = {} /\ NoRoom \in Room BY DEF NoRoom, Room
  <2> QED BY <2>1 DEF Less, NoRoom
<1>8. w.me = v.me /\ w.due = v.due BY <1>2 DEF ViewOf
<1>9. v.room = [c \in Channels |-> IF me \in room[c].nicks THEN room[c] ELSE NoRoom] BY DEF ViewOf
<1>10. w.room = [c \in Channels |-> IF me \in room'[c].nicks THEN room'[c] ELSE NoRoom] BY <1>2 DEF ViewOf
<1>11. w = [me |-> w.me, room |-> w.room, due |-> w.due] /\ v = [me |-> v.me, room |-> v.room, due |-> v.due]
  BY DEF ViewOf
<1> HIDE DEF v, w
<1>12. \A c \in Channels : w.room[c] = Less(v.room[c], n)
  <2> SUFFICES ASSUME NEW c \in Channels PROVE w.room[c] = Less(v.room[c], n) OBVIOUS
  <2>1. room'[c] = Without(c, n) BY <1>2
  <2>2. me \in room'[c].nicks <=> me \in room[c].nicks BY <1>2, <1>4, <2>1
  <2>3. CASE me \in room[c].nicks
    <3>1. room'[c] = Less(room[c], n) BY <1>2, <1>4, <2>1, <2>3
    <3> QED BY <1>9, <1>10, <2>2, <2>3, <3>1
  <2>4. CASE me \notin room[c].nicks
    BY <1>7, <1>9, <1>10, <2>2, <2>4
  <2> QED BY <2>3, <2>4
<1>13. w.room = [c \in Channels |-> Less(v.room[c], n)] BY <1>10, <1>12
<1>14. CASE \E c \in on : me \in room[c].nicks
  <2>1. Sends(<<m>>) BY <1>2, <1>14 DEF Told
  <2>2. SaysQuit(v, m, w) BY <1>2, <1>3, <1>6, <1>8, <1>13 DEF SaysQuit
  <2>3. Explains(env, v, m, w) BY <1>6, <2>2 DEF Explains
  <2> QED BY <1>2, <1>3, <1>5, <2>1, <2>3, ToldOrNot DEF v, w
<1>15. CASE ~\E c \in on : me \in room[c].nicks
  <2>1. Sends(<<>>) BY <1>2, <1>15 DEF Told
  <2>2. ASSUME NEW c \in Channels PROVE w.room[c] = v.room[c]
    <3>1. CASE me \in room[c].nicks
      <4>1. n \notin room[c].nicks /\ n \notin room[c].ops BY <1>1, <1>15, <3>1
      <4>2. Less(room[c], n) = room[c]
        <5>1. room[c].nicks \ {n} = room[c].nicks /\ room[c].ops \ {n} = room[c].ops BY <4>1
        <5> QED BY <1>1, <5>1 DEF Less, Room
      <4> QED BY <1>9, <1>12, <3>1, <4>2
    <3>2. CASE me \notin room[c].nicks BY <1>7, <1>9, <1>12, <3>2
    <3> QED BY <3>1, <3>2
  <2>3. w.room = v.room BY <1>9, <1>10, <2>2
  <2>4. w = v BY <1>8, <1>11, <2>3
  <2> QED BY <1>2, <1>3, <1>5, <2>1, <2>4, ToldOrNot DEF v, w
<1> QED BY <1>14, <1>15

\* NICK of us and of other people
LEMMA RenamedInTouch ==
    ASSUME Inv, Inv', RoomsRight, InTouch, NEW n \in Names, NEW new \in Names \ {n}, Renamed(n, new)
    PROVE  InTouch' /\ RoomsRight'
<1> DEFINE v == ViewOf(room, me)
           w == ViewOf(room', me')
           env == channelsEnv
           on == {c \in Channels : n \in room[c].nicks}
           m == [cmd |-> "NICK", nick |-> n, new |-> new]
<1>1. /\ room \in [Channels -> Room] /\ me \in Names
      /\ \A c \in Channels : room[c] \in Room /\ room[c].ops \subseteq room[c].nicks
  BY DEF Inv, RoomsRight
<1>2. /\ Happens /\ new # me /\ \A c \in Channels : new \notin room[c].nicks
      /\ me' = IF n = me THEN new ELSE me
      /\ room' = [c \in Channels |-> Moved(room[c], n, new)]
      /\ IF n = me THEN Sends(<<m>>) ELSE Told(on, m)
  BY DEF Renamed, Moved
<1>3. m \in ToClient /\ m.cmd = "NICK" /\ m.nick = n /\ m.new = new BY DEF ToClient
<1> HIDE DEF m
<1>4. \A c \in Channels : /\ Moved(room[c], n, new).ops \subseteq Moved(room[c], n, new).nicks
                          /\ Moved(room[c], n, new).nicks
                               = (room[c].nicks \ {n}) \cup (IF n \in room[c].nicks THEN {new} ELSE {})
  BY <1>1 DEF Moved, Room
<1>5. RoomsRight' BY <1>2, <1>4 DEF RoomsRight
<1>6. /\ v.me = me /\ \A c \in Channels : v.due[c] = {} BY <1>1, ViewOfParts DEF RoomsRight
<1>7. NoRoom.nicks = {} /\ Moved(NoRoom, n, new) = NoRoom
  <2>1. NoRoom.nicks = {} /\ NoRoom.ops = {} /\ NoRoom \in Room BY DEF NoRoom, Room
  <2> QED BY <2>1 DEF Moved, NoRoom
<1>8. w.me = me' /\ w.due = v.due BY DEF ViewOf
<1>9. v.room = [c \in Channels |-> IF me \in room[c].nicks THEN room[c] ELSE NoRoom] BY DEF ViewOf
<1>10. w.room = [c \in Channels |-> IF me' \in room'[c].nicks THEN room'[c] ELSE NoRoom] BY DEF ViewOf
<1>11. w = [me |-> w.me, room |-> w.room, due |-> w.due] /\ v = [me |-> v.me, room |-> v.room, due |-> v.due]
  BY DEF ViewOf
<1> HIDE DEF v, w
<1>12. \A c \in Channels : w.room[c] = Moved(v.room[c], n, new)
  <2> SUFFICES ASSUME NEW c \in Channels PROVE w.room[c] = Moved(v.room[c], n, new) OBVIOUS
  <2>1. room'[c] = Moved(room[c], n, new) BY <1>2
  <2>2. new \notin room[c].nicks BY <1>2
  <2>3. me' \in room'[c].nicks <=> me \in room[c].nicks
    <3>1. CASE n = me BY <1>2, <1>4, <2>1, <2>2, <3>1
    <3>2. CASE n # me BY <1>2, <1>4, <2>1, <2>2, <3>2
    <3> QED BY <3>1, <3>2
  <2>4. CASE me \in room[c].nicks BY <1>9, <1>10, <2>1, <2>3, <2>4
  <2>5. CASE me \notin room[c].nicks BY <1>7, <1>9, <1>10, <2>3, <2>5
  <2> QED BY <2>4, <2>5
<1>13. w.room = [c \in Channels |-> Moved(v.room[c], n, new)] BY <1>10, <1>12
<1>14. CASE n = me \/ \E c \in on : me \in room[c].nicks
  <2>1. Sends(<<m>>) BY <1>2, <1>14 DEF Told
  <2>2. \A c \in Channels : new \notin v.room[c].nicks BY <1>2, <1>7, <1>9
  <2>3. SaysNick(v, m, w) BY <1>2, <1>3, <1>6, <1>8, <1>13, <2>2 DEF SaysNick
  <2>4. Explains(env, v, m, w) BY <1>6, <2>3 DEF Explains
  <2> QED BY <1>2, <1>3, <1>5, <2>1, <2>4, ToldOrNot DEF v, w
<1>15. CASE n # me /\ ~\E c \in on : me \in room[c].nicks
  <2>1. Sends(<<>>) BY <1>2, <1>15 DEF Told
  <2>2. ASSUME NEW c \in Channels PROVE w.room[c] = v.room[c]
    <3>1. CASE me \in room[c].nicks
      <4>1. n \notin room[c].nicks /\ n \notin room[c].ops BY <1>1, <1>15, <3>1
      <4>2. Moved(room[c], n, new) = room[c]
        <5>1. /\ (room[c].nicks \ {n}) \cup (IF n \in room[c].nicks THEN {new} ELSE {}) = room[c].nicks
              /\ (room[c].ops \ {n}) \cup (IF n \in room[c].ops THEN {new} ELSE {}) = room[c].ops
          BY <4>1
        <5> QED BY <1>1, <5>1 DEF Moved, Room
      <4> QED BY <1>9, <1>12, <3>1, <4>2
    <3>2. CASE me \notin room[c].nicks BY <1>7, <1>9, <1>12, <3>2
    <3> QED BY <3>1, <3>2
  <2>3. w.room = v.room BY <1>9, <1>10, <2>2
  <2>4. w.me = v.me BY <1>2, <1>6, <1>8, <1>15
  <2>5. w = v BY <1>8, <1>11, <2>3, <2>4
  <2> QED BY <1>2, <1>3, <1>5, <2>1, <2>5, ToldOrNot DEF v, w
<1> QED BY <1>14, <1>15

-----------------------------------------------------------------------------
(* The connection, and the first state.                                     *)

\* The operators of a room are on it.
LEMMA RoomsKept == ASSUME Inv, RoomsRight, [ChannelsNext]_channelsVars PROVE RoomsRight'
<1>1. /\ room \in [Channels -> Room] /\ me \in Names
      /\ \A c \in Channels : room[c] \in Room /\ room[c].ops \subseteq room[c].nicks
  BY DEF Inv, RoomsRight
<1>2. ASSUME NEW c \in Channels, NEW x, x.ops \subseteq x.nicks, Rooms(c, x) PROVE RoomsRight'
  BY <1>1, <1>2 DEF Rooms, RoomsRight
<1>3. CASE UNCHANGED room BY <1>1, <1>3 DEF RoomsRight
<1>4. CASE ServerReads
  <2>1. Head(toServer) \in Command
    <3>1. toServer \in Seq(Command) /\ toServer # <<>> BY <1>4 DEF Inv, ServerReads
    <3> QED BY <3>1, HeadTailProperties
  <2>2. PICK c \in Channels : AnswerJoin(c) \/ AnswerPart(c) \/ AnswerMode(c) \/ AnswerSetMode(c)
    BY <1>4, <2>1 DEF ServerReads, Command
  <2>3. CASE AnswerJoin(c)
    <3>1. With(c, me).ops \subseteq With(c, me).nicks BY <1>1, RoomParts
    <3> QED BY <1>2, <1>3, <2>3, <3>1 DEF AnswerJoin
  <2>4. CASE AnswerPart(c)
    <3>1. Without(c, me).ops \subseteq Without(c, me).nicks BY <1>1, RoomParts
    <3> QED BY <1>2, <1>3, <2>4, <3>1 DEF AnswerPart
  <2>5. CASE AnswerMode(c) BY <1>3, <2>5 DEF AnswerMode
  <2>6. CASE AnswerSetMode(c)
    <3> DEFINE x == [room[c] EXCEPT !.moderated = TRUE]
    <3>1. x.ops \subseteq x.nicks BY <1>1 DEF Room
    <3>2. UNCHANGED room \/ Rooms(c, x) BY <2>6 DEF AnswerSetMode
    <3> HIDE DEF x
    <3> QED BY <1>2, <1>3, <3>1, <3>2
  <2> QED BY <2>2, <2>3, <2>4, <2>5, <2>6
<1>5. CASE ConnectionLost
  <2>1. \A c \in Channels : room'[c] = Less(room[c], me) BY <1>5 DEF ConnectionLost, Less
  <2>2. \A c \in Channels : Less(room[c], me).ops \subseteq Less(room[c], me).nicks
    BY <1>1 DEF Less, Room
  <2> QED BY <2>1, <2>2 DEF RoomsRight
<1>6. ASSUME NEW n \in Names, NEW c \in Channels,
             OtherJoins(c, n) \/ OtherParts(c, n) \/ Kicked(c, n) \/ Opped(c, n) \/ ModerationSet(c)
      PROVE  RoomsRight'
  <2>1. /\ With(c, n).ops \subseteq With(c, n).nicks
        /\ Without(c, n).ops \subseteq Without(c, n).nicks
    BY RoomParts
  <2>2. CASE OtherJoins(c, n) BY <1>2, <2>1, <2>2 DEF OtherJoins
  <2>3. CASE OtherParts(c, n) \/ Kicked(c, n) BY <1>2, <2>1, <2>3 DEF OtherParts, Kicked
  <2>4. CASE Opped(c, n)
    <3> DEFINE x == Opered(room[c], n, n \notin room[c].ops)
    <3>1. Rooms(c, x) /\ n \in room[c].nicks BY <2>4 DEF Opped, Opered
    <3>2. x.ops \subseteq x.nicks BY <1>1, <3>1 DEF Opered, Room
    <3> HIDE DEF x
    <3> QED BY <1>2, <3>1, <3>2
  <2>5. CASE ModerationSet(c)
    <3> DEFINE x == Moderated(room[c], ~room[c].moderated)
    <3>1. Rooms(c, x) BY <2>5 DEF ModerationSet, Moderated
    <3>2. x.ops \subseteq x.nicks BY <1>1 DEF Moderated, Room
    <3> HIDE DEF x
    <3> QED BY <1>2, <3>1, <3>2
  <2> QED BY <1>6, <2>2, <2>3, <2>4, <2>5
<1>7. ASSUME NEW n \in Names, OtherQuits(n) PROVE RoomsRight'
  <2>1. \A c \in Channels : Without(c, n).ops \subseteq Without(c, n).nicks BY RoomParts
  <2>2. \A c \in Channels : room'[c] = Without(c, n) BY <1>7 DEF OtherQuits
  <2> QED BY <2>1, <2>2 DEF RoomsRight
<1>8. ASSUME NEW n \in Names, NEW new \in Names \ {n}, Renamed(n, new) PROVE RoomsRight'
  <2>1. \A c \in Channels : room'[c] = Moved(room[c], n, new) BY <1>8 DEF Renamed, Moved
  <2>2. \A c \in Channels : Moved(room[c], n, new).ops \subseteq Moved(room[c], n, new).nicks
    BY <1>1 DEF Moved, Room
  <2> QED BY <2>1, <2>2 DEF RoomsRight
<1>9. CASE User \/ Client \/ Reconnect \/ UNCHANGED channelsVars
  <2>1. UNCHANGED room
    BY <1>9 DEF User, Join, Part, AskMode, TypeIn, Client, PChannel, PPart, PKick, PQuit, PNick, PModeOper,
                PModeModerated, FunnyNamreply, FunnyMode, CannotJoinChannel, Reads, Reconnect, channelsVars
  <2> QED BY <1>3, <2>1, SMTT(30)
<1>10. CASE Others BY <1>6, <1>7, <1>8, <1>10 DEF Others
<1>11. CASE \E c \in Channels : ModerationSet(c) BY <1>1, <1>6, <1>11
<1> QED BY <1>4, <1>5, <1>9, <1>10, <1>11 DEF ChannelsNext

\* A client that is on no channel, and knows it
LEMMA AloneLinked ==
    ASSUME NEW env, NEW l, NEW r \in [Channels -> Room], NEW n \in Names, NEW ts \in Seq(Command),
           \A c \in Channels : r[c].ops \subseteq r[c].nicks /\ n \notin r[c].nicks,
           \A c \in Channels : /\ l[c].connected \in {"none", "joining"}
                               /\ ~env.leaves => ~l[c].chop /\ ~l[c].mode
                               /\ ~env.loses => ~l[c].moderated
                               /\ l[c].connected = "joining" => Has(ts, [cmd |-> "JOIN", chan |-> c])
                               /\ ~Has(ts, [cmd |-> "PART", chan |-> c])
                               /\ ~Has(ts, [cmd |-> "MODE", chan |-> c])
    PROVE  Linked(env, l, n, ts, <<>>, ViewOf(r, n))
<1> DEFINE v == ViewOf(r, n)
           h == <<v>>
<1>1. /\ IsView(v) /\ v.me = n
      /\ \A c \in Channels : ~On(v, c) /\ v.due[c] = {}
  BY ViewOfParts
<1>2. v \in View BY <1>1 DEF IsView
<1> HIDE DEF v
<1>3. h \in Seq(View) /\ Len(h) = 1 /\ h[1] = v BY <1>2
<1>4. Chain(env, h, <<>>)
  <2>1. Len(<<>>) = 0 OBVIOUS
  <2> HIDE DEF h
  <2> QED BY <1>1, <1>3, <2>1 DEF Chain
<1> HIDE DEF h
<1>5. Right(env, l, n, v)
  <2>1. \A c \in Channels : Listed(l[c], v, c) BY <1>1 DEF Listed
  <2>2. \A c \in Channels : MembersRight(env, l[c], v, c) BY <1>1 DEF MembersRight
  <2>3. \A c \in Channels : ModesRight(env, l[c], v, c) BY <1>1 DEF ModesRight
  <2> QED BY <1>1, <2>1, <2>2, <2>3 DEF Right, RightEntry
<1>6. Asked(env, l, ts, <<>>, h)
  <2>1. \A c \in Channels : JoinAsked(l[c], ts, <<>>, h, c) BY DEF JoinAsked
  <2>2. \A c \in Channels : ~ModesTold(<<>>, c) BY DEF ModesTold
  <2>3. \A c \in Channels : ~Wants(l[c], h[1], c) BY <1>1, <1>3 DEF Wants
  <2>4. \A c \in Channels : ModesAsked(env, l[c], ts, <<>>, h, c) BY <2>2, <2>3 DEF ModesAsked, ModesComing
  <2> QED BY <2>1, <2>4 DEF Asked
<1> QED BY <1>3, <1>4, <1>5, <1>6 DEF Linked, v

\* A connection that is lost
LEMMA LostOutOfTouch == ASSUME Inv, InTouch, ConnectionLost PROVE OutOfTouch'
<1>1. PICK h : Chain(channelsEnv, h, toClient) /\ Right(channelsEnv, list, nickname, h[1]) BY DEF InTouch
<1>2. /\ channelsEnv' = channelsEnv /\ channelsEnv.loses /\ me' = me /\ toServer' = <<>> /\ toClient' = <<>>
      /\ \A c \in Channels : list'[c] = MarkNotConnected(list[c]) /\ room'[c] = Less(room[c], me)
  BY DEF ConnectionLost, Less
<1>3. \A c \in Channels : list[c] \in Good /\ room[c] \in Room BY DEF Inv
<1>4. ASSUME NEW c \in Channels
      PROVE  /\ me \notin room'[c].nicks /\ list'[c].connected \in {"none", "limbo"}
             /\ ~channelsEnv.leaves => ~list'[c].chop /\ ~list'[c].mode
  <2>1. me \notin room'[c].nicks
    <3>1. me \notin Less(room[c], me).nicks BY <1>3 DEF Less, Room
    <3> QED BY <1>2, <3>1
  <2>2. RightEntry(channelsEnv, list[c], h[1], c) BY <1>1 DEF Right
  <2>3. CASE list[c].connected = "none"
    <3>1. list'[c] = list[c] BY <1>2, <2>3 DEF MarkNotConnected
    <3>2. ~On(h[1], c) BY <2>2, <2>3 DEF RightEntry, Listed
    <3> QED BY <2>1, <2>2, <2>3, <3>1, <3>2 DEF RightEntry, ModesRight
  <2>4. CASE list[c].connected # "none"
    <3>1. list'[c].connected = "limbo" /\ list'[c].chop = FALSE /\ list'[c].mode = FALSE
      BY <1>2, <1>3, <2>4, ZenonT(60) DEF MarkNotConnected, Good, Chan
    <3> QED BY <2>1, <3>1
  <2> QED BY <2>3, <2>4
<1> QED BY <1>2, <1>4 DEF OutOfTouch

\* A new connection: a JOIN for every channel of the list
LEMMA ReconnectInTouch == ASSUME Inv, RoomsRight, OutOfTouch, Reconnect PROVE InTouch'
<1> DEFINE known == {c \in Channels : list[c].connected # "none"}
           env == channelsEnv
<1>1. /\ channelsEnv' = channelsEnv /\ nickname' = nickname /\ me' = nickname /\ toClient' = toClient /\ room' = room
      /\ \A c \in Channels : nickname \notin room[c].nicks
      /\ list' = [c \in Channels |-> IF c \in known THEN [list[c] EXCEPT !.connected = "joining"] ELSE list[c]]
  BY DEF Reconnect
<1>2. PICK s \in Orders(known) : toServer' = [i \in DOMAIN s |-> [cmd |-> "JOIN", chan |-> s[i]]]
  BY DEF Reconnect
<1>3. Cardinality(known) \in Nat
  BY FS_Subset, FS_CardinalityType, ChannelsAssumption
<1>4. /\ toServer' \in Seq(Command) /\ list \in [Channels -> Good] /\ room \in [Channels -> Room] /\ nickname \in Names
      /\ env \in ChannelSetting
  <2>1. Inv' BY ConnectionInv
  <2> QED BY <2>1 DEF Inv
<1>5. toClient = <<>> /\ channelsEnv.loses
      /\ \A c \in Channels : ~channelsEnv.leaves => ~list[c].chop /\ ~list[c].mode
  BY DEF OutOfTouch
<1>6. s \in [1 .. Cardinality(known) -> known] /\ \A c \in known : \E i \in DOMAIN s : s[i] = c BY <1>2 DEF Orders
<1> HIDE DEF known
<1> DEFINE N == Cardinality(known)
           ts == toServer'
<1> HIDE DEF N
<1>7. N \in Nat /\ s \in [1 .. N -> known] /\ DOMAIN s = 1 .. N /\ ts = [i \in 1 .. N |-> [cmd |-> "JOIN", chan |-> s[i]]]
  BY <1>2, <1>3, <1>6 DEF N
<1> HIDE DEF ts
<1>8. Len(ts) = N
  <2>1. DOMAIN ts = 1 .. N BY <1>7
  <2>2. DOMAIN ts = 1 .. Len(ts) /\ Len(ts) \in Nat BY <1>4, LenProperties DEF ts
  <2> QED BY <1>7, <2>1, <2>2
<1>9. \A c \in known : Has(ts, [cmd |-> "JOIN", chan |-> c])
  <2> SUFFICES ASSUME NEW c \in known PROVE Has(ts, [cmd |-> "JOIN", chan |-> c]) OBVIOUS
  <2>1. PICK i \in 1 .. N : s[i] = c BY <1>6, <1>7
  <2>2. ts[i] = [cmd |-> "JOIN", chan |-> c] BY <1>7, <2>1
  <2> QED BY <1>8, <2>2 DEF Has
<1>10. ASSUME NEW c PROVE ~Has(ts, [cmd |-> "PART", chan |-> c]) /\ ~Has(ts, [cmd |-> "MODE", chan |-> c])
  <2>1. \A i \in 1 .. Len(ts) : ts[i].cmd = "JOIN" BY <1>7, <1>8
  <2>2. [cmd |-> "PART", chan |-> c].cmd = "PART" /\ [cmd |-> "MODE", chan |-> c].cmd = "MODE" OBVIOUS
  <2> QED BY <2>1, <2>2 DEF Has
<1>11. ASSUME NEW c \in Channels
       PROVE  /\ list'[c].connected \in {"none", "joining"}
              /\ ~env.leaves => ~list'[c].chop /\ ~list'[c].mode
              /\ list'[c].connected = "joining" => Has(ts, [cmd |-> "JOIN", chan |-> c])
  <2>1. CASE c \in known
    <3>1. list'[c] = [list[c] EXCEPT !.connected = "joining"] BY <1>1, <2>1
    <3>2. list'[c].connected = "joining" /\ list'[c].chop = list[c].chop /\ list'[c].mode = list[c].mode
      BY <1>4, <3>1 DEF Good, Chan
    <3> QED BY <1>5, <1>9, <2>1, <3>2
  <2>2. CASE c \notin known
    <3>1. list'[c] = list[c] BY <1>1, <2>2
    <3>2. list'[c].connected = "none" BY <2>2, <3>1 DEF known
    <3> QED BY <1>5, <3>1, <3>2
  <2> QED BY <2>1, <2>2
<1>12. Linked(env, list', nickname, ts, <<>>, ViewOf(room, nickname))
  <2>1. \A c \in Channels : room[c].ops \subseteq room[c].nicks /\ nickname \notin room[c].nicks BY <1>1 DEF RoomsRight
  <2>2. ts \in Seq(Command) BY <1>4 DEF ts
  <2>3. \A c \in Channels : /\ list'[c].connected \in {"none", "joining"}
                            /\ ~env.leaves => ~list'[c].chop /\ ~list'[c].mode
                            /\ ~env.loses => ~list'[c].moderated
                            /\ list'[c].connected = "joining" => Has(ts, [cmd |-> "JOIN", chan |-> c])
                            /\ ~Has(ts, [cmd |-> "PART", chan |-> c])
                            /\ ~Has(ts, [cmd |-> "MODE", chan |-> c])
    BY <1>5, <1>10, <1>11
  <2> HIDE DEF env
  <2> QED BY <1>4, <2>1, <2>2, <2>3, AloneLinked
<1> QED BY <1>1, <1>5, <1>12, InTouchIsLinked DEF ts

\* While there is no connection
LEMMA StillOutOfTouch ==
    ASSUME Inv, OutOfTouch, ~connected, Others \/ \E c \in Channels : ModerationSet(c)
    PROVE  OutOfTouch'
<1>1. /\ toServer = <<>> /\ toClient = <<>> /\ channelsEnv.loses
      /\ \A c \in Channels : /\ me \notin room[c].nicks /\ room[c] \in Room
                             /\ list[c].connected \in {"none", "limbo"}
                             /\ ~channelsEnv.leaves => ~list[c].chop /\ ~list[c].mode
      /\ room \in [Channels -> Room] /\ me \in Names
  BY DEF OutOfTouch, Inv
<1>2. Happens
  BY ZenonT(60) DEF Others, OtherQuits, Renamed, OtherJoins, OtherParts, Kicked, Opped, ModerationSet
<1>3. UNCHANGED <<list, toServer, channelsEnv>> BY <1>2 DEF Happens
<1>4. Sends(<<>>) => toClient' = <<>>
  <2>1. toClient \in Seq(ToClient) BY DEF Inv
  <2> QED BY <1>1, <2>1, ConcatEmptySeq DEF Sends
<1>5. \A cs \in SUBSET Channels : \A m : Told(cs, m) => toClient' = <<>> BY <1>1, <1>4 DEF Told
<1>6. ASSUME NEW c \in Channels, NEW x, me \notin x.nicks, Rooms(c, x)
      PROVE  \A d \in Channels : me \notin room'[d].nicks
  BY <1>1, <1>6 DEF Rooms
<1>7. toClient' = <<>> /\ \A c \in Channels : me' \notin room'[c].nicks
  <2>1. ASSUME NEW n \in Names, NEW c \in Channels,
               OtherJoins(c, n) \/ OtherParts(c, n) \/ Kicked(c, n) \/ Opped(c, n) \/ ModerationSet(c)
        PROVE  toClient' = <<>> /\ \A d \in Channels : me' \notin room'[d].nicks
    <3>1. me' = me BY <2>1 DEF OtherJoins, OtherParts, Kicked, Opped, ModerationSet
    <3>2. \E m : Told({c}, m) BY <2>1 DEF OtherJoins, OtherParts, Kicked, Opped, ModerationSet
    <3>3. toClient' = <<>> BY <1>5, <3>2
    <3>4. \E x : Rooms(c, x) /\ me \notin x.nicks
      <4>1. CASE OtherJoins(c, n)
        <5>1. Rooms(c, With(c, n)) /\ n # me BY <4>1 DEF OtherJoins
        <5>2. me \notin With(c, n).nicks BY <1>1, <5>1 DEF With, Room
        <5> QED BY <5>1, <5>2
      <4>2. CASE OtherParts(c, n) \/ Kicked(c, n)
        <5>1. Rooms(c, Without(c, n)) BY <4>2 DEF OtherParts, Kicked
        <5>2. me \notin Without(c, n).nicks BY <1>1 DEF Without, Emptied, Room
        <5> QED BY <5>1, <5>2
      <4>3. CASE Opped(c, n)
        <5>1. Rooms(c, Opered(room[c], n, n \notin room[c].ops)) BY <4>3 DEF Opped, Opered
        <5>2. me \notin Opered(room[c], n, n \notin room[c].ops).nicks BY <1>1 DEF Opered, Room
        <5> QED BY <5>1, <5>2
      <4>4. CASE ModerationSet(c)
        <5>1. Rooms(c, Moderated(room[c], ~room[c].moderated)) BY <4>4 DEF ModerationSet, Moderated
        <5>2. me \notin Moderated(room[c], ~room[c].moderated).nicks BY <1>1 DEF Moderated, Room
        <5> QED BY <5>1, <5>2
      <4> QED BY <2>1, <4>1, <4>2, <4>3, <4>4
    <3> QED BY <1>6, <3>1, <3>3, <3>4
  <2>2. ASSUME NEW n \in Names, OtherQuits(n)
        PROVE  toClient' = <<>> /\ \A c \in Channels : me' \notin room'[c].nicks
    <3>1. me' = me /\ (\E m : Told({c \in Channels : n \in room[c].nicks}, m))
          /\ \A c \in Channels : room'[c] = Without(c, n)
      BY <2>2 DEF OtherQuits
    <3>2. toClient' = <<>> BY <1>5, <3>1
    <3>3. \A c \in Channels : me \notin Without(c, n).nicks BY <1>1 DEF Without, Emptied, Room
    <3> QED BY <3>1, <3>2, <3>3
  <2>3. ASSUME NEW n \in Names, NEW new \in Names \ {n}, Renamed(n, new)
        PROVE  toClient' = <<>> /\ \A c \in Channels : me' \notin room'[c].nicks
    <3>1. n # me BY <2>3 DEF Renamed
    <3>2. /\ me' = me /\ new # me /\ (\E m : Told({c \in Channels : n \in room[c].nicks}, m))
          /\ \A c \in Channels : room'[c] = Moved(room[c], n, new)
      BY <2>3, <3>1 DEF Renamed, Moved
    <3>3. toClient' = <<>> BY <1>5, <3>2
    <3>4. ASSUME NEW c \in Channels PROVE me \notin Moved(room[c], n, new).nicks
      <4>1. Moved(room[c], n, new).nicks = (room[c].nicks \ {n}) \cup (IF n \in room[c].nicks THEN {new} ELSE {})
        BY <1>1 DEF Moved, Room
      <4> QED BY <1>1, <3>2, <4>1
    <3> QED BY <3>2, <3>3, <3>4
  <2>4. CASE Others BY <2>1, <2>2, <2>3, <2>4 DEF Others
  <2>5. CASE \E c \in Channels : ModerationSet(c) BY <1>1, <2>1, <2>5
  <2> QED BY <2>4, <2>5
<1> QED BY <1>1, <1>3, <1>7 DEF OutOfTouch

-----------------------------------------------------------------------------
\* ListRight holds of the first state.
LEMMA InitRight == ASSUME ChannelsInit, Inv PROVE ListRight
<1>1. /\ channelsEnv \in ChannelSetting /\ list = [c \in Channels |-> NoChannel] /\ connected = TRUE
      /\ nickname \in Names /\ me = nickname /\ toServer = <<>> /\ toClient = <<>> /\ room \in [Channels -> Room]
      /\ \A c \in Channels : me \notin room[c].nicks /\ room[c].ops \subseteq room[c].nicks
  BY DEF ChannelsInit, Inv
<1>2. NoChannel.connected = "none" /\ ~NoChannel.chop /\ ~NoChannel.mode /\ ~NoChannel.moderated
  BY DEF NoChannel
<1>3. \A x : ~Has(<<>>, x) BY DEF Has
<1>4. <<>> \in Seq(Command) BY EmptySeq
<1>5. Linked(channelsEnv, list, nickname, <<>>, <<>>, ViewOf(room, nickname))
  BY <1>1, <1>2, <1>3, <1>4, AloneLinked
<1>6. InTouch BY <1>1, <1>5, InTouchIsLinked
<1> QED BY <1>1, <1>6 DEF ListRight, RoomsRight

\* Every step leaves ListRight.
LEMMA NextRight == ASSUME ListRight, [ChannelsNext]_channelsVars PROVE ListRight'
<1>1. Inv /\ RoomsRight BY DEF ListRight
<1>2. Inv'
  <2>1. CASE UNCHANGED channelsVars BY <1>1, <2>1 DEF Inv, channelsVars
  <2>2. CASE ChannelsNext
    BY <1>1, <2>2, UserInv, ClientInv, ConnectionInv, ServerInv, EventInv DEF ChannelsNext
  <2> QED BY <2>1, <2>2
<1>3. RoomsRight' BY <1>1, RoomsKept, SMTT(30)
<1>4. channelsEnv' = channelsEnv
  BY ZenonT(60) DEF ChannelsNext, User, Join, Part, AskMode, TypeIn, Client, PChannel, PPart, PKick, PQuit, PNick, PModeOper,
         PModeModerated, FunnyNamreply, FunnyMode, CannotJoinChannel, Reads, ConnectionLost, Reconnect, ServerReads,
         Others, OtherJoins, OtherParts, OtherQuits, Kicked, Opped, Renamed, ModerationSet, Happens, channelsVars
<1> SUFFICES ASSUME ~channelsEnv.impatient PROVE IF connected' THEN InTouch' ELSE OutOfTouch'
  BY <1>2, <1>3, <1>4 DEF ListRight
<1>5. connected \in BOOLEAN /\ (IF connected THEN InTouch ELSE OutOfTouch) BY DEF ListRight, Inv
<1>6. CASE UNCHANGED channelsVars BY <1>5, <1>6 DEF channelsVars, InTouch, OutOfTouch
<1>7. CASE connected /\ ~ConnectionLost /\ ChannelsNext
  <2>1. connected' = connected /\ ~Reconnect
    BY <1>7, ZenonT(60) DEF ChannelsNext, User, Join, Part, AskMode, TypeIn, Client, PChannel, PPart, PKick, PQuit, PNick, PModeOper,
         PModeModerated, FunnyNamreply, FunnyMode, CannotJoinChannel, Reads, Reconnect, ServerReads,
         Others, OtherJoins, OtherParts, OtherQuits, Kicked, Opped, Renamed, ModerationSet, Happens
  <2>2. InTouch BY <1>5, <1>7
  <2>3. User => InTouch' BY <1>1, <2>2, UserInTouch
  <2>4. Client => InTouch' BY <1>1, <2>2, ClientInTouch
  <2>5. ServerReads => InTouch' BY <1>1, <2>2, ServerInTouch
  <2>6. Others => InTouch'
    BY <1>1, <1>2, <2>2, QuitInTouch, RenamedInTouch, ChannelEventInTouch DEF Others
  <2>7. (\E c \in Channels : ModerationSet(c)) => InTouch'
    <3>1. me \in Names BY <1>1 DEF Inv
    <3> QED BY <1>1, <1>2, <2>2, <3>1, ChannelEventInTouch
  <2>8. InTouch' BY <1>7, <2>1, <2>3, <2>4, <2>5, <2>6, <2>7 DEF ChannelsNext
  <2> QED BY <1>7, <2>1, <2>8
<1>8. CASE connected /\ ConnectionLost
  <2>1. connected' = FALSE BY <1>8 DEF ConnectionLost
  <2> QED BY <1>1, <1>5, <1>8, <2>1, LostOutOfTouch
<1>9. CASE ~connected /\ Reconnect
  <2>1. connected' = TRUE BY <1>9 DEF Reconnect
  <2> QED BY <1>1, <1>5, <1>9, <2>1, ReconnectInTouch
<1>10. CASE ~connected /\ ~Reconnect /\ ChannelsNext
  <2>1. OutOfTouch /\ toServer = <<>> /\ toClient = <<>> BY <1>5, <1>10 DEF OutOfTouch
  <2>2. ~User /\ ~Client /\ ~ConnectionLost /\ ~ServerReads
    BY <1>10, <2>1 DEF User, Join, Part, AskMode, TypeIn, Client, PChannel, PPart, PKick, PQuit, PNick, PModeOper,
         PModeModerated, FunnyNamreply, FunnyMode, CannotJoinChannel, Reads, ConnectionLost, ServerReads
  <2>3. Others \/ \E c \in Channels : ModerationSet(c) BY <1>10, <2>2 DEF ChannelsNext
  <2>4. connected' = connected
    BY <2>3, ZenonT(60) DEF Others, OtherJoins, OtherParts, OtherQuits, Kicked, Opped, Renamed, ModerationSet, Happens
  <2>5. OutOfTouch' BY <1>1, <1>10, <2>1, <2>3, StillOutOfTouch
  <2> QED BY <1>10, <2>4, <2>5
<1> QED BY <1>5, <1>6, <1>7, <1>8, <1>9, <1>10

\* Once everything has been read the chain has one view, of what the server has.
LEMMA QuietInStep ==
    ASSUME ListRight, Quiet, ~channelsEnv.impatient
    PROVE  MembersInStep /\ ChopInStep /\ ModeInStep
<1> DEFINE v == ViewOf(room, me)
           env == channelsEnv
<1>1. connected /\ toServer = <<>> /\ toClient = <<>> /\ Inv /\ RoomsRight BY DEF ListRight, Quiet
<1>2. PICK h : /\ Chain(env, h, toClient) /\ h[Len(h)] = v /\ Right(env, list, nickname, h[1])
               /\ Asked(env, list, toServer, toClient, h)
  BY <1>1 DEF ListRight, InTouch
<1>3. h[1] = v
  <2>1. Len(h) = 1 BY <1>1, <1>2 DEF Chain
  <2> QED BY <1>2, <2>1
<1>4. /\ v.me = me
      /\ \A c \in Channels : /\ On(v, c) <=> me \in room[c].nicks
                             /\ me \in room[c].nicks => v.room[c] = room[c]
                             /\ v.due[c] = {}
  <2>1. room \in [Channels -> Room] /\ me \in Names BY <1>1 DEF Inv
  <2> QED BY <1>1, <2>1, ViewOfParts DEF RoomsRight
<1>5. nickname = me /\ \A c \in Channels : RightEntry(env, list[c], v, c) BY <1>2, <1>3, <1>4 DEF Right
<1>6. \A c \in Channels : /\ JoinAsked(list[c], <<>>, <<>>, h, c)
                          /\ ModesAsked(env, list[c], <<>>, <<>>, h, c)
  BY <1>1, <1>2 DEF Asked
<1>7. \A c \in Channels : list[c].connected # "joining" BY <1>6 DEF JoinAsked, Has, JoinTold
<1>8. \A c \in Channels : ~env.leaves => ~Wants(list[c], v, c)
  BY <1>3, <1>6 DEF ModesAsked, ModesComing, Has, ModesTold
<1>9. \A c \in Channels : list[c] \in Good /\ room[c].ops \subseteq room[c].nicks BY <1>1 DEF Inv, RoomsRight
<1> HIDE DEF v, env
<1>10. MembersInStep
  <2> SUFFICES ASSUME ~(env.split /\ env.leaves), NEW c \in Channels
               PROVE  IF me \in room[c].nicks
                      THEN /\ list[c].connected = "joined"
                           /\ list[c].nicks = room[c].nicks /\ list[c].ops = room[c].ops
                      ELSE list[c].connected = "none"
    BY <1>5 DEF MembersInStep, env
  <2>1. MembersRight(env, list[c], v, c) /\ Listed(list[c], v, c) BY <1>5 DEF RightEntry
  <2>2. CASE me \in room[c].nicks
    <3>1. On(v, c) /\ v.room[c] = room[c] /\ v.due[c] = {} BY <1>4, <2>2
    <3>2. list[c].nicks = room[c].nicks \ {} /\ list[c].ops = room[c].ops \ {} BY <2>1, <3>1 DEF MembersRight
    <3>3. list[c].connected = "joined" BY <2>1, <3>1 DEF Listed
    <3> QED BY <2>2, <3>2, <3>3
  <2>3. CASE me \notin room[c].nicks
    <3>1. ~On(v, c) BY <1>4, <2>3
    <3>2. list[c].connected # "joined" /\ list[c].connected # "limbo" BY <2>1, <3>1 DEF Listed, MembersRight
    <3>3. list[c].connected \in {"none", "limbo", "joining", "joined"} BY <1>9, EntryParts
    <3> QED BY <1>7, <2>3, <3>2, <3>3
  <2> QED BY <2>2, <2>3
<1>11. ASSUME ~env.leaves, NEW c \in Channels
       PROVE  /\ list[c].chop <=> me \in room[c].ops
              /\ me \in room[c].nicks => /\ room[c].moderated => list[c].moderated
                                         /\ list[c].moderated => room[c].moderated \/ env.loses
  <2>1. ModesRight(env, list[c], v, c) BY <1>5 DEF RightEntry
  <2>2. CASE me \in room[c].nicks
    <3>1. On(v, c) /\ v.room[c] = room[c] /\ v.due[c] = {} BY <1>4, <2>2
    <3>2. list[c].chop <=> me \in room[c].ops \ {} BY <1>4, <1>11, <2>1, <3>1 DEF ModesRight
    <3>3. list[c].moderated => room[c].moderated \/ env.loses BY <1>11, <2>1, <3>1 DEF ModesRight
    <3>4. room[c].moderated => list[c].moderated BY <1>8, <1>11, <3>1 DEF Wants
    <3> QED BY <3>2, <3>3, <3>4
  <2>3. CASE me \notin room[c].nicks
    <3>1. ~list[c].chop BY <1>4, <1>11, <2>1, <2>3 DEF ModesRight
    <3> QED BY <1>9, <2>3, <3>1
  <2> QED BY <2>2, <2>3
<1> QED BY <1>10, <1>11 DEF ChopInStep, ModeInStep, env

\* A number that is not the last has a next one.
LEMMA NotTheLast ==
    ASSUME NEW n \in Nat, NEW i \in 1 .. n, i # n
    PROVE  i + 1 \in 1 .. n /\ i + 1 # 1 /\ i + 1 - 1 = i
OBVIOUS

\* A channel that is being joined: after our JOIN its names come next.
LEMMA AskedInStep == ASSUME ListRight, ~channelsEnv.impatient PROVE JoiningIsAsked
<1> SUFFICES ASSUME NEW c \in Channels, list[c].connected = "joining"
             PROVE  \/ \E i \in DOMAIN toServer : toServer[i] = [cmd |-> "JOIN", chan |-> c]
                    \/ \E i \in DOMAIN toClient : toClient[i] = [cmd |-> "471", chan |-> c]
                    \/ \E i \in DOMAIN toClient \ {1} : toClient[i].cmd = "353" /\ toClient[i].chan = c
                                                        /\ toClient[i - 1].cmd = "JOIN"
  BY DEF JoiningIsAsked
<1>1. connected /\ InTouch
  <2>1. list[c].connected \notin {"none", "limbo"} OBVIOUS
  <2> QED BY <2>1 DEF ListRight, OutOfTouch
<1>2. /\ toServer \in Seq(Command) /\ toClient \in Seq(ToClient)
      /\ room \in [Channels -> Room] /\ me \in Names /\ RoomsRight
  BY DEF ListRight, Inv
<1>3. PICK h : /\ Chain(channelsEnv, h, toClient) /\ h[Len(h)] = ViewOf(room, me)
               /\ Asked(channelsEnv, list, toServer, toClient, h)
  BY <1>1 DEF InTouch
<1>4. Len(toClient) \in Nat /\ DOMAIN toClient = 1 .. Len(toClient) /\ DOMAIN toServer = 1 .. Len(toServer)
  BY <1>2, LenProperties
<1>5. /\ Len(h) = Len(toClient) + 1 /\ \A i \in 1 .. Len(h) : IsView(h[i])
      /\ \A i \in 1 .. Len(toClient) : Explains(channelsEnv, h[i], toClient[i], h[i + 1])
  BY <1>3 DEF Chain
<1>6. \/ Has(toServer, [cmd |-> "JOIN", chan |-> c])
      \/ Has(toClient, Refusal(c))
      \/ JoinTold(toClient, h, c)
  BY <1>3 DEF Asked, JoinAsked
<1>7. CASE JoinTold(toClient, h, c)
  <2>1. PICK i \in 1 .. Len(toClient) : OwnJoin(toClient[i], h[i], c) BY <1>7 DEF JoinTold
  <2> DEFINE m == toClient[i]
             v == h[i]
             w == h[i + 1]
  <2>2. m.cmd = "JOIN" /\ m.chan = c /\ m.nick = v.me BY <2>1 DEF OwnJoin
  <2>3. Explains(channelsEnv, v, m, w) BY <1>5
  <2>4. i \in 1 .. Len(h) /\ i + 1 \in 1 .. Len(h) BY <1>4, <1>5
  <2>5. IsView(v) /\ IsView(w) BY <1>5, <2>4
  <2> HIDE DEF m, v, w
  <2>6. SaysOwnJoin(v, m, w) /\ \A d \in Channels : v.due[d] = {}
    <3>1. SaysOwnJoin(v, m, w) \/ SaysJoin(v, m, w) BY <2>2, <2>3, ExplainedAs
    <3>2. ~SaysJoin(v, m, w) BY <2>2 DEF SaysJoin, On
    <3>3. \A d \in Channels : v.due[d] = {} BY <2>2, <2>3 DEF Explains
    <3> QED BY <3>1, <3>2, <3>3
  <2>7. /\ On(w, c) /\ w.due = [v.due EXCEPT ![c] = w.room[c].nicks] /\ v.due \in [Channels -> SUBSET Names]
    BY <2>2, <2>5, <2>6, ViewParts DEF SaysOwnJoin
  <2>8. w.due[c] # {} /\ \A d \in Channels \ {c} : w.due[d] = {} BY <2>6, <2>7 DEF On
  <2>9. i # Len(toClient)
    <3> SUFFICES ASSUME i = Len(toClient) PROVE FALSE OBVIOUS
    <3>1. w = ViewOf(room, me) BY <1>3, <1>5 DEF w
    <3>2. w.due[c] = {} BY <3>1, SMTT(30) DEF ViewOf
    <3> QED BY <2>8, <3>2
  <2>10. i + 1 \in 1 .. Len(toClient) /\ i + 1 # 1 /\ i + 1 - 1 = i
    BY <1>4, <2>9, NotTheLast
  <2> DEFINE k == i + 1
             n == toClient[k]
  <2>11. Explains(channelsEnv, h[k], n, h[k + 1]) BY <1>5, <2>10
  <2>12. Explains(channelsEnv, w, n, h[k + 1]) BY <2>11 DEF w
  <2> HIDE DEF n
  <2>13. n.cmd = "353" BY <2>8, <2>12 DEF Explains
  <2>14. SaysNames(channelsEnv, w, n, h[k + 1]) BY <2>12, <2>13, ExplainedAs
  <2>15. n.chan = c BY <2>8, <2>14 DEF SaysNames
  <2>16. k \in DOMAIN toClient \ {1} /\ toClient[k - 1].cmd = "JOIN" BY <1>4, <2>2, <2>10 DEF m
  <2>17. toClient[k].cmd = "353" /\ toClient[k].chan = c BY <2>13, <2>15 DEF n
  <2> HIDE DEF k
  <2> QED BY <2>16, <2>17
<1>8. CASE Has(toServer, [cmd |-> "JOIN", chan |-> c]) BY <1>4, <1>8 DEF Has
<1>9. CASE Has(toClient, Refusal(c)) BY <1>4, <1>9 DEF Has, Refusal
<1> QED BY <1>6, <1>7, <1>8, <1>9

\* For any channels, nicknames, settings and bounds: once everything sent has been read, the
\* list has what the server has, and a channel being joined has its JOIN or the answer on the way.
THEOREM ListIsInStep == ChannelsSpec => []ListInStep
<1>1. ChannelsInit => ListRight
  <2> SUFFICES ASSUME ChannelsInit PROVE ListRight OBVIOUS
  <2>1. Inv
    <3>1. list \in [Channels -> Good] BY NoChannelGood DEF ChannelsInit
    <3> QED BY <3>1, BoundsAssumption, ChannelSettingsAssumption, EmptySeq DEF ChannelsInit, Inv
  <2> QED BY <2>1, InitRight
<1>2. ListRight /\ [ChannelsNext]_channelsVars => ListRight' BY NextRight
<1>3. ListRight => ListInStep
  <2> SUFFICES ASSUME ListRight PROVE ListInStep OBVIOUS
  <2>1. CASE channelsEnv.impatient
    BY <2>1 DEF ListInStep, MembersInStep, ChopInStep, ModeInStep, JoiningIsAsked
  <2>2. CASE ~channelsEnv.impatient /\ ~Quiet
    BY <2>2, AskedInStep DEF ListInStep, MembersInStep, ChopInStep, ModeInStep
  <2>3. CASE ~channelsEnv.impatient /\ Quiet BY <2>3, AskedInStep, QuietInStep DEF ListInStep
  <2> QED BY <2>1, <2>2, <2>3
<1> QED BY <1>1, <1>2, <1>3, PTL DEF ChannelsSpec

=============================================================================
