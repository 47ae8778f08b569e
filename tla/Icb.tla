-------------------------------- MODULE Icb ---------------------------------
(***************************************************************************)
(* The ICB protocol (icb.c): the packets of a server, the one group we are *)
(* in and who the client thinks is in it, and how what we say is cut into  *)
(* packets.  A packet comes whole (Streams has lines that do not); what a  *)
(* group is like (moderated, invisible), its topic and invitations are     *)
(* shown to the user and left out, as are ignores and hooks.               *)
(***************************************************************************)
EXTENDS Naturals, Sequences, FiniteSets, SequencesExt

CONSTANTS
    IcbNames,          \* nicknames; IcbMe is ours to begin with
    IcbMe,
    IcbGroups,         \* groups
    MembersPerLine,    \* nicknames a server puts on a line
    Remaining,         \* most characters of a packet's text: 250 without our nickname
    LookBack,          \* of the end of a packet searched for a space: 10
    MaxIcbEvents,      \* bound: what the user and the other users do
    IcbSettings        \* what kinds of run there are, a subset of IcbSetting

IcbSetting ==
    [others: SUBSET (IcbNames \ {IcbMe}),  \* who is there to begin with, in any group
     commands: SUBSET {"group", "name", "names", "motd", "leave"},
     renames: BOOLEAN,                     \* groups change their names
     careful: BOOLEAN,                     \* see CarefulName, CarefulAsk and GroupIsRenamed
     lines: SUBSET Seq({"x", " "})]        \* what we say, when that is all we do

ASSUME IcbAssumption ==
    /\ IcbMe \in IcbNames
    /\ {MembersPerLine, LookBack} \subseteq Nat \ {0} /\ Remaining \in Nat /\ Remaining > LookBack
    /\ MaxIcbEvents \in Nat
    /\ IcbSettings \subseteq IcbSetting

NoGroup == "no group"

VARIABLES
    login,             \* "closed", "open", "connected", "in"
    icbNick,           \* server_list[].nickname
    icbGroup,          \* server_list[].group
    members,           \* the group's channel: [group, nicks], or NoChannelYet
    waiting,           \* icb_got_group_waiting_for_members
    room,              \* the server: who is in which group
    peerNick,          \* and who we are, there
    asks,              \* our packets on their way
    tells,             \* the server's packets on their way
    said,              \* what we said last, and the texts of its packets
    icbEvents,         \* counts towards the bound
    icbEnv             \* the setting of this run, never changed

icbVars == <<login, icbNick, icbGroup, members, waiting, room, peerNick, asks, tells, said, icbEvents, icbEnv>>

NoChannelYet == [group |-> NoGroup, nicks |-> {}]

\* A line that is not a list of members, taken for one.
Garbage == "garbage"

IcbTypeOK ==
    /\ login \in {"closed", "open", "connected", "in"}
    /\ icbNick \in IcbNames /\ icbGroup \in IcbGroups
    /\ members \in [group: IcbGroups \cup {NoGroup}, nicks: SUBSET (IcbNames \cup {Garbage})]
    /\ waiting \in 0 .. 2
    /\ room \in [IcbGroups -> SUBSET IcbNames] /\ peerNick \in IcbNames
    /\ icbEvents \in 0 .. MaxIcbEvents /\ icbEnv \in IcbSettings

IcbInit ==
    /\ icbEnv \in IcbSettings
    /\ login = "closed" /\ icbNick = IcbMe /\ peerNick = IcbMe /\ icbGroup \in IcbGroups
    /\ members = NoChannelYet /\ waiting = 0
    /\ room \in [IcbGroups -> SUBSET icbEnv.others]
    /\ \A n \in icbEnv.others : Cardinality({g \in IcbGroups : n \in room[g]}) = 1
    /\ asks = <<>> /\ tells = <<>> /\ said = [line |-> <<>>, texts |-> <<>>]
    /\ icbEvents = 0

----------------------------------------------------------------------------
(* The server, and the others.                                             *)

Inside == {g \in IcbGroups : peerNick \in room[g]}
WhereWeAre == CHOOSE g \in Inside : TRUE
IcbPresent == UNION {room[g] : g \in IcbGroups}

\* Who -s: the group, and lines of its members; the first one says so.
NamesReply(g) ==
    LET all == SetToSeq(room[g])
        line[i \in 1 .. (Len(all) + MembersPerLine - 1) \div MembersPerLine] ==
            [type |-> "members", first |-> i = 1,
             nicks |-> {all[j] : j \in {k \in DOMAIN all : (k - 1) \div MembersPerLine = i - 1}}]
    IN  <<[type |-> "group"]>> \o line

Enters(g) == [h \in IcbGroups |-> IF h = g THEN room[h] \cup {peerNick} ELSE room[h] \ {peerNick}]

PeerAnswers(p) ==
    \/ /\ p.ask = "login"
       /\ peerNick' = p.nick
       /\ room' = [room EXCEPT ![p.group] = @ \cup {p.nick}]
       /\ tells' = tells \o <<[type |-> "login"], [type |-> "nowin", group |-> p.group]>>
    \/ /\ p.ask = "group"
       /\ room' = Enters(p.group)
       /\ tells' = IF p.group \in Inside THEN Append(tells, [type |-> "error"])
                   ELSE Append(tells, [type |-> "nowin", group |-> p.group])
       /\ UNCHANGED peerNick
    \/ /\ p.ask = "name"
       /\ IF p.nick \in IcbPresent
          THEN UNCHANGED <<room, peerNick>> /\ tells' = Append(tells, [type |-> "error"])
          ELSE /\ room' = [g \in IcbGroups |-> IF g \in Inside THEN (room[g] \ {peerNick}) \cup {p.nick} ELSE room[g]]
               /\ peerNick' = p.nick
               /\ tells' = Append(tells, [type |-> "name", from |-> peerNick, to |-> p.nick])
    \/ /\ p.ask = "names"
       /\ tells' = IF p.group \in Inside THEN tells \o NamesReply(p.group) ELSE Append(tells, [type |-> "error"])
       /\ UNCHANGED <<room, peerNick>>
    \/ /\ p.ask = "motd"
       /\ tells' = Append(tells, [type |-> "co"])
       /\ UNCHANGED <<room, peerNick>>

PeerReadsPacket ==
    /\ asks # <<>> /\ login # "closed"
    /\ PeerAnswers(Head(asks)) /\ asks' = Tail(asks)
    /\ UNCHANGED <<login, icbNick, icbGroup, members, waiting, said, icbEvents, icbEnv>>

Happens == icbEvents < MaxIcbEvents /\ icbEvents' = icbEvents + 1 /\ UNCHANGED icbEnv

\* What those in our group are told.
Told(groups, packet) == tells' = IF Inside \cap groups = {} THEN tells ELSE Append(tells, packet)

OtherMoves ==
    /\ \E n \in IcbPresent \ {peerNick}, g \in IcbGroups : LET from == CHOOSE h \in IcbGroups : n \in room[h] IN
        /\ from # g /\ room' = [room EXCEPT ![from] = @ \ {n}, ![g] = @ \cup {n}]
        /\ Told({from, g}, [type |-> IF g \in Inside THEN "arrive" ELSE "depart", nick |-> n])
    /\ Happens /\ UNCHANGED <<login, icbNick, icbGroup, members, waiting, peerNick, asks, said>>

OtherSigns ==
    /\ \/ \E n \in IcbPresent \ {peerNick}, g \in IcbGroups :
            /\ n \in room[g] /\ room' = [room EXCEPT ![g] = @ \ {n}]
            /\ Told({g}, [type |-> "sign-off", nick |-> n])
       \/ \E n \in icbEnv.others \ (IcbPresent \cup {icbNick}), g \in IcbGroups :
            /\ room' = [room EXCEPT ![g] = @ \cup {n}]
            /\ Told({g}, [type |-> "sign-on", nick |-> n])
    /\ Happens /\ UNCHANGED <<login, icbNick, icbGroup, members, waiting, peerNick, asks, said>>

\* Names of the group are asked for under the name it has: who renames it is as careful as the
\* user, and waits.
GroupIsRenamed ==
    /\ icbEnv.renames
    /\ icbEnv.careful => asks = <<>> /\ \A i \in DOMAIN tells : tells[i].type # "nowin"
    /\ \E g \in IcbGroups, h \in IcbGroups :
        /\ room[g] # {} /\ room[h] = {}
        /\ room' = [room EXCEPT ![g] = {}, ![h] = room[g]]
        /\ Told({g}, [type |-> "change", group |-> h])
    /\ Happens /\ UNCHANGED <<login, icbNick, icbGroup, members, waiting, peerNick, asks, said>>

----------------------------------------------------------------------------
(* What the client does with a packet.                                     *)

\* icb_parse_server(): whatever the packet, we wait for one less line of members, when it is done.
Got(types, stillWaiting) ==
    /\ tells # <<>> /\ Head(tells).type \in types
    /\ tells' = Tail(tells)
    /\ waiting' = IF stillWaiting = 0 THEN 0 ELSE stillWaiting - 1
    /\ UNCHANGED <<room, peerNick, said, icbEvents, icbEnv>>

Packet == Head(tells)

\* add_to_channel() and the others: nothing, when the channel is not listed.
ChannelIs(group) == members.group = group /\ group # NoGroup
Members(nicks) == members' = [members EXCEPT !.nicks = IF ChannelIs(icbGroup) THEN nicks ELSE @]

\* icb_put_login(): to the group we were in.
PutLogin == asks' = Append(asks, [ask |-> "login", nick |-> icbNick, group |-> icbGroup])

\* icb_got_proto(): we log in.
GotProto ==
    /\ Got({"proto"}, waiting)
    /\ login' = "connected"
    /\ PutLogin
    /\ UNCHANGED <<icbNick, icbGroup, members>>

\* icb_got_login(): with a new icb_server_status
GotLogin ==
    /\ Got({"login"}, 0)
    /\ login' = "in"
    /\ UNCHANGED <<icbNick, icbGroup, members, asks>>

\* "You are now in group": the others are asked for.
NowInGroup ==
    /\ Got({"nowin"}, waiting)
    /\ icbGroup' = Packet.group
    /\ members' = [group |-> Packet.group, nicks |-> {}]
    /\ asks' = Append(asks, [ask |-> "names", group |-> Packet.group])
    /\ UNCHANGED <<login, icbNick>>

SignOn ==
    /\ Got({"sign-on", "arrive"}, waiting)
    /\ Members(members.nicks \cup {Packet.nick})
    /\ UNCHANGED <<login, icbNick, icbGroup, asks>>

SignOff ==
    /\ Got({"sign-off", "depart"}, waiting)
    /\ Members(members.nicks \ {Packet.nick})
    /\ UNCHANGED <<login, icbNick, icbGroup, asks>>

\* "Group is now named": rename_channel()
Change ==
    /\ Got({"change"}, waiting)
    /\ members' = [members EXCEPT !.group = IF ChannelIs(icbGroup) THEN Packet.group ELSE @]
    /\ icbGroup' = Packet.group
    /\ UNCHANGED <<login, icbNick, asks>>

\* rename_nick(), in the channel list only.
Name ==
    /\ Got({"name"}, waiting)
    /\ members' = [members EXCEPT !.nicks = IF Packet.from \in @ THEN (@ \ {Packet.from}) \cup {Packet.to} ELSE @]
    /\ UNCHANGED <<login, icbNick, icbGroup, asks>>

\* Mutant: only the line that says so has members.
AreMembersOfFirst(packet) == packet.type = "members" /\ packet.first

\* A line of members: one that says so, and any that comes next.
AreMembers(packet) == waiting > 0 \/ (packet.type = "members" /\ packet.first)

\* What a line of output names, when it is taken for a line of members.
Named(packet) ==
    IF packet.type = "members" /\ (waiting > 0 => ~packet.first) THEN packet.nicks ELSE {Garbage}

\* icb_got_cmdout() and icb_cmdout_check_members()
GotCmdout ==
    /\ tells # <<>> /\ Got({"group", "members", "co"},
           IF Packet.type = "group" \/ ~AreMembers(Packet) THEN waiting ELSE IF waiting > 0 THEN waiting + 1 ELSE 2)
    /\ IF Packet.type # "group" /\ AreMembers(Packet) THEN Members(members.nicks \cup Named(Packet)) ELSE UNCHANGED members
    /\ UNCHANGED <<login, icbNick, icbGroup, asks>>

\* icb_got_error(), and all that is only shown.
GotError ==
    /\ Got({"error"}, waiting)
    /\ UNCHANGED <<login, icbNick, icbGroup, members, asks>>

----------------------------------------------------------------------------
(* The user.                                                               *)

\* A connection that is made; the server speaks first.
IcbConnect ==
    /\ login = "closed" /\ icbEnv.lines = {}
    /\ icbNick \notin IcbPresent
    /\ login' = "open" /\ tells' = <<[type |-> "proto"]>> /\ waiting' = 0
    /\ Happens /\ UNCHANGED <<icbNick, icbGroup, members, room, peerNick, asks, said>>

\* icb_got_exit(), a lost connection and /DISCONNECT.  mark_not_connected() keeps the channel.
IcbClosed ==
    /\ login # "closed" /\ "leave" \in icbEnv.commands
    /\ login' = "closed" /\ asks' = <<>> /\ tells' = <<>> /\ waiting' = 0
    /\ room' = [g \in IcbGroups |-> IF g \in Inside THEN room[g] \ {peerNick} ELSE room[g]]
    /\ Happens /\ UNCHANGED <<icbNick, icbGroup, members, peerNick, said>>

Asks(command, packet) ==
    /\ command \in icbEnv.commands /\ login = "in"
    /\ asks' = Append(asks, packet)
    /\ Happens /\ UNCHANGED <<login, icbGroup, members, waiting, room, peerNick, tells, said>>

PutGroup(g) == Asks("group", [ask |-> "group", group |-> g]) /\ UNCHANGED icbNick

\* The careful user asks for a nickname that is free, and nobody is quicker.
CarefulName(nick) == icbEnv.careful => nick \notin IcbPresent \cup icbEnv.others

\* icb_put_nick()
PutNick(nick) == CarefulName(nick) /\ Asks("name", [ask |-> "name", nick |-> nick]) /\ icbNick' = nick

\* The careful user asks for nothing that may be taken for members.
CarefulAsk == icbEnv.careful => waiting = 0 /\ asks = <<>> /\ tells = <<>>

PutFunnyStuff == CarefulAsk /\ Asks("names", [ask |-> "names", group |-> icbGroup]) /\ UNCHANGED icbNick
PutMotd == CarefulAsk /\ Asks("motd", [ask |-> "motd"]) /\ UNCHANGED icbNick

\* The body of the loop of icb_put_public(): what the packet takes of the line.
TextOf(line) ==
    LET part == SubSeq(line, 1, Remaining)
        spaces == {i \in 1 .. LookBack : line[Remaining - i + 1] = " "}
    IN  IF Len(line) <= Remaining THEN [text |-> line, rest |-> <<>>]
        ELSE IF spaces = {} THEN [text |-> part, rest |-> SubSeq(line, Remaining + 1, Len(line))]
        ELSE LET i == CHOOSE i \in spaces : \A j \in spaces : i <= j
             IN  [text |-> SubSeq(line, 1, Remaining - i), rest |-> SubSeq(line, Remaining - i + 1, Len(line))]

\* One time round the loop, if there is something left.
NextText(sent) ==
    IF sent.rest = <<>> THEN sent
    ELSE LET next == TextOf(sent.rest) IN [texts |-> Append(sent.texts, next.text), rest |-> next.rest]

\* icb_put_public(): each time round takes a character at least.
PutPublic(line) ==
    /\ said.line = <<>>
    /\ LET sent == FoldLeft(LAMBDA so, c : NextText(so), [texts |-> <<>>, rest |-> line], line)
       IN  said' = [line |-> line, texts |-> sent.texts]
    /\ UNCHANGED <<login, icbNick, icbGroup, members, waiting, room, peerNick, asks, tells, icbEvents, icbEnv>>

IcbNext ==
    \/ PeerReadsPacket \/ OtherMoves \/ OtherSigns \/ GroupIsRenamed
    \/ GotProto \/ GotLogin \/ NowInGroup \/ SignOn \/ SignOff \/ Change \/ Name \/ GotCmdout \/ GotError
    \/ IcbConnect \/ IcbClosed
    \/ \E g \in IcbGroups : PutGroup(g)
    \/ \E nick \in IcbNames : PutNick(nick)
    \/ PutFunnyStuff \/ PutMotd
    \/ \E line \in icbEnv.lines : PutPublic(line)

IcbSpec == IcbInit /\ [][IcbNext]_icbVars

----------------------------------------------------------------------------
(* Properties.                                                             *)

\* Once nothing is on its way, the client has the group the server has us in, under its name,
\* and knows who is in it and what we are called: whoever came, left, changed a name or moved
\* while the list of members was on its way.
GroupAgreed ==
    login = "in" /\ asks = <<>> /\ tells = <<>> =>
        /\ icbNick = peerNick
        /\ icbGroup = WhereWeAre
        /\ members = [group |-> WhereWeAre, nicks |-> room[WhereWeAre]]

\* What we say goes out whole, in packets that are not too long nor empty, cut before a space
\* if there is one near the end.
TextGoesOut ==
    /\ FlattenSeq(said.texts) = said.line
    /\ \A i \in DOMAIN said.texts :
        /\ Len(said.texts[i]) \in 1 .. Remaining
        /\ i < Len(said.texts) /\ Len(said.texts[i]) < Remaining => Head(said.texts[i + 1]) = " "

\* The client has the group the server has, and says there what was typed (icb.c).
IcbAgreed == GroupAgreed /\ TextGoesOut

=============================================================================
