----------------------------- MODULE MCPartsWire -----------------------------
(* What the client believes of a server, against messages on their way: the  *)
(* WHOIS queue and the channel list.  They share nothing here: the initial   *)
(* state chooses the part that a behaviour is of.                            *)
EXTENDS MCWhois, MCChannels

VARIABLE part

WireVars == <<part, vars, channelsVars>>

IdleWhois == env = Ancient /\ online = {}
IdleChannels ==
    /\ channelsEnv = [split |-> FALSE, leaves |-> FALSE, loses |-> FALSE, impatient |-> FALSE]
    /\ nickname = "me" /\ \A c \in Channels : room[c].nicks = {}

WireInit ==
    /\ Init /\ ChannelsInit
    /\ \/ part = "whois" /\ IdleChannels
       \/ part = "channels" /\ IdleWhois

WireNext ==
    /\ UNCHANGED part
    /\ \/ part = "whois" /\ Next /\ UNCHANGED channelsVars
       \/ part = "channels" /\ ChannelsNext /\ UNCHANGED vars

WireSpec == WireInit /\ [][WireNext]_WireVars

\* Every variable of both has its type.
WireTypeOK == TypeOK /\ ChannelsTypeOK

=============================================================================
