-------------------------------- MODULE Dcc --------------------------------
(***************************************************************************)
(* DCC CHAT, SEND and GET between two ircII clients (dcc.c): offers sent   *)
(* through the IRC server, listeners and non-blocking connects, the two    *)
(* offers of a chat that cross, and the transfer of a file, which waits    *)
(* for an acknowledgement of all that was sent before it sends more.       *)
(*                                                                         *)
(* Each client has one thread: an action is one run of a command, of       *)
(* register_dcc_offer(), or of dcc_check()'s loop body for one entry with  *)
(* the removal of dead entries after it.  Sockets belong to the kernel.    *)
(***************************************************************************)
EXTENDS Integers, Sequences, FiniteSets

CONSTANTS
    Clients,      \* the two clients
    Commands,     \* what their users may type, a subset of AllCommands
    Sizes,        \* sizes of the file that is sent
    Block,        \* what one read() of the file returns at most
    AckMod,       \* acknowledgements are modulo this: 2^32 in the code
    MaxPorts,     \* bound: listeners in a run
    Failures,     \* system calls that may fail once data has come, of MayFail
    SendsAgain    \* TRUE: a file may be sent again while it is being sent

AllCommands == {"chat", "send", "get", "close"}
Kinds == {"chat", "send", "get"}      \* DCC_CHAT, DCC_FILEOFFER, DCC_FILEREAD

MayFail == {"accept", "write"}

ASSUME ClientsAssumption == IsFiniteSet(Clients) /\ Cardinality(Clients) = 2
ASSUME CommandsAssumption == Commands \subseteq AllCommands /\ SendsAgain \in BOOLEAN
ASSUME FailuresAssumption == Failures \subseteq MayFail
ASSUME SizesAssumption == Sizes \subseteq Nat /\ {Block, AckMod} \subseteq Nat \ {0}
ASSUME MaxPortsAssumption == MaxPorts \in Nat

VARIABLES
    list,        \* ClientList of each client: at most one entry of a kind
    filesize,    \* the static filesize of each client
    offers,      \* CTCP DCC messages on their way to each client
    sock,        \* listener and connection of each port number in use
    disk,        \* what each client has written to the file it gets
    size         \* size of the file that may be sent

dccVars == <<list, filesize, offers, sock, disk, size>>

Peer(c) == CHOOSE d \in Clients : d # c
Ports == 1 .. MaxPorts
MaxSize == CHOOSE n \in Sizes : \A m \in Sizes : m <= n

(* An entry of ClientList.  port is remport of an offer, and the number that *)
(* names the socket of ->read and ->write (0 is -1).                         *)
DccEntry ==
    [on: BOOLEAN,
     flags: SUBSET {"WAIT", "ACTIVE", "OFFER", "PEND", "DELETE"},
     port: {0} \cup Ports,        \* ->remport
     fd: {0} \cup Ports,          \* ->read
     pos: 0 .. MaxSize,           \* offset of ->file
     count: 0 .. MaxSize,         \* ->bytes_sent of a SEND, ->bytes_read of a GET
     filesize: Sizes \cup {0}]

Nobody == [on |-> FALSE, flags |-> {}, port |-> 0, fd |-> 0, pos |-> 0,
           count |-> 0, filesize |-> 0]

(* The socket of one port: first a listener of owner, then one connection.   *)
(*   none  nobody has called connect()      up    established                *)
(*   syn   connect() said EINPROGRESS       dead  refused or reset           *)
Socket == [owner: Clients, kind: Kinds,
           listens: BOOLEAN,      \* the listening descriptor is open
           link: {"none", "syn", "up", "dead"},
           err: BOOLEAN,          \* recv() of the owner will fail, once
           near: BOOLEAN,         \* the owner's end: accepted and open
           far: BOOLEAN,          \* the end that called connect() is open
           toFar: Seq(Nat),       \* pieces of the file
           toNear: Seq(Nat)]      \* acknowledgements

Offer == [kind: Kinds, port: Ports, size: Nat]

Used == DOMAIN sock
Busy(e) == e.flags \cap {"ACTIVE", "WAIT"} # {}

-----------------------------------------------------------------------------
(* Sockets (external): what the kernel does when a descriptor is closed,     *)
(* when it is read, and on its own.                                          *)

Dead(s) == [s EXCEPT !.link = "dead", !.err = s.near, !.toFar = <<>>, !.toNear = <<>>]

\* Client c closes its descriptor of s; input nobody will read makes it a reset.
ClosedBy(s, c) ==
    LET mine == c = s.owner
        rest == IF mine THEN [s EXCEPT !.listens = FALSE, !.near = FALSE]
                ELSE [s EXCEPT !.far = FALSE]
        unread == IF mine THEN (s.listens /\ s.link = "up") \/ s.toNear # <<>>
                  ELSE s.toFar # <<>>
    IN  IF unread \/ ~(rest.listens \/ rest.near \/ rest.far) THEN Dead(rest) ELSE rest

\* new_close(): nothing for -1.
Close(socks, c, p) ==
    IF p = 0 THEN socks ELSE [socks EXCEPT ![p] = ClosedBy(@, c)]

\* getpeername() of client c's descriptor succeeds.
Connected(c, p) ==
    /\ p # 0 /\ sock[p].link = "up"
    /\ c = sock[p].owner => sock[p].near

\* select() reports c's descriptor: accept() or recv() has something to say.
Ended(c, p) ==
    LET s == sock[p]
        isOpen == IF c = s.owner THEN s.far ELSE s.near \/ s.listens
    IN  s.link = "dead" \/ (s.link = "up" /\ ~isOpen)
Readable(c, p) ==
    /\ p # 0
    /\ IF c = sock[p].owner
       THEN IF sock[p].listens THEN sock[p].link = "up"
            ELSE Ended(c, p) \/ sock[p].toNear # <<>>
       ELSE Ended(c, p) \/ sock[p].toFar # <<>>

\* The connection attempt reaches the peer's host.
NetConnect(p) ==
    /\ sock[p].link = "syn"
    /\ sock' = [sock EXCEPT ![p] = IF @.listens THEN [@ EXCEPT !.link = "up"] ELSE Dead(@)]
    /\ UNCHANGED <<list, filesize, offers, disk, size>>

\* The connection breaks.
NetReset(p) ==
    /\ sock[p].link = "up" /\ (sock[p].near \/ sock[p].far) /\ ~sock[p].listens
    /\ sock' = [sock EXCEPT ![p] = Dead(@)]
    /\ UNCHANGED <<list, filesize, offers, disk, size>>

-----------------------------------------------------------------------------
(* Entries. *)

\* dcc_searchlist() with flag set: the entry, made with the static filesize
\* if there is none.
Search(c, k, fs) ==
    IF list[c][k].on THEN list[c][k] ELSE [Nobody EXCEPT !.on = TRUE, !.filesize = fs]

Set(c, k, e) == [list EXCEPT ![c][k] = e]

\* dcc_erase(): e leaves the list and its descriptors are closed.
DccErase(c, k, e, socks) ==
    /\ list' = Set(c, k, Nobody)
    /\ sock' = Close(socks, c, e.fd)

\* dcc_open() for an entry that was offered: connect to the peer's port.
Dial(c, k, e, socks) ==
    /\ list' = Set(c, k, [e EXCEPT !.fd = e.port, !.count = 0,
                                   !.flags = @ \cup {"PEND", "ACTIVE"}])
    /\ sock' = [socks EXCEPT ![e.port] = [@ EXCEPT !.link = "syn", !.far = TRUE]]

\* dcc_open() for one that was not: listen on the next port, and offer it.
Listen(c, k, e, socks) ==
    LET p == Cardinality(Used) + 1
        new == [owner |-> c, kind |-> k, listens |-> TRUE, link |-> "none", err |-> FALSE,
                near |-> FALSE, far |-> FALSE, toFar |-> <<>>, toNear |-> <<>>]
    IN  /\ p \in Ports
        /\ list' = Set(c, k, [e EXCEPT !.fd = p, !.flags = @ \cup {"PEND", "WAIT"}])
        /\ sock' = [q \in Used \cup {p} |-> IF q = p THEN new ELSE socks[q]]
        /\ offers' = [offers EXCEPT ![Peer(c)] =
                         Append(@, [kind |-> k, port |-> p, size |-> e.filesize])]

\* dcc_open(); connect(), socket(), bind() or listen() may fail at once.
DccOpen(c, k, e, socks) ==
    \/ /\ "OFFER" \in e.flags
       /\ Dial(c, k, e, socks) /\ UNCHANGED offers
    \/ /\ "OFFER" \notin e.flags
       /\ Listen(c, k, e, socks)
    \/ DccErase(c, k, e, socks) /\ UNCHANGED offers

-----------------------------------------------------------------------------
(* What the user types: /DCC CHAT, SEND, GET and CLOSE. *)

DccChat(c) ==
    LET e == Search(c, "chat", filesize[c])
    IN  /\ "chat" \in Commands /\ ~Busy(e)
        /\ DccOpen(c, "chat", e, sock)
        /\ UNCHANGED <<filesize, disk, size>>

\* The file is opened before the entry is looked at.
DccFilesend(c) ==
    LET e == [Search(c, "send", size) EXCEPT !.pos = 0]
    IN  /\ "send" \in Commands /\ (SendsAgain \/ ~Busy(e))
        /\ filesize' = [filesize EXCEPT ![c] = 0]
        /\ IF Busy(e) THEN list' = Set(c, "send", e) /\ UNCHANGED <<sock, offers>>
           ELSE DccOpen(c, "send", e, sock)
        /\ UNCHANGED <<disk, size>>

\* The file cannot be opened, though access() said it can be read.
DccFilesendFails(c) ==
    LET e == Search(c, "send", size)
    IN  /\ "send" \in Commands
        /\ filesize' = [filesize EXCEPT ![c] = size]
        /\ list' = Set(c, "send", [e EXCEPT !.fd = 0, !.flags = @ \cup {"DELETE"}])
        /\ sock' = Close(sock, c, e.fd)
        /\ UNCHANGED <<offers, disk, size>>

DccGetfile(c) ==
    LET e == list[c]["get"]
    IN  /\ "get" \in Commands /\ e.on /\ ~Busy(e)
        /\ IF "OFFER" \in e.flags
           THEN DccOpen(c, "get", [e EXCEPT !.count = 0], sock)
                /\ disk' = [disk EXCEPT ![c] = <<>>]
           ELSE DccErase(c, "get", e, sock) /\ UNCHANGED <<offers, disk>>
        /\ UNCHANGED <<filesize, size>>

DccClose(c, k) ==
    LET e == list[c][k]
    IN  /\ "close" \in Commands /\ e.on /\ "DELETE" \notin e.flags
        /\ DccErase(c, k, e, sock)
        /\ UNCHANGED <<filesize, offers, disk, size>>

-----------------------------------------------------------------------------
(* A CTCP DCC message from the peer. *)

\* The client's own offer is given up for the peer's.
Withdrawn(c, e) == Close(sock, c, e.fd)

(* register_dcc_offer().  A chat that the client has itself offered is       *)
(* erased, made anew and connected (dcc_chat()); the same branch for a file  *)
(* cannot be reached, since a GET never waits.                               *)
RegisterDccOffer(c) ==
    LET o == Head(offers[c])
        k == IF o.kind = "chat" THEN "chat" ELSE "get"
        old == Search(c, k, o.size)
        collision == "WAIT" \in old.flags
        e == IF collision THEN [Nobody EXCEPT !.on = TRUE] ELSE old
        offered == [e EXCEPT !.flags = @ \cup {"OFFER"}, !.port = o.port]
    IN  /\ offers[c] # <<>>
        /\ offers' = [offers EXCEPT ![c] = Tail(@)]
        /\ filesize' = [filesize EXCEPT ![c] = 0]
        /\ IF collision
           THEN Dial(c, k, offered, Withdrawn(c, old))
                \/ DccErase(c, k, offered, Withdrawn(c, old))
           ELSE /\ UNCHANGED sock
                /\ list' = IF "ACTIVE" \in e.flags THEN list ELSE Set(c, k, offered)
        /\ UNCHANGED <<disk, size>>

-----------------------------------------------------------------------------
(* dcc_check() for one entry, followed by dcc_really_erase().                *)

\* Entries marked DCC_DELETE leave the list, whoever marked them.
ReallyErase(c, k, e, socks) ==
    LET now == Set(c, k, e)
        dies == {m \in Kinds : "DELETE" \in now[c][m].flags}
    IN  /\ list' = [now EXCEPT ![c] = [m \in Kinds |-> IF m \in dies THEN Nobody ELSE @[m]]]
        /\ sock' = [p \in Used |-> IF \E m \in dies : now[c][m].fd = p
                                   THEN ClosedBy(socks[p], c) ELSE socks[p]]

\* new_close(Client->read), -1 for it, and DCC_DELETE.
Gone(e) == [e EXCEPT !.fd = 0, !.flags = @ \cup {"DELETE"}]
Lost(c, k, e, socks) == ReallyErase(c, k, Gone(e), Close(socks, c, e.fd))

\* A connection that has been made is no longer pending, nor an offer.
Answered(c, e) ==
    IF "PEND" \in e.flags /\ Connected(c, e.fd)
    THEN [e EXCEPT !.flags = @ \ {"PEND", "OFFER"}] ELSE e

\* accept(): the listener is closed and the new descriptor takes its place.
Accepting(e) == [e EXCEPT !.flags = (@ \ {"WAIT"}) \cup {"ACTIVE"}, !.count = 0]
Accepted(p) == [sock EXCEPT ![p] = [@ EXCEPT !.listens = FALSE, !.near = TRUE]]

\* send(): a peer that is gone answers with a reset.
Pushed(s, isOpen, stream) ==
    IF s.link = "dead" THEN s ELSE IF isOpen THEN stream ELSE Dead(s)

\* process_incoming_chat(), without the lines of the chat.  When accept()
\* fails the listener is forgotten, not closed.
ProcessIncomingChat(c, e) ==
    \/ /\ "WAIT" \in e.flags
       /\ ReallyErase(c, "chat", Accepting(e), Accepted(e.fd))
    \/ /\ "WAIT" \in e.flags /\ "accept" \in Failures
       /\ ReallyErase(c, "chat", Gone(e), sock)
    \/ /\ "WAIT" \notin e.flags
       /\ Lost(c, "chat", e, sock)

\* bytes_sent after a block of n
Counted(e, n) == e.count + n

\* The next block of the file, or the end of the transfer.
SendBlock(c, e, socks) ==
    LET n == IF size - e.pos < Block THEN size - e.pos ELSE Block
        data == [i \in 1 .. n |-> e.pos + i]
        s == socks[e.fd]
    IN  IF n = 0 THEN Lost(c, "send", e, socks)
        ELSE ReallyErase(c, "send", [e EXCEPT !.pos = @ + n, !.count = Counted(e, n)],
                 [socks EXCEPT ![e.fd] = Pushed(@, s.far, [s EXCEPT !.toFar = @ \o data])])

\* Mutant: any acknowledgement lets the next block go.
AcknowledgedAny(e) == TRUE

\* The peer has acknowledged all that was sent.
Acknowledged(e) == Head(sock[e.fd].toNear) = e.count

\* accept() failed: the first block is read and counted, and sent to -1.
SentNowhere(e) ==
    LET n == IF size < Block THEN size ELSE Block
        f == [Accepting(e) EXCEPT !.fd = 0, !.pos = n, !.count = n]
    IN  IF n = 0 THEN Gone(f) ELSE f

(* process_outgoing_file().  recv() is compared with sizeof(uint32_t) as an  *)
(* unsigned number, so that its -1 passes for an acknowledgement, of         *)
(* whatever bytesrecvd holds.                                                *)
ProcessOutgoingFile(c, e) ==
    LET s == sock[e.fd]
        noted == [sock EXCEPT ![e.fd].err = FALSE]
        read == [sock EXCEPT ![e.fd].toNear = Tail(@)]
    IN  \/ /\ "WAIT" \in e.flags
           /\ SendBlock(c, Accepting(e), Accepted(e.fd))
        \/ /\ "WAIT" \in e.flags /\ "accept" \in Failures
           /\ ReallyErase(c, "send", SentNowhere(e), Close(sock, c, e.fd))
        \/ /\ "WAIT" \notin e.flags /\ s.err
           /\ SendBlock(c, e, noted) \/ ReallyErase(c, "send", e, noted)
        \/ /\ "WAIT" \notin e.flags /\ ~s.err /\ s.toNear = <<>>
           /\ Lost(c, "send", e, sock)
        \/ /\ "WAIT" \notin e.flags /\ s.toNear # <<>>
           /\ IF Acknowledged(e) THEN SendBlock(c, e, read) ELSE ReallyErase(c, "send", e, read)

\* Mutant: the last piece is acknowledged, not all of them.
AckPiece(e, n) == n % AckMod

\* Four bytes: bytes_read so far.
Ack(e, n) == (e.count + n) % AckMod

\* process_incoming_file(): recv() returns some of what has arrived.
ProcessIncomingFile(c, e) ==
    LET s == sock[e.fd]
        Taken(n) == [s EXCEPT !.toFar = SubSeq(@, n + 1, Len(@))]
        Acked(n) == [Taken(n) EXCEPT !.toNear = Append(@, Ack(e, n))]
    IN  \/ /\ s.toFar = <<>>
           /\ Lost(c, "get", e, sock) /\ UNCHANGED disk
        \/ \E n \in DOMAIN s.toFar :
             /\ disk' = [disk EXCEPT ![c] = @ \o SubSeq(s.toFar, 1, n)]
             /\ ReallyErase(c, "get", [e EXCEPT !.count = @ + n],
                            [sock EXCEPT ![e.fd] = Pushed(Taken(n), s.near, Acked(n))])
        \/ \E n \in DOMAIN s.toFar :
             /\ "write" \in Failures
             /\ Lost(c, "get", e, [sock EXCEPT ![e.fd] = Taken(n)]) /\ UNCHANGED disk

Process(c, k, e) ==
    \/ /\ k = "chat"
       /\ ProcessIncomingChat(c, e) /\ UNCHANGED disk
    \/ /\ k = "send"
       /\ ProcessOutgoingFile(c, e) /\ UNCHANGED disk
    \/ /\ k = "get"
       /\ ProcessIncomingFile(c, e)

DccCheck(c, k) ==
    LET e == Answered(c, list[c][k])
    IN  /\ e.on
        /\ IF Readable(c, e.fd) THEN Process(c, k, e)
           ELSE ReallyErase(c, k, e, sock) /\ UNCHANGED disk
        /\ UNCHANGED <<filesize, offers, size>>

-----------------------------------------------------------------------------
DccInit ==
    /\ list = [c \in Clients |-> [k \in Kinds |-> Nobody]]
    /\ filesize = [c \in Clients |-> 0]
    /\ offers = [c \in Clients |-> <<>>]
    /\ sock = <<>>
    /\ disk = [c \in Clients |-> <<>>]
    /\ size \in Sizes

DccUser(c) ==
    \/ DccChat(c) \/ DccFilesend(c) \/ DccFilesendFails(c) \/ DccGetfile(c)
    \/ \E k \in Kinds : DccClose(c, k)

Network == \E p \in Used : NetConnect(p) \/ NetReset(p)

DccNext ==
    \/ Network
    \/ \E c \in Clients : DccUser(c) \/ RegisterDccOffer(c) \/ \E k \in Kinds : DccCheck(c, k)

DccSpec == DccInit /\ [][DccNext]_dccVars

\* The kernel decides every connect() and the main loop calls dcc_check()
\* for every descriptor that stays readable.
DccFairness ==
    /\ \A p \in Ports : WF_dccVars(p \in Used /\ NetConnect(p))
    /\ \A c \in Clients, k \in Kinds : WF_dccVars(DccCheck(c, k))

-----------------------------------------------------------------------------
DccTypeOK ==
    /\ list \in [Clients -> [Kinds -> DccEntry]]
    /\ filesize \in [Clients -> Sizes \cup {0}]
    /\ offers \in [Clients -> Seq(Offer)]
    /\ Used = 1 .. Cardinality(Used) /\ \A p \in Used : p \in Ports /\ sock[p] \in Socket
    /\ disk \in [Clients -> Seq(Nat)]
    /\ size \in Sizes

\* "DCC SEND completed": when the last acknowledgement is read, the peer has
\* written the whole file, in order, however the stream was cut up.
Completes(c) ==
    LET e == list[c]["send"]
    IN  /\ "ACTIVE" \in e.flags /\ e.fd # 0
        /\ sock[e.fd].toNear # <<>> /\ Acknowledged(e)
        /\ e.pos = size
CompletedIsWhole == \A c \in Clients : Completes(c) => disk[Peer(c)] = [i \in 1 .. size |-> i]

\* process_outgoing_file(): no more than one block is on its way.
OneBlock == \A p \in Used : Len(sock[p].toFar) <= Block

\* Every open descriptor is that of an entry, which dcc_check() and the
\* user can close: nothing is left open when entries are replaced or erased.
Owned(c, p) == \E k \in Kinds : list[c][k].on /\ list[c][k].fd = p
NoStrayDescriptor ==
    \A p \in Used : /\ sock[p].listens \/ sock[p].near => Owned(sock[p].owner, p)
                    /\ sock[p].far => Owned(Peer(sock[p].owner), p)

\* A transfer gives the peer the file and nothing else, block by block, and what was opened
\* for it stays in reach of dcc_check() (dcc.c).
TransfersInOrder == CompletedIsWhole /\ OneBlock /\ NoStrayDescriptor

\* When two chat offers cross, one of the two connects finds its listener.
CollisionConnects ==
    (\A c \in Clients : {"OFFER", "ACTIVE"} \subseteq list[c]["chat"].flags)
        => \E c \in Clients : LET s == sock[list[c]["chat"].fd] IN s.listens \/ s.near

\* A transfer that was accepted ends, if acknowledgements do not wrap.
TransferEnds ==
    \A c \in Clients :
        ("ACTIVE" \in list[c]["get"].flags /\ size < AckMod)
            ~> "ACTIVE" \notin list[c]["get"].flags
=============================================================================
