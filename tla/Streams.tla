------------------------------ MODULE Streams ------------------------------
(***************************************************************************)
(* How the lines of a server come to its parser: the descriptor's buffer   *)
(* of newio.c, the layer of ssl.c below it, what server.c keeps of a line  *)
(* that has not come whole, and the stages of logging in, through a proxy  *)
(* or not, that read from the same stream.                                 *)
(*                                                                         *)
(* A line is LineLength characters, the last one its newline; a character  *)
(* is the connection and the line it is of and its place in it.  The       *)
(* handler waits a second for the rest of a line: what comes within the    *)
(* second has come before the handler, here.                               *)
(***************************************************************************)
EXTENDS Naturals, Sequences, SequencesExt

CONSTANTS
    LineLength,        \* characters of a line
    BufferSize,        \* IO_BUFFER_SIZE, in characters
    MaxConnections,    \* bound: connections made, one after the other
    MaxLines,          \* bound: lines a peer sends on a connection
    StreamSettings     \* what kinds of run there are, a subset of StreamSetting

StreamSetting ==
    [proxy: BOOLEAN,               \* a proxy is in between; its reply is the first two lines
     tls: BOOLEAN,
     greets: BOOLEAN,              \* the server speaks before we have logged in
     cuts: {1, LineLength},        \* how a peer writes: by the character, or by the line
     record: Nat,                  \* most characters that come at once: of a TLS record
     careful: BOOLEAN,             \* a line that was cut once comes whole with the next piece
     closes: BOOLEAN,              \* the user closes the connection, and the peer does
     lines: 0 .. MaxLines]

ASSUME StreamsAssumption ==
    /\ {LineLength, BufferSize, MaxConnections} \subseteq Nat \ {0} /\ MaxLines \in Nat
    /\ StreamSettings \subseteq StreamSetting

VARIABLES
    stage,             \* CONNECTED, PROXY_CONNECT, PROXY_REPLY, PROXY_DONE, LOGGED_IN
    wire,              \* what the peer has written, and the network has
    socket,            \* what has come, a sequence of pieces
    tlsRest,           \* of a TLS record, what SSL_read() has not given yet
    myio,              \* io_rec[], from read_pos to write_pos
    partial,           \* server_list[].buffer
    parsed,            \* what parse_server() was called with, on this connection
    written,           \* lines the peer has written, on this connection
    ended,             \* the peer has closed
    connection,        \* counts the connections
    streamEnv          \* the setting of this run, never changed

streamsVars == <<stage, wire, socket, tlsRest, myio, partial, parsed, written, ended, connection, streamEnv>>

Char == [of: 1 .. MaxConnections, line: 1 .. MaxLines, place: 1 .. LineLength]
IsNewline(c) == c.place = LineLength
Line(of, n) == [i \in 1 .. LineLength |-> [of |-> of, line |-> n, place |-> i]]

StreamsTypeOK ==
    /\ stage \in {"open", "asked", "replied", "proxied", "in", "closed"}
    /\ {wire, tlsRest, myio, partial} \subseteq Seq(Char)
    /\ socket \in Seq(Seq(Char)) /\ parsed \in Seq(Seq(Char))
    /\ written \in 0 .. MaxLines /\ ended \in BOOLEAN
    /\ connection \in 1 .. MaxConnections
    /\ streamEnv \in StreamSettings

StreamsInit ==
    /\ stage = "open"
    /\ wire = <<>> /\ socket = <<>> /\ tlsRest = <<>> /\ myio = <<>> /\ partial = <<>> /\ parsed = <<>>
    /\ written = 0 /\ ended = FALSE /\ connection = 1
    /\ streamEnv \in StreamSettings

----------------------------------------------------------------------------
(* The peer and the network.                                               *)

\* Lines of the proxy's reply: the one with 200, and the empty one.
ProxyLines == IF streamEnv.proxy THEN 2 ELSE 0

\* TLS is spoken once we have begun it, with the server: the proxy's lines are plain.
Encrypted(n) == streamEnv.tls /\ n > ProxyLines

PeerWrites ==
    /\ ~ended /\ written < streamEnv.lines
    /\ IF written < ProxyLines THEN stage \in {"asked", "replied", "proxied"}
       ELSE stage = "in" \/ (streamEnv.greets /\ ~streamEnv.tls /\ stage # "closed")
    /\ written' = written + 1
    /\ wire' = wire \o Line(connection, written')
    /\ UNCHANGED <<stage, socket, tlsRest, myio, partial, parsed, ended, connection, streamEnv>>

PeerCloses ==
    /\ streamEnv.closes /\ ~ended /\ stage # "closed"
    /\ ended' = TRUE
    /\ UNCHANGED <<stage, wire, socket, tlsRest, myio, partial, parsed, written, connection, streamEnv>>

Comes(n) ==
    /\ n \in 1 .. Len(wire) /\ n % streamEnv.cuts = 0 /\ n <= streamEnv.record
    /\ socket' = Append(socket, SubSeq(wire, 1, n))
    /\ wire' = SubSeq(wire, n + 1, Len(wire))
    /\ UNCHANGED <<stage, tlsRest, myio, partial, parsed, written, ended, connection, streamEnv>>

AtEnd == ended /\ wire = <<>>

----------------------------------------------------------------------------
(* newio.c and ssl.c.                                                      *)

Stream == [myio |-> myio, tlsRest |-> tlsRest, socket |-> socket, str |-> <<>>, got |-> "more"]

Least(a, b) == IF a < b THEN a ELSE b
Cut(seq, n) == [first |-> SubSeq(seq, 1, Least(n, Len(seq))), rest |-> SubSeq(seq, Least(n, Len(seq)) + 1, Len(seq))]

\* ssl_read() into the empty buffer: of one TLS record at most, as the first of what is there.
SslRead(d) ==
    LET whole == d.tlsRest # <<>>
        cut == Cut(IF whole THEN d.tlsRest ELSE Head(d.socket), BufferSize)
        socketLeft == IF whole THEN d.socket ELSE Tail(d.socket)
        encrypted == Encrypted(cut.first[1].line)
    IN  [d EXCEPT !.myio = cut.first,
                  !.tlsRest = IF encrypted THEN cut.rest ELSE <<>>,
                  !.socket = IF encrypted \/ cut.rest = <<>> THEN socketLeft ELSE <<cut.rest>> \o socketLeft]

\* select() on the descriptor: it knows nothing of what SSL holds.
SocketReadable(d) == d.socket # <<>>

\* Up to the newline, of what the buffer has.
TakeLine(d) ==
    LET at == SelectInSeq(d.myio, IsNewline)
        cut == Cut(d.myio, IF at = 0 THEN Len(d.myio) ELSE at)
    IN  [d EXCEPT !.str = @ \o cut.first, !.myio = cut.rest, !.got = IF at = 0 THEN @ ELSE "line"]

DgetsStep(d) ==
    IF d.got # "more" THEN d
    ELSE IF d.myio # <<>> THEN TakeLine(d)
    ELSE IF SocketReadable(d) THEN TakeLine(SslRead(d))
    ELSE [d EXCEPT !.got = IF AtEnd THEN "eof" ELSE "timeout"]

\* dgets(), into what is kept of the line already
Dgets ==
    LET run[i \in 0 .. LineLength * MaxLines + 2] ==
            IF i = 0 THEN Stream
            ELSE CHOOSE e \in {DgetsStep(d) : d \in {run[i - 1]}} : TRUE   \* each step evaluated once
    IN  run[LineLength * MaxLines + 2]

\* Mutant: the descriptors only.
SelectedByKernel == socket # <<>> \/ AtEnd

\* new_select(): lines in the buffer count as input.
Selected == myio # <<>> \/ socket # <<>> \/ AtEnd

Reads(d) == myio' = d.myio /\ tlsRest' = d.tlsRest /\ socket' = d.socket

----------------------------------------------------------------------------
(* server.c                                                                *)

\* add_to_server_buffer(), with all of lbuf: what was kept is in it once more.
Kept(lbuf) == partial \o lbuf

\* Mutant: what is kept of a line is not forgotten.
ClosedKeeping ==
    /\ stage' = "closed"
    /\ myio' = <<>> /\ tlsRest' = <<>> /\ partial' = partial
    /\ socket' = <<>> /\ wire' = <<>>

\* close_server(); new_close() frees the descriptor's buffer.
Closed ==
    /\ stage' = "closed"
    /\ myio' = <<>> /\ tlsRest' = <<>> /\ partial' = <<>>
    /\ socket' = <<>> /\ wire' = <<>>

\* The peer has accepted: login_to_server() for the first time.
LoginBegins ==
    /\ stage = "open"
    /\ IF streamEnv.proxy THEN stage' = "asked" /\ UNCHANGED <<wire, socket, tlsRest, myio, partial>>
       ELSE \/ stage' = "in" /\ UNCHANGED <<wire, socket, tlsRest, myio, partial>>
            \/ streamEnv.tls /\ Closed
    /\ UNCHANGED <<parsed, written, ended, connection, streamEnv>>

\* server_check_http_response(): the line with 200, and any others up to the empty one.
HttpResponse(lbuf) ==
    IF stage = "asked" THEN (IF lbuf = Line(connection, 1) THEN "replied" ELSE "closed")
    ELSE IF lbuf = Line(connection, 2) THEN "proxied" ELSE stage

\* The next piece comes before the second is over.
ComesInTime(d) == streamEnv.careful /\ d.got = "timeout" => partial = <<>>

\* login_to_server() when the proxy has answered something.  What was kept of a line is not let go.
ProxyAnswers ==
    /\ stage \in {"asked", "replied"} /\ Selected
    /\ \E d \in {Dgets} : LET lbuf == partial \o d.str IN
           /\ ComesInTime(d)
           /\ \/ /\ d.got = "line" /\ HttpResponse(lbuf) # "closed"
                 /\ stage' = HttpResponse(lbuf) /\ Reads(d) /\ UNCHANGED <<partial, wire>>
              \/ d.got = "line" /\ HttpResponse(lbuf) = "closed" /\ Closed
              \/ d.got = "timeout" /\ partial' = Kept(lbuf) /\ Reads(d) /\ UNCHANGED <<stage, wire>>
              \/ d.got = "eof" /\ Closed
    /\ UNCHANGED <<parsed, written, ended, connection, streamEnv>>

\* The body of do_server() for a server that has something to read, once logged in.
ReadLine ==
    \E d \in {Dgets} : LET lbuf == partial \o d.str IN
        /\ ComesInTime(d)
        /\ \/ /\ d.got = "line"
              /\ parsed' = Append(parsed, lbuf)
              /\ partial' = <<>> /\ stage' = "in" /\ Reads(d) /\ UNCHANGED wire
           \/ /\ d.got = "timeout"
              /\ partial' = Kept(lbuf) /\ stage' = "in" /\ Reads(d) /\ UNCHANGED <<parsed, wire>>
           \/ d.got = "eof" /\ Closed /\ UNCHANGED parsed

DoServer ==
    /\ stage = "in" /\ Selected
    /\ ReadLine
    /\ UNCHANGED <<written, ended, connection, streamEnv>>

\* After the proxy: only what the server sends makes us go on; what it is is then read.
ServerIsHeard ==
    /\ stage = "proxied" /\ Selected
    /\ \/ ReadLine
       \/ streamEnv.tls /\ Closed /\ UNCHANGED parsed
    /\ UNCHANGED <<written, ended, connection, streamEnv>>

Disconnect ==
    /\ streamEnv.closes /\ stage # "closed"
    /\ Closed
    /\ UNCHANGED <<parsed, written, ended, connection, streamEnv>>

Reconnect ==
    /\ stage = "closed" /\ connection < MaxConnections
    /\ connection' = connection + 1
    /\ stage' = "open" /\ written' = 0 /\ parsed' = <<>> /\ ended' = FALSE
    /\ UNCHANGED <<wire, socket, tlsRest, myio, partial, streamEnv>>

StreamsNext ==
    \/ PeerWrites \/ PeerCloses
    \/ \E n \in 1 .. LineLength * MaxLines : Comes(n)
    \/ LoginBegins \/ ProxyAnswers \/ ServerIsHeard \/ DoServer
    \/ Disconnect \/ Reconnect

StreamsSpec == StreamsInit /\ [][StreamsNext]_streamsVars

\* What was written comes, and the main loop goes round: it calls login_to_server() or do_server().
StreamsFairness ==
    /\ WF_streamsVars(\E n \in 1 .. LineLength * MaxLines : Comes(n))
    /\ WF_streamsVars(PeerWrites)
    /\ WF_streamsVars(LoginBegins) /\ WF_streamsVars(ProxyAnswers)
    /\ WF_streamsVars(ServerIsHeard) /\ WF_streamsVars(DoServer)

----------------------------------------------------------------------------
(* Properties.                                                             *)

\* The parser is called with the lines of this connection, each of them whole, in order, none
\* twice and none left out, however the network cuts them, whatever was left of the connection
\* before, and whatever the proxy said.
LinesAsSent ==
    parsed = [i \in DOMAIN parsed |-> Line(connection, ProxyLines + i)]

\* Every line that was written is parsed, unless the connection is closed: none stays in a buffer
\* the main loop does not look at.
LinesAreRead ==
    \A n \in 1 .. MaxLines :
        (stage # "closed" /\ written = n /\ n > ProxyLines) ~> (stage = "closed" \/ Len(parsed) >= n - ProxyLines)

\* Who has connected logs in, or finds out that it cannot.
LoginEnds == (stage # "in") ~> (stage \in {"in", "closed"})

=============================================================================
