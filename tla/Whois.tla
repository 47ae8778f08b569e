------------------------------- MODULE Whois -------------------------------
(***************************************************************************)
(* The WHOIS queue of one server (whois.c), the notify list that polls     *)
(* through it (notify.c), and the server at the other end of the two       *)
(* streams.  The client asks about people on its own account (who sent     *)
(* this message? is that friend here?) and must tell the answers to its    *)
(* own questions, in the order it asked them, from the answers to what the *)
(* user asked.  Nothing in the protocol numbers a request: the code pairs  *)
(* a reply with the head of a FIFO.  Here requests carry a number, which   *)
(* the code never looks at, so that properties can say whose answer it is. *)
(***************************************************************************)
EXTENDS Integers, Sequences

CONSTANTS
    Nicks,        \* people
    Alphabet,     \* the same as a sequence: the order of the notify list
    Settings      \* the clients and servers a run looks at: a set of Setting

(* Who queues a request: the func of its entry. *)
Funcs == {"message",        \* whois_ignore_msgs() and the like, whois_new_wallops()
          "whois_notify",   \* /NOTIFY nick on a server without ISON
          "userhost",       \* /USERHOST nick: USERHOST_USERHOST
          "userhost_cmd",   \* /USERHOST nick -CMD: userhost_cmd_returned()
          "ison_now",       \* /ISON nick
          "ison_notify"}    \* /NOTIFY nick, and the poll of do_notify()

(* What the user may send past the queue. *)
Raw == {"WHOIS", "WHOWAS", "quote USERHOST"}

AllQuestions == Funcs \cup Raw

NoNick == "nobody"         \* whois_stuff->nick before it is first set

ASSUME AlphabetAssumption ==
    /\ NoNick \notin Nicks
    /\ Alphabet \in Seq(Nicks)
    /\ \A n \in Nicks : \E k \in DOMAIN Alphabet : Alphabet[k] = n

(* What does not change in the life of a connection. *)
Setting ==
    [asks: SUBSET AllQuestions,      \* what the client and the user may ask
     most: Nat,                      \* bound: requests in a run
     ends: BOOLEAN,                  \* the server ends a WHOIS with 318
     knows: SUBSET {"ISON", "USERHOST"},  \* the commands the server knows
     distinct: BOOLEAN,              \* no second request about the same person
     primary: BOOLEAN,               \* the server is primary_server
     handler: {"noisy", "quiet", "old"},  \* NOTIFY_HANDLER
     restless: BOOLEAN,              \* people come and go
     breaks: BOOLEAN,                \* the connection may be lost and made again
     disturbed: BOOLEAN]             \* clean_whois_queue() for another server's sake

ASSUME SettingsAssumption == Settings \subseteq Setting

VARIABLES
    queue,      \* WQ_head ... WQ_tail
    whois,      \* ->whois: the server is known to send 318
    has262,     \* SERVER_2_6_2: the server is believed to know ISON
    stuff,      \* ->whois_stuff.nick
    crap,       \* ignore_whois_crap: the lines of a WHOIS are not shown
    notify,     \* notify_list: "off" it, or the flag "here" / "gone"
    open,       \* is_server_connected() and is_server_open()
    crashed,    \* a NULL pointer was followed
    asked,      \* number of requests so far
    requests,   \* client to server, in flight
    replies,    \* server to client, in flight
    online,     \* who is on IRC
    env         \* the setting, which stays as it is

client == <<queue, whois, has262, stuff, crap, notify, open, crashed, asked>>
wires  == <<requests, replies>>
vars   == <<client, wires, online, env>>

Questions == env.asks
MaxAsked  == env.most
SendsEnd  == env.ends
Knows     == env.knows
Primary   == env.primary
KnowsAll  == Knows = {"ISON", "USERHOST"}

Entry   == [id: 1 .. MaxAsked, func: Funcs, who: Seq(Nicks)]
Request == [id: 1 .. MaxAsked, who: Seq(Nicks),
            cmd: {"WHOIS", "WHOIS !", "WHOWAS", "ISON", "USERHOST"}]
Reply   == [id: 1 .. MaxAsked, who: Seq(Nicks), on: Seq(Nicks),
            num: {"311", "314", "317", "318", "401", "401 !", "302", "303",
                  "421 ISON", "421 USERHOST"}]

(* The type add_to_whois_queue() and add_ison_to_whois() give an entry. *)
Type(func) ==
    IF func \in {"userhost", "userhost_cmd"} THEN "USERHOST"
    ELSE IF func \in {"ison_now", "ison_notify"} THEN "ISON"
    ELSE IF func = "whois_notify" THEN "ISON2"
    ELSE "WHOIS"

TypeHead == IF queue = <<>> THEN "none" ELSE Type(Head(queue).func)
HeadNick == Head(queue).who[1]

(* Mutant: the head is taken for the WHOIS of n without a look at its type. *)
HeadAwaitsUntyped(n) == queue # <<>> /\ HeadNick = n

(* The head waits for the WHOIS of nick n. *)
HeadAwaits(n) == TypeHead \in {"WHOIS", "ISON2"} /\ HeadNick = n

-----------------------------------------------------------------------------
(* Asking *)

Message(cmd, id, who) == [cmd |-> cmd, id |-> id, who |-> who]

(* What an entry of the given type sends.  Until the server is known to     *)
(* send 318, a WHOIS is followed by one for a nick that cannot exist.       *)
Sent(type, id, who) ==
    IF type \in {"ISON", "USERHOST"} THEN <<Message(type, id, who)>>
    ELSE <<Message("WHOIS", id, who)>>
            \o IF whois THEN <<>> ELSE <<Message("WHOIS !", id, who)>>

(* typed_add_to_whois_queue(), for a server that is connected *)
Enqueue(func, who) ==
    /\ queue' = Append(queue, [id |-> asked + 1, func |-> func, who |-> who])
    /\ requests' = requests \o Sent(Type(func), asked + 1, who)
    /\ asked' = asked + 1

InFlight(n) ==
    \/ \E k \in DOMAIN requests : requests[k].who = <<n>>
    \/ \E k \in DOMAIN replies : replies[k].who = <<n>>

(* add_to_whois_queue() and add_ison_to_whois() as the commands and the     *)
(* message handlers call them, with one nick                                *)
Ask(func, n) ==
    /\ func \in Questions \ {"whois_notify", "ison_notify"}
    /\ open
    /\ env.distinct => ~ InFlight(n)
    /\ Enqueue(func, <<n>>)
    /\ UNCHANGED <<whois, has262, stuff, crap, notify, open, crashed, replies, online>>

(* /WHOIS, /WHOWAS and /QUOTE USERHOST go to the server past the queue. *)
AskRaw(cmd, n) ==
    /\ cmd \in Questions \cap Raw
    /\ open
    /\ requests' = Append(requests,
                     Message(IF cmd = "quote USERHOST" THEN "USERHOST" ELSE cmd,
                             asked + 1, <<n>>))
    /\ asked' = asked + 1
    /\ UNCHANGED <<queue, whois, has262, stuff, crap, notify, open, crashed, replies, online>>

(* Mutant: the flag of a new entry is not set. *)
NotifyAddUnset(n) ==
    /\ {"whois_notify", "ison_notify"} \cap Questions # {}
    /\ Primary /\ open
    /\ notify' = [notify EXCEPT ![n] = "unset"]
    /\ Enqueue(IF has262 THEN "ison_notify" ELSE "whois_notify", <<n>>)
    /\ UNCHANGED <<whois, has262, stuff, crap, open, crashed, replies, online>>

(* /NOTIFY n.  On a server without ISON the list given to                   *)
(* add_ison_to_whois() is blank, and that function returns.                 *)
NotifyAdd(n) ==
    /\ {"whois_notify", "ison_notify"} \cap Questions # {}
    /\ Primary /\ open
    /\ notify' = [notify EXCEPT ![n] = "gone"]
    /\ Enqueue(IF has262 THEN "ison_notify" ELSE "whois_notify", <<n>>)
    /\ UNCHANGED <<whois, has262, stuff, crap, open, crashed, replies, online>>

(* /NOTIFY -n *)
NotifyRemove(n) ==
    /\ notify[n] # "off"
    /\ notify' = [notify EXCEPT ![n] = "off"]
    /\ UNCHANGED <<queue, whois, has262, stuff, crap, open, crashed, asked, wires, online>>

(* do_notify(): once a minute, ISON for the (first forty of the) list *)
DoNotify ==
    LET listed == SelectSeq(Alphabet, LAMBDA n : notify[n] # "off")
    IN  /\ "ison_notify" \in Questions
        /\ Primary /\ open
        /\ listed # <<>>
        /\ Enqueue("ison_notify", listed)
        /\ UNCHANGED <<whois, has262, stuff, crap, notify, open, crashed, replies, online>>

-----------------------------------------------------------------------------
(* The server (external): it answers in the order it is asked. *)

Answer(num, r, on) == [num |-> num, id |-> r.id, who |-> r.who, on |-> on]

(* The numeric that answers a command other than WHOIS. *)
Numeric(cmd) ==
    IF cmd = "WHOIS !" THEN "401 !"
    ELSE IF cmd = "WHOWAS" THEN "314"
    ELSE IF cmd = "ISON" THEN IF cmd \in Knows THEN "303" ELSE "421 ISON"
    ELSE IF cmd \in Knows THEN "302" ELSE "421 USERHOST"

\* The lines of a WHOIS, which is about one person, and the end of it
WhoisLines(r) ==
    LET end(on) == IF SendsEnd THEN <<Answer("318", r, on)>> ELSE <<>>
    IN  IF r.who[1] \in online
        THEN <<Answer("311", r, r.who), Answer("317", r, r.who)>> \o end(r.who)
        ELSE <<Answer("401", r, <<>>)>> \o end(<<>>)

AnswerTo(r) ==
    IF r.cmd = "WHOIS" THEN WhoisLines(r)
    ELSE <<Answer(Numeric(r.cmd), r, SelectSeq(r.who, LAMBDA n : n \in online))>>

ServerAnswers ==
    /\ requests # <<>>
    /\ requests' = Tail(requests)
    /\ replies' = replies \o AnswerTo(Head(requests))
    /\ UNCHANGED <<client, online>>

Sign(n) ==
    /\ env.restless
    /\ online' = IF n \in online THEN online \ {n} ELSE online \cup {n}
    /\ UNCHANGED <<client, wires>>

-----------------------------------------------------------------------------
(* Answers: one action per numeric *)

Got(num) == replies # <<>> /\ Head(replies).num = num
Nick     == Head(replies).who[1]
Read     == replies' = Tail(replies)

(* notify_mark() for a whole list: marks[n] is the flag given to n, or "off". *)
(* doit is TRUE for an ISON or WHOIS of the notify list.                      *)
NotifyMark(marks, doit) ==
    notify' = IF ~Primary \/ (~doit /\ env.handler = "old") THEN notify
              ELSE [n \in Nicks |-> IF notify[n] = "off" \/ marks[n] = "off"
                                    THEN notify[n] ELSE marks[n]]

Only(n, flag) == [m \in Nicks |-> IF m = n THEN flag ELSE "off"]

(* thing->func(whois_stuff, thing->nick, thing->text) of the WHOIS at the    *)
(* head: only whois_notify() changes state                                   *)
CallFunc ==
    IF Head(queue).func = "whois_notify" THEN NotifyMark(Only(stuff, "here"), TRUE)
    ELSE UNCHANGED notify

(* 311: whois_name() *)
WhoisName ==
    /\ Got("311") /\ Read
    /\ crap' = HeadAwaits(Nick)
    /\ stuff' = IF HeadAwaits(Nick) THEN Nick ELSE stuff
    /\ UNCHANGED <<queue, whois, has262, notify, open, crashed, asked, requests, online>>

(* 314: whowas_name() *)
WhowasName ==
    /\ Got("314") /\ Read
    /\ crap' = HeadAwaits(Nick)
    /\ stuff' = IF HeadAwaits(Nick) THEN Nick ELSE stuff
    /\ UNCHANGED <<queue, whois, has262, notify, open, crashed, asked, requests, online>>

(* 317 and the other lines of a WHOIS are shown unless crap. *)
WhoisLastcom ==
    /\ Got("317") /\ Read
    /\ UNCHANGED <<client, requests, online>>

(* Mutant: ignore_whois_crap stays set after the request it was set for. *)
EndOfWhoisShown ==
    /\ Got("318") /\ Read
    /\ whois' = TRUE
    /\ IF HeadAwaits(Nick)
       THEN queue' = Tail(queue) /\ CallFunc
       ELSE UNCHANGED <<queue, notify>>
    /\ UNCHANGED <<crap, has262, stuff, open, crashed, asked, requests, online>>

(* 318: end_of_whois() *)
EndOfWhois ==
    /\ Got("318") /\ Read
    /\ whois' = TRUE
    /\ IF HeadAwaits(Nick)
       THEN queue' = Tail(queue) /\ crap' = FALSE /\ CallFunc
       ELSE UNCHANGED <<queue, crap, notify>>
    /\ UNCHANGED <<has262, stuff, open, crashed, asked, requests, online>>

(* 401 for !nick: the end of a WHOIS on a server without 318 *)
DummyAnswered ==
    /\ Got("401 !") /\ Read
    /\ IF HeadAwaits(Nick)
       THEN queue' = Tail(queue) /\ crap' = FALSE /\ CallFunc
       ELSE UNCHANGED <<queue, crap, notify>>
    /\ UNCHANGED <<whois, has262, stuff, open, crashed, asked, requests, online>>

(* 401: no_such_nickname() *)
NoSuchNickname ==
    /\ Got("401") /\ Read
    /\ NotifyMark(Only(Nick, "gone"), FALSE)
    /\ IF HeadAwaits(Nick) /\ TypeHead = "ISON2"
       THEN queue' = Tail(queue) /\ crap' = FALSE
       ELSE UNCHANGED <<queue, crap>>
    /\ UNCHANGED <<whois, has262, stuff, open, crashed, asked, requests, online>>

(* Mutant: the walk moves on in both lists at each step. *)
IsonMarksSideBySide(askedFor, areOn) ==
    [n \in Nicks |->
        IF \A k \in DOMAIN askedFor : askedFor[k] # n THEN "off"
        ELSE IF \E k \in DOMAIN askedFor \cap DOMAIN areOn : askedFor[k] = n /\ areOn[k] = n
        THEN "here" ELSE "gone"]

(* ison_notify(): walk the nicks asked about and the nicks got side by side; *)
(* passed[k] is how many of the latter the first k of the former used up.    *)
IsonMarks(askedFor, areOn) ==
    LET fits(k, used) == used < Len(areOn) /\ askedFor[k] = areOn[used + 1]
        passed[k \in 0 .. Len(askedFor)] ==
            IF k = 0 THEN 0
            ELSE passed[k-1] + (IF fits(k, passed[k-1]) THEN 1 ELSE 0)
    IN  [n \in Nicks |->
            IF \A k \in DOMAIN askedFor : askedFor[k] # n THEN "off"
            ELSE IF \E k \in DOMAIN askedFor : askedFor[k] = n /\ passed[k] > passed[k-1]
            THEN "here" ELSE "gone"]

(* Mutant: an answer that names nobody is not taken for one. *)
IsonReturnedSomebody ==
    /\ Got("303") /\ Read
    /\ IF TypeHead = "ISON" /\ Head(replies).on # <<>>
       THEN /\ queue' = Tail(queue)
            /\ IF Head(queue).func = "ison_notify"
               THEN NotifyMark(IsonMarks(Head(queue).who, Head(replies).on), TRUE)
               ELSE UNCHANGED notify
       ELSE UNCHANGED <<queue, notify>>
    /\ UNCHANGED <<whois, has262, stuff, crap, open, crashed, asked, requests, online>>

(* 303: ison_returned() *)
IsonReturned ==
    /\ Got("303") /\ Read
    /\ IF TypeHead = "ISON"
       THEN /\ queue' = Tail(queue)
            /\ IF Head(queue).func = "ison_notify"
               THEN NotifyMark(IsonMarks(Head(queue).who, Head(replies).on), TRUE)
               ELSE UNCHANGED notify
       ELSE UNCHANGED <<queue, notify>>
    /\ UNCHANGED <<whois, has262, stuff, crap, open, crashed, asked, requests, online>>

(* 302: userhost_returned().  For -CMD it fills whois_stuff before the call. *)
UserhostReturned ==
    /\ Got("302") /\ Read
    /\ IF TypeHead = "USERHOST"
       THEN /\ queue' = Tail(queue)
            /\ stuff' = IF Head(queue).func = "userhost_cmd" THEN HeadNick ELSE stuff
       ELSE UNCHANGED <<queue, stuff>>
    /\ UNCHANGED <<whois, has262, crap, notify, open, crashed, asked, requests, online>>

(* convert_to_whois().  whois_type_head() says -1 of an empty queue, and     *)
(* -1 has every bit of the mask.  An ISON has none: it stays.  A USERHOST is *)
(* queued again with its own func, which makes it a USERHOST again (the same *)
(* request: it keeps its number).  A WHOIS is dropped.                       *)
ConvertToWhois ==
    \/ /\ TypeHead = "none"
       /\ crashed' = TRUE
       /\ UNCHANGED <<queue, requests>>
    \/ /\ TypeHead = "ISON"
       /\ UNCHANGED <<crashed, queue, requests>>
    \/ /\ TypeHead = "USERHOST"
       /\ queue' = Append(Tail(queue), Head(queue))
       /\ requests' = requests \o Sent("USERHOST", Head(queue).id, Head(queue).who)
       /\ UNCHANGED crashed
    \/ /\ TypeHead \in {"WHOIS", "ISON2"}
       /\ queue' = Tail(queue)
       /\ UNCHANGED <<crashed, requests>>

(* 421 *)
UnknownCommand ==
    /\ Got("421 ISON") \/ Got("421 USERHOST")
    /\ Read
    /\ has262' = FALSE
    /\ ConvertToWhois
    /\ UNCHANGED <<whois, stuff, crap, notify, open, asked, online>>

-----------------------------------------------------------------------------
(* The connection *)

(* close_server(), after EOF: it cleans only the primary server's queue. *)
Lose ==
    /\ env.breaks /\ open
    /\ open' = FALSE
    /\ requests' = <<>> /\ replies' = <<>>
    /\ IF Primary THEN queue' = <<>> /\ crap' = FALSE ELSE UNCHANGED <<queue, crap>>
    /\ UNCHANGED <<whois, has262, stuff, notify, crashed, asked, online>>

(* 001, which cleans the queue, and 002, from which on it may be used *)
Welcome ==
    /\ ~open
    /\ open' = TRUE
    /\ queue' = <<>> /\ crap' = FALSE
    /\ UNCHANGED <<whois, has262, stuff, notify, crashed, asked, wires, online>>

(* clean_whois_queue() cleans the queue of from_server, also where it is     *)
(* called because another server, the primary one, was closed by a command.  *)
CleanWhoisQueue ==
    /\ env.disturbed /\ open
    /\ queue' = <<>> /\ crap' = FALSE
    /\ UNCHANGED <<whois, has262, stuff, notify, open, crashed, asked, wires, online>>

-----------------------------------------------------------------------------
Init ==
    /\ queue = <<>> /\ requests = <<>> /\ replies = <<>>
    /\ whois = FALSE /\ has262 = TRUE
    /\ stuff = NoNick /\ crap = FALSE
    /\ notify = [n \in Nicks |-> "off"]
    /\ open = TRUE /\ crashed = FALSE
    /\ asked = 0
    /\ online \in SUBSET Nicks
    /\ env \in Settings

Asks ==
    /\ asked < MaxAsked
    /\ \E n \in Nicks :
          \/ \E f \in Funcs : Ask(f, n)
          \/ \E c \in Raw : AskRaw(c, n)
          \/ NotifyAdd(n)
          \/ DoNotify

Receive ==
    \/ WhoisName \/ WhowasName \/ WhoisLastcom \/ EndOfWhois
    \/ DummyAnswered \/ NoSuchNickname
    \/ IsonReturned \/ UserhostReturned \/ UnknownCommand

Next ==
    /\ ~crashed /\ UNCHANGED env
    /\ \/ Asks
       \/ Receive
       \/ ServerAnswers
       \/ \E n \in Nicks : NotifyRemove(n) \/ Sign(n)
       \/ Lose \/ Welcome \/ CleanWhoisQueue

Spec == Init /\ [][Next]_vars

(* The server answers what it has read, and the main loop reads what has    *)
(* arrived; a lost connection need not come back.                           *)
Live(A) == ~crashed /\ A /\ UNCHANGED env
WhoisFairness == WF_vars(Live(ServerAnswers)) /\ WF_vars(Live(Receive))
FairSpec == Spec /\ WhoisFairness

-----------------------------------------------------------------------------
TypeOK ==
    /\ queue \in Seq(Entry) /\ requests \in Seq(Request) /\ replies \in Seq(Reply)
    /\ {whois, has262, crap, open, crashed} \subseteq BOOLEAN
    /\ stuff \in Nicks \cup {NoNick}
    /\ notify \in [Nicks -> {"off", "here", "gone"}]
    /\ asked \in 0 .. MaxAsked
    /\ online \subseteq Nicks
    /\ env \in Settings

(* A server that knows the commands, a queue cleaned for its own sake, and a *)
(* user who does not send a USERHOST past the queue.                         *)
Undisturbed == KnowsAll /\ ~env.disturbed /\ "quote USERHOST" \notin Questions

(* The handlers tell two answers about the same person apart only if there is *)
(* nothing but dummy queries to end them.                                      *)
Unmistakable == env.distinct \/ ~SendsEnd

(* Every queued request is still owed the answer that will take it off the  *)
(* queue: a lost or refused answer would leave it at the head for ever, and  *)
(* everything behind it (end_of_whois(), ison_returned() and the others look *)
(* at the head only).                                                        *)
Ends(r) ==
    \/ r.cmd \in {"ISON", "USERHOST"}
    \/ r.cmd = IF SendsEnd THEN "WHOIS" ELSE "WHOIS !"

EndNums == {"302", "303", IF SendsEnd THEN "318" ELSE "401 !"}

NeverStuck ==
    open /\ Undisturbed /\ Unmistakable => \A k \in DOMAIN queue :
        \/ \E j \in DOMAIN requests : requests[j].id = queue[k].id /\ Ends(requests[j])
        \/ \E j \in DOMAIN replies : replies[j].id = queue[k].id /\ replies[j].num \in EndNums

(* The answers to ISON and USERHOST name nobody the code compares: whatever  *)
(* ison_returned() and userhost_returned() take off the queue must be the    *)
(* request that was answered.                                                *)
OwnList ==
    Undisturbed /\ \/ Got("303") /\ TypeHead = "ISON"
                   \/ Got("302") /\ TypeHead = "USERHOST"
        => Head(queue).id = Head(replies).id

(* The end of a WHOIS, 318 or the answer to the dummy query, ends the        *)
(* request it belongs to and not a later one for the same nick, and the func *)
(* is called with what the server said of that person, if he is on.          *)
OwnAnswer ==
    /\ Undisturbed /\ Unmistakable
    /\ Got("318") \/ Got("401 !")
    /\ HeadAwaits(Nick)
    => /\ Head(queue).id = Head(replies).id
       /\ Got("318") /\ Head(replies).on # <<>> => stuff = Nick

(* Answers carry no request: each that comes ends the request it is for, and *)
(* each request has one to come (whois.c walks only the head of its queue).  *)
QueueInStep == NeverStuck /\ OwnList /\ OwnAnswer

(* Lines of a WHOIS are kept from the user only while the head of the queue  *)
(* is the request they belong to: otherwise what the user asked for would    *)
(* disappear (whois_oper(), whois_lastcom(), whois_chop()).                  *)
SwallowOnlyForHead == KnowsAll /\ crap => HeadAwaits(stuff)

(* convert_to_whois() finds an entry to convert. *)
HeadToConvert == ~crashed

(* After the answer to an ISON of the notify list, those of its nicks which  *)
(* are on the list are marked as the server said (ison_notify(),             *)
(* notify_mark()).                                                           *)
MarksAreAnswers ==
    [][LET r == Head(replies)
       IN  Undisturbed /\ IsonReturned /\ TypeHead = "ISON" /\ Head(queue).func = "ison_notify"
           => \A k \in DOMAIN r.who :
                  notify[r.who[k]] = "off"
                  \/ notify'[r.who[k]] = IF \E j \in DOMAIN r.on : r.on[j] = r.who[k]
                                         THEN "here" ELSE "gone"]_vars

(* Every request leaves the queue. *)
Queued(i) == \E k \in DOMAIN queue : queue[k].id = i
RequestsEnd == \A i \in UNION {1 .. e.most : e \in Settings} : Queued(i) ~> ~Queued(i)
=============================================================================
