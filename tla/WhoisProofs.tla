---------------------------- MODULE WhoisProofs ----------------------------
(***************************************************************************)
(* SwallowOnlyForHead and QueueInStep for every number of people and       *)
(* requests, and however people come and go, connections break and queues  *)
(* are cleaned, on a server that knows ISON and USERHOST.                  *)
(*                                                                         *)
(* The argument for the first: ignore_whois_crap is set only by a line     *)
(* that names the head of the queue; requests are only ever added behind   *)
(* that head; every action that takes a WHOIS off the queue clears the     *)
(* flag, but for convert_to_whois(), which such a server never has called  *)
(* (NoUnknown).  For the second, the numbers of the requests rise along    *)
(* the queue and along the two streams, every entry has the message that   *)
(* will end it on the way, and the messages that end an entry without      *)
(* naming it are there only while it is queued (InStep).                   *)
(***************************************************************************)
EXTENDS Whois, TLAPS

(* What is queued and sent matters only as far as it is a sequence. *)
IsSeq(s) == \E S : s \in Seq(S)

Cmds == {"WHOIS", "WHOIS !", "WHOWAS", "ISON", "USERHOST"}
Unknown == {"421 ISON", "421 USERHOST"}

KnownCmds == \A k \in 1 .. Len(requests) : requests[k].cmd \in Cmds
NoUnknown == \A k \in 1 .. Len(replies) : replies[k].num \notin Unknown

(* The property without its condition. *)
KeptForHead == crap => HeadAwaits(stuff)

SwallowInv ==
    /\ IsSeq(queue) /\ IsSeq(requests) /\ IsSeq(replies)
    /\ KnownCmds /\ NoUnknown
    /\ KeptForHead

-----------------------------------------------------------------------------
(* A request added at the end leaves the head as it is. *)
LEMMA AppendKeepsHead ==
    ASSUME NEW s, IsSeq(s), NEW e
    PROVE  /\ IsSeq(Append(s, e))
           /\ s # <<>> => Append(s, e) # <<>> /\ Head(Append(s, e)) = Head(s)
<1>1. PICK S : s \in Seq(S)
  BY DEF IsSeq
<1>2. s \in Seq(S \cup {e}) /\ Append(s, e) \in Seq(S \cup {e})
  BY <1>1
<1> QED
  BY <1>2 DEF IsSeq

(* Taking the first message off a stream leaves a stream of its messages. *)
LEMMA TailIsSeq ==
    ASSUME NEW s, IsSeq(s), s # <<>>
    PROVE  /\ IsSeq(Tail(s))
           /\ \A k \in 1 .. Len(Tail(s)) : k + 1 \in 1 .. Len(s) /\ Tail(s)[k] = s[k+1]
           /\ 1 \in 1 .. Len(s) /\ Head(s) = s[1]
<1>1. PICK S : s \in Seq(S)
  BY DEF IsSeq
<1> QED
  BY <1>1 DEF IsSeq

(* Messages added to a stream: each is an old one or one of the new. *)
LEMMA ConcatIsSeq ==
    ASSUME NEW s, IsSeq(s), NEW t, IsSeq(t)
    PROVE  /\ IsSeq(s \o t)
           /\ \A k \in 1 .. Len(s \o t) :
                 \/ k \in 1 .. Len(s) /\ (s \o t)[k] = s[k]
                 \/ k - Len(s) \in 1 .. Len(t) /\ (s \o t)[k] = t[k - Len(s)]
<1>1. PICK S : s \in Seq(S)
  BY DEF IsSeq
<1>2. PICK T : t \in Seq(T)
  BY DEF IsSeq
<1>3. s \in Seq(S \cup T) /\ t \in Seq(S \cup T)
  BY <1>1, <1>2
<1> QED
  BY <1>3 DEF IsSeq

(* A sequence of one message. *)
LEMMA Singleton ==
    ASSUME NEW e
    PROVE  IsSeq(<<e>>) /\ Len(<<e>>) = 1 /\ <<e>>[1] = e
<1>1. <<e>> \in Seq({e})
  OBVIOUS
<1> QED
  BY <1>1 DEF IsSeq

(* The empty sequence, the state of every stream after a disconnection. *)
LEMMA EmptyIsSeq == IsSeq(<<>>) /\ Len(<<>>) = 0
<1>1. <<>> \in Seq({})
  OBVIOUS
<1> QED
  BY <1>1 DEF IsSeq

(* What an entry sends consists of known commands. *)
LEMMA SentKnown ==
    ASSUME NEW type, NEW id, NEW who
    PROVE  /\ IsSeq(Sent(type, id, who))
           /\ \A k \in 1 .. Len(Sent(type, id, who)) : Sent(type, id, who)[k].cmd \in Cmds
<1> DEFINE One(cmd) == <<Message(cmd, id, who)>>
           Fine(s) == IsSeq(s) /\ \A k \in 1 .. Len(s) : s[k].cmd \in Cmds
<1>1. ASSUME NEW cmd \in Cmds PROVE Fine(One(cmd))
  <2>1. Message(cmd, id, who).cmd \in Cmds
    BY DEF Message
  <2> QED
    BY <2>1, Singleton
<1> DEFINE dummy == IF whois THEN <<>> ELSE One("WHOIS !")
<1>2. Fine(One("WHOIS")) /\ Fine(dummy)
  <2>1. Fine(<<>>)
    BY EmptyIsSeq
  <2>2. "WHOIS" \in Cmds /\ "WHOIS !" \in Cmds
    BY DEF Cmds
  <2> HIDE DEF One, Fine
  <2> QED
    BY <1>1, <2>1, <2>2
<1>3. CASE type \in {"ISON", "USERHOST"}
  <2>1. Sent(type, id, who) = <<Message(type, id, who)>> /\ type \in Cmds
    BY <1>3 DEF Sent, Cmds
  <2> QED
    BY <1>1, <2>1
<1>4. CASE type \notin {"ISON", "USERHOST"}
  <2>1. Sent(type, id, who) = One("WHOIS") \o dummy
    BY <1>4 DEF Sent
  <2> HIDE DEF One, dummy
  <2> QED
    BY <1>2, <2>1, ConcatIsSeq
<1> QED
  BY <1>3, <1>4

(* A server that knows both commands never says 421. *)
LEMMA AnswerKnown ==
    ASSUME KnowsAll, NEW r, r.cmd \in Cmds
    PROVE  /\ IsSeq(AnswerTo(r))
           /\ \A k \in 1 .. Len(AnswerTo(r)) : AnswerTo(r)[k].num \notin Unknown
<1> DEFINE one(num, on) == <<Answer(num, r, on)>>
           end(on) == IF SendsEnd THEN one("318", on) ELSE <<>>
           Fine(s) == IsSeq(s) /\ \A k \in 1 .. Len(s) : s[k].num \notin Unknown
           two == <<Answer("311", r, r.who), Answer("317", r, r.who)>>
<1>1. ASSUME NEW num, NEW on, num \notin Unknown PROVE Fine(one(num, on))
  <2>1. Answer(num, r, on).num = num
    BY DEF Answer
  <2> QED
    BY <1>1, <2>1, Singleton
<1>2. ASSUME NEW s, NEW t, Fine(s), Fine(t) PROVE Fine(s \o t)
  BY <1>2, ConcatIsSeq
<1>3. Fine(<<>>)
  BY EmptyIsSeq
<1>4. \A on : Fine(end(on)) /\ Fine(one("401", on)) /\ Fine(one("311", on)) /\ Fine(one("317", on))
  <2>1. "318" \notin Unknown /\ "401" \notin Unknown /\ "311" \notin Unknown /\ "317" \notin Unknown
    BY DEF Unknown
  <2> HIDE DEF one, Fine
  <2> QED
    BY <1>1, <1>3, <2>1
<1>5. Fine(two)
  <2>1. two = one("311", r.who) \o one("317", r.who)
    OBVIOUS
  <2> HIDE DEF one, two, Fine
  <2> QED
    BY <1>2, <1>4, <2>1
<1>6. AnswerTo(r) = IF r.cmd = "WHOIS"
                    THEN IF r.who[1] \in online THEN two \o end(r.who) ELSE one("401", <<>>) \o end(<<>>)
                    ELSE one(Numeric(r.cmd), SelectSeq(r.who, LAMBDA n : n \in online))
  BY DEF AnswerTo, WhoisLines
<1>7. r.cmd # "WHOIS" => Numeric(r.cmd) \notin Unknown
  BY DEF Numeric, Unknown, Cmds, KnowsAll
<1>8. Fine(AnswerTo(r))
  <2> HIDE DEF one, Fine, end, two
  <2> QED
    BY <1>1, <1>2, <1>4, <1>5, <1>6, <1>7
<1> QED
  BY <1>8

-----------------------------------------------------------------------------
(* An action that only adds behind the head and to the requests. *)
LEMMA EnqueueKeepsInv ==
    ASSUME SwallowInv, NEW func, NEW who, Enqueue(func, who),
           UNCHANGED <<stuff, crap, replies>>
    PROVE  SwallowInv'
<1> DEFINE e == [id |-> asked + 1, func |-> func, who |-> who]
           new == Sent(Type(func), asked + 1, who)
<1>1. queue' = Append(queue, e) /\ requests' = requests \o new
  BY DEF Enqueue
<1>2. IsSeq(new) /\ \A k \in 1 .. Len(new) : new[k].cmd \in Cmds
  BY SentKnown
<1> HIDE DEF e, new
<1>3. IsSeq(queue') /\ (queue # <<>> => queue' # <<>> /\ Head(queue') = Head(queue))
  BY <1>1, AppendKeepsHead DEF SwallowInv
<1>4. IsSeq(requests') /\ KnownCmds'
  BY <1>1, <1>2, ConcatIsSeq DEF SwallowInv, KnownCmds
<1>5. KeptForHead'
  BY <1>3 DEF SwallowInv, KeptForHead, HeadAwaits, TypeHead, HeadNick
<1> QED
  BY <1>3, <1>4, <1>5 DEF SwallowInv, NoUnknown

(* Reading a reply leaves the streams what they were, and the reply read is  *)
(* not a 421.                                                                *)
LEMMA ReadKeepsStreams ==
    ASSUME SwallowInv, replies # <<>>, Read, UNCHANGED requests
    PROVE  /\ IsSeq(requests') /\ IsSeq(replies') /\ KnownCmds' /\ NoUnknown'
           /\ Head(replies).num \notin Unknown
  BY TailIsSeq DEF SwallowInv, Read, KnownCmds, NoUnknown

(* Taking the head off the queue and clearing the flag, or neither. *)
LEMMA PopKeepsInv ==
    ASSUME SwallowInv, replies # <<>>, Read, UNCHANGED <<requests, stuff>>,
           \/ queue # <<>> /\ queue' = Tail(queue) /\ crap' = FALSE
           \/ UNCHANGED <<queue, crap>>
    PROVE  SwallowInv'
<1>1. /\ IsSeq(requests') /\ IsSeq(replies') /\ KnownCmds' /\ NoUnknown'
  BY ReadKeepsStreams
<1>2. IsSeq(queue')
  BY TailIsSeq DEF SwallowInv
<1>3. KeptForHead'
  BY DEF SwallowInv, KeptForHead, HeadAwaits, TypeHead, HeadNick
<1> QED
  BY <1>1, <1>2, <1>3 DEF SwallowInv

(* No handler of whois.c, and nothing the server or the user does, breaks    *)
(* the invariant.                                                            *)
LEMMA SwallowStep ==
    ASSUME KnowsAll, SwallowInv, [Next]_vars
    PROVE  SwallowInv'
<1> USE DEF client, wires, vars
<1>1. ASSUME NEW n \in Nicks, NEW f \in Funcs, Ask(f, n) PROVE SwallowInv'
  BY <1>1, EnqueueKeepsInv DEF Ask
<1>2. ASSUME NEW n \in Nicks, NEW c \in Raw, AskRaw(c, n) PROVE SwallowInv'
  <2> DEFINE m == Message(IF c = "quote USERHOST" THEN "USERHOST" ELSE c, asked + 1, <<n>>)
  <2>1. m.cmd \in Cmds
    BY DEF Message, Raw, Cmds
  <2>2. requests' = Append(requests, m) /\ UNCHANGED <<queue, stuff, crap, replies>>
    BY <1>2 DEF AskRaw
  <2> HIDE DEF m
  <2>3. PICK S : requests \in Seq(S)
    BY DEF SwallowInv, IsSeq
  <2>4. requests \in Seq(S \cup {m}) /\ requests' \in Seq(S \cup {m})
    BY <2>2, <2>3
  <2>5. KnownCmds'
    BY <2>1, <2>2, <2>4 DEF SwallowInv, KnownCmds
  <2> QED
    BY <2>2, <2>4, <2>5 DEF SwallowInv, IsSeq, NoUnknown, KeptForHead,
                            HeadAwaits, TypeHead, HeadNick
<1>3. ASSUME NEW n \in Nicks, NotifyAdd(n) PROVE SwallowInv'
  BY <1>3, EnqueueKeepsInv DEF NotifyAdd
<1>4. CASE DoNotify
  <2> DEFINE listed == SelectSeq(Alphabet, LAMBDA n : notify[n] # "off")
  <2>1. Enqueue("ison_notify", listed) /\ UNCHANGED <<stuff, crap, replies>>
    BY <1>4 DEF DoNotify
  <2> HIDE DEF listed
  <2> QED
    BY <2>1, EnqueueKeepsInv
<1>5. ASSUME WhoisName \/ WhowasName PROVE SwallowInv'
  <2>1. replies # <<>> /\ Read /\ UNCHANGED <<requests, queue>>
    BY <1>5 DEF WhoisName, WhowasName, Got
  <2>2. crap' = HeadAwaits(Nick) /\ stuff' = IF HeadAwaits(Nick) THEN Nick ELSE stuff
    BY <1>5 DEF WhoisName, WhowasName
  <2>3. crap' => HeadAwaits(Nick) /\ stuff' = Nick
    BY <2>2
  <2>4. KeptForHead'
    BY <2>1, <2>3 DEF KeptForHead, HeadAwaits, TypeHead, HeadNick
  <2> QED
    BY <2>1, <2>4, ReadKeepsStreams DEF SwallowInv
<1>6. ASSUME WhoisLastcom \/ EndOfWhois \/ DummyAnswered \/ NoSuchNickname PROVE SwallowInv'
  <2>1. replies # <<>> /\ Read /\ UNCHANGED <<requests, stuff>>
    BY <1>6 DEF WhoisLastcom, EndOfWhois, DummyAnswered, NoSuchNickname, Got
  <2>2. \/ queue # <<>> /\ queue' = Tail(queue) /\ crap' = FALSE
        \/ UNCHANGED <<queue, crap>>
    BY <1>6 DEF WhoisLastcom, EndOfWhois, DummyAnswered, NoSuchNickname, HeadAwaits, TypeHead
  <2> QED
    BY <2>1, <2>2, PopKeepsInv
<1>7. ASSUME IsonReturned \/ UserhostReturned PROVE SwallowInv'
  <2>1. replies # <<>> /\ Read /\ UNCHANGED <<requests, crap>>
    BY <1>7 DEF IsonReturned, UserhostReturned, Got
  <2>2. \/ TypeHead \in {"ISON", "USERHOST"} /\ queue # <<>> /\ queue' = Tail(queue)
        \/ UNCHANGED <<queue, stuff>>
    BY <1>7 DEF IsonReturned, UserhostReturned, TypeHead
  <2>3. TypeHead \in {"ISON", "USERHOST"} => ~crap
    BY DEF SwallowInv, KeptForHead, HeadAwaits
  <2>4. IsSeq(queue')
    BY <2>2, TailIsSeq DEF SwallowInv
  <2>5. KeptForHead'
    BY <2>1, <2>2, <2>3 DEF SwallowInv, KeptForHead, HeadAwaits, TypeHead, HeadNick
  <2> QED
    BY <2>1, <2>4, <2>5, ReadKeepsStreams DEF SwallowInv
<1>8. ASSUME UnknownCommand PROVE FALSE
  <2>1. replies # <<>> /\ Head(replies).num \in Unknown
    BY <1>8 DEF UnknownCommand, Got, Unknown
  <2>2. Head(replies) = replies[1] /\ 1 \in 1 .. Len(replies)
    BY <2>1, TailIsSeq DEF SwallowInv
  <2> QED
    BY <2>1, <2>2 DEF SwallowInv, NoUnknown
<1>9. CASE ServerAnswers
  <2> DEFINE r == Head(requests)
  <2>1. /\ requests # <<>> /\ requests' = Tail(requests)
        /\ replies' = replies \o AnswerTo(r)
        /\ UNCHANGED <<queue, stuff, crap>>
    BY <1>9 DEF ServerAnswers
  <2>2. r.cmd \in Cmds
    BY <2>1, TailIsSeq DEF SwallowInv, KnownCmds
  <2>3. /\ IsSeq(AnswerTo(r))
        /\ \A k \in 1 .. Len(AnswerTo(r)) : AnswerTo(r)[k].num \notin Unknown
    BY <2>2, AnswerKnown
  <2> HIDE DEF r
  <2>4. IsSeq(requests') /\ KnownCmds'
    BY <2>1, TailIsSeq DEF SwallowInv, KnownCmds
  <2>5. IsSeq(replies') /\ NoUnknown'
    BY <2>1, <2>3, ConcatIsSeq, SMTT(30) DEF SwallowInv, NoUnknown
  <2> QED
    BY <2>1, <2>4, <2>5 DEF SwallowInv, KeptForHead, HeadAwaits, TypeHead, HeadNick
<1>10. ASSUME NEW n \in Nicks, NotifyRemove(n) \/ Sign(n) PROVE SwallowInv'
  BY <1>10 DEF NotifyRemove, Sign, SwallowInv, KnownCmds, NoUnknown, KeptForHead,
               HeadAwaits, TypeHead, HeadNick
<1>11. ASSUME Lose \/ Welcome \/ CleanWhoisQueue PROVE SwallowInv'
  <2>1. /\ (requests' = <<>> /\ replies' = <<>>) \/ UNCHANGED <<requests, replies>>
        /\ (queue' = <<>> /\ crap' = FALSE) \/ UNCHANGED <<queue, crap>>
        /\ UNCHANGED stuff
    BY <1>11 DEF Lose, Welcome, CleanWhoisQueue
  <2>2. IsSeq(requests') /\ IsSeq(replies') /\ KnownCmds' /\ NoUnknown'
    BY <2>1, EmptyIsSeq DEF SwallowInv, KnownCmds, NoUnknown
  <2>3. IsSeq(queue') /\ KeptForHead'
    BY <2>1, EmptyIsSeq DEF SwallowInv, KeptForHead, HeadAwaits, TypeHead, HeadNick
  <2> QED
    BY <2>2, <2>3 DEF SwallowInv
<1>12. CASE UNCHANGED vars
  BY <1>12 DEF SwallowInv, KnownCmds, NoUnknown, KeptForHead, HeadAwaits,
               TypeHead, HeadNick
<1> QED
  BY <1>1, <1>2, <1>3, <1>4, <1>5, <1>6, <1>7, <1>8, <1>9, <1>10, <1>11, <1>12
     DEF Next, Asks, Receive

(* Lines of a WHOIS are kept from the user only while the request at the     *)
(* head of the queue is about the person they describe.                      *)
THEOREM SwallowedLinesAreTheHeads == Spec => []SwallowOnlyForHead
<1> DEFINE Inv == KnowsAll => SwallowInv
<1>1. Init => Inv
  BY EmptyIsSeq DEF Init, SwallowInv, KnownCmds, NoUnknown, KeptForHead
<1>2. Inv /\ [Next]_vars => Inv'
  <2> SUFFICES ASSUME Inv, [Next]_vars, KnowsAll' PROVE SwallowInv'
    OBVIOUS
  <2>1. KnowsAll
    BY DEF KnowsAll, Knows, Next, vars
  <2> QED
    BY <2>1, SwallowStep
<1>3. Inv => SwallowOnlyForHead
  BY DEF SwallowInv, KeptForHead, SwallowOnlyForHead
<1> HIDE DEF Inv
<1> QED
  BY <1>1, <1>2, <1>3, PTL DEF Spec
-----------------------------------------------------------------------------
(* QueueInStep: in a client whose queue is not disturbed, the answers come   *)
(* in the order of the queue.                                                *)

(* What a message is about, as the type of an entry *)
CmdType(cmd) == IF cmd \in {"WHOIS", "WHOIS !"} THEN "WHOIS" ELSE cmd

NumType(num) ==
    IF num \in {"311", "317", "318", "401", "401 !"} THEN "WHOIS"
    ELSE IF num = "303" THEN "ISON"
    ELSE IF num = "302" THEN "USERHOST"
    ELSE IF num = "314" THEN "WHOWAS"
    ELSE "nothing"

(* Messages that are in flight only while their entry is queued *)
OwnRequest(m) == m.cmd \in {"ISON", "USERHOST"} \/ (~SendsEnd /\ m.cmd = "WHOIS !")
OwnReply(m)   == m.num \in {"303", "302"} \/ (~SendsEnd /\ m.num = "401 !")

IsQueued(q, id) == \E k \in 1 .. Len(q) : q[k].id = id

(* The queue is in the order it was asked. *)
QueueRises(q, n) ==
    \A i \in 1 .. Len(q) :
        /\ q[i].id \in 1 .. n /\ Type(q[i].func) \in {"WHOIS", "ISON", "USERHOST"}
        /\ \A j \in 1 .. Len(q) : i < j => q[i].id < q[j].id

(* So are the messages in flight, where an entry has one message of its own. *)
RequestsRise(s, n) ==
    \A i \in 1 .. Len(s) :
        /\ s[i].id \in 1 .. n /\ s[i].cmd \in Cmds
        /\ \A j \in 1 .. Len(s) : i < j =>
              /\ s[i].id <= s[j].id
              /\ OwnRequest(s[i]) /\ OwnRequest(s[j]) => s[i].id < s[j].id

RepliesRise(t, n) ==
    \A i \in 1 .. Len(t) :
        /\ t[i].id \in 1 .. n
        /\ \A j \in 1 .. Len(t) : i < j =>
              /\ t[i].id <= t[j].id
              /\ OwnReply(t[i]) /\ OwnReply(t[j]) => t[i].id < t[j].id

RepliesFirst(t, s) ==
    \A i \in 1 .. Len(t), j \in 1 .. Len(s) :
        /\ t[i].id <= s[j].id
        /\ OwnReply(t[i]) /\ OwnRequest(s[j]) => t[i].id < s[j].id

(* A message and the queue: it agrees with the entry it belongs to, which is *)
(* queued if the message is its own, and it is no older than an entry for    *)
(* the same person, if nobody is asked about twice at a time.                *)
Fits(q, id, who, type, own) ==
    /\ \A k \in 1 .. Len(q) : q[k].id = id => q[k].who = who /\ Type(q[k].func) = type
    /\ own => IsQueued(q, id)
    /\ env.distinct => \A k \in 1 .. Len(q) :
           Type(q[k].func) = "WHOIS" /\ q[k].who = who => q[k].id <= id
    /\ type = "WHOIS" => who = <<who[1]>>

RequestFits(q, m) == Fits(q, m.id, m.who, CmdType(m.cmd), OwnRequest(m))

ReplyFits(q, m) ==
    /\ Fits(q, m.id, m.who, NumType(m.num), OwnReply(m))
    /\ m.num \notin Unknown /\ (m.num = "318" => SendsEnd)

(* The message that takes entry e off the queue is in flight. *)
EndComes(e, s, t) ==
    \/ \E j \in 1 .. Len(s) : s[j].id = e.id /\ Ends(s[j])
    \/ \E j \in 1 .. Len(t) : t[j].id = e.id /\ t[j].num \in EndNums

(* Before the end of a WHOIS come the lines about the person, and when they  *)
(* have come, the name in them is known.                                     *)
LinesCome(t, k, q, known) ==
    t[k].num = "318" /\ t[k].on # <<>> =>
        /\ k >= 3 => /\ t[k-1].num = "317"
                     /\ t[k-2].num = "311" /\ t[k-2].id = t[k].id /\ t[k-2].who = t[k].who
        /\ k = 2 => t[k-1].num = "317"
        /\ k <= 2 /\ IsQueued(q, t[k].id) => known = t[k].who[1]

InStep(q, s, t, n, known) ==
    /\ IsSeq(q) /\ IsSeq(s) /\ IsSeq(t) /\ n \in Nat
    /\ QueueRises(q, n) /\ RequestsRise(s, n) /\ RepliesRise(t, n) /\ RepliesFirst(t, s)
    /\ \A j \in 1 .. Len(s) : RequestFits(q, s[j])
    /\ \A j \in 1 .. Len(t) : ReplyFits(q, t[j])
    /\ \A k \in 1 .. Len(q) : EndComes(q[k], s, t)
    /\ \A k \in 1 .. Len(t) : LinesCome(t, k, q, known)

StepInv ==
    /\ asked \in Nat /\ has262 /\ ~crashed /\ (whois => SendsEnd)
    /\ IF open THEN InStep(queue, requests, replies, asked, stuff)
       ELSE requests = <<>> /\ replies = <<>>

-----------------------------------------------------------------------------
(* The streams after a message is taken off, and after some are added *)
LEMMA TailShape ==
    ASSUME NEW s, IsSeq(s), s # <<>>
    PROVE  /\ IsSeq(Tail(s)) /\ Len(s) \in Nat /\ Len(s) >= 1 /\ Len(Tail(s)) = Len(s) - 1
           /\ Head(s) = s[1]
           /\ \A k \in 1 .. Len(Tail(s)) : k + 1 \in 1 .. Len(s) /\ Tail(s)[k] = s[k+1]
           /\ \A k \in 1 .. Len(s) : k = 1 \/ (k - 1 \in 1 .. Len(Tail(s)) /\ s[k] = Tail(s)[k-1])
<1>1. PICK S : s \in Seq(S)
  BY DEF IsSeq
<1>2. /\ Tail(s) \in Seq(S) /\ Len(s) \in Nat /\ Len(s) >= 1 /\ Len(Tail(s)) = Len(s) - 1
      /\ Head(s) = s[1]
  BY <1>1
<1>3. \A k \in 1 .. Len(Tail(s)) : Tail(s)[k] = s[k+1]
  BY <1>1
<1>4. /\ \A k \in 1 .. Len(Tail(s)) : k + 1 \in 1 .. Len(s)
      /\ \A k \in 1 .. Len(s) : k = 1 \/ (k - 1 \in 1 .. Len(Tail(s)) /\ (k - 1) + 1 = k)
  BY <1>2
<1>5. ASSUME NEW k \in 1 .. Len(s), k # 1 PROVE k - 1 \in 1 .. Len(Tail(s)) /\ s[k] = Tail(s)[k-1]
  <2>1. k - 1 \in 1 .. Len(Tail(s)) /\ (k - 1) + 1 = k
    BY <1>4, <1>5
  <2>2. Tail(s)[k-1] = s[(k-1)+1]
    BY <1>3, <2>1
  <2> QED
    BY <2>1, <2>2
<1>6. IsSeq(Tail(s))
  BY <1>2 DEF IsSeq
<1>7. \A k \in 1 .. Len(s) : k = 1 \/ (k - 1 \in 1 .. Len(Tail(s)) /\ s[k] = Tail(s)[k-1])
  BY <1>5, Zenon
<1>8. \A k \in 1 .. Len(Tail(s)) : k + 1 \in 1 .. Len(s) /\ Tail(s)[k] = s[k+1]
  BY <1>3, <1>4, Zenon
<1> QED
  BY <1>2, <1>6, <1>7, <1>8, Zenon

LEMMA ConcatShape ==
    ASSUME NEW s, IsSeq(s), NEW t, IsSeq(t)
    PROVE  /\ IsSeq(s \o t) /\ Len(s) \in Nat /\ Len(t) \in Nat /\ Len(s \o t) = Len(s) + Len(t)
           /\ \A k \in 1 .. Len(s) : (s \o t)[k] = s[k]
           /\ \A k \in 1 .. Len(t) : (s \o t)[Len(s) + k] = t[k]
           /\ \A k \in 1 .. Len(s \o t) :
                 \/ k \in 1 .. Len(s) /\ (s \o t)[k] = s[k]
                 \/ k - Len(s) \in 1 .. Len(t) /\ (s \o t)[k] = t[k - Len(s)]
<1>1. PICK S : s \in Seq(S)
  BY DEF IsSeq
<1>2. PICK T : t \in Seq(T)
  BY DEF IsSeq
<1>3. s \in Seq(S \cup T) /\ t \in Seq(S \cup T)
  BY <1>1, <1>2
<1> QED
  BY <1>3 DEF IsSeq

LEMMA AppendShape ==
    ASSUME NEW s, IsSeq(s), NEW e
    PROVE  /\ IsSeq(Append(s, e)) /\ Len(s) \in Nat /\ Len(Append(s, e)) = Len(s) + 1
           /\ \A k \in 1 .. Len(s) : Append(s, e)[k] = s[k]
           /\ Append(s, e)[Len(s) + 1] = e
           /\ Append(s, e) = s \o <<e>>
<1>1. PICK S : s \in Seq(S)
  BY DEF IsSeq
<1>2. s \in Seq(S \cup {e}) /\ Append(s, e) \in Seq(S \cup {e})
  BY <1>1
<1> QED
  BY <1>2 DEF IsSeq

(* The first answer that is in flight is no younger than the head of the     *)
(* queue; if its request is queued at all, it is the head.                   *)
LEMMA HeadIsNext ==
    ASSUME NEW q, NEW s, NEW t, NEW n, NEW known, InStep(q, s, t, n, known), q # <<>>, t # <<>>
    PROVE  /\ Head(t).id <= Head(q).id /\ Head(t).id \in Nat /\ Head(q).id \in Nat
           /\ IsQueued(q, Head(t).id) => Head(q).id = Head(t).id
           /\ Head(q) = q[1] /\ Head(t) = t[1] /\ 1 \in 1 .. Len(q) /\ 1 \in 1 .. Len(t)
<1>1. /\ Head(q) = q[1] /\ Len(q) \in Nat /\ Len(q) >= 1 /\ n \in Nat
      /\ Head(t) = t[1] /\ Len(t) \in Nat /\ Len(t) >= 1
  BY TailShape DEF InStep
<1>2. 1 \in 1 .. Len(q) /\ 1 \in 1 .. Len(t)
  BY <1>1
<1>3. t[1].id \in 1 .. n /\ q[1].id \in 1 .. n
  BY <1>2 DEF InStep, QueueRises, RepliesRise
<1>4. t[1].id <= q[1].id
  <2>1. EndComes(q[1], s, t)
    BY <1>2 DEF InStep
  <2>2. ASSUME NEW j \in 1 .. Len(s), s[j].id = q[1].id PROVE t[1].id <= q[1].id
    BY <1>2, <2>2 DEF InStep, RepliesFirst
  <2>3. ASSUME NEW j \in 1 .. Len(t), t[j].id = q[1].id PROVE t[1].id <= q[1].id
    <3>1. CASE j = 1
      BY <1>3, <2>3, <3>1
    <3>2. CASE j # 1
      <4>1. 1 < j
        BY <3>2, <1>1
      <4> QED
        BY <1>2, <2>3, <4>1 DEF InStep, RepliesRise
    <3> QED
      BY <3>1, <3>2
  <2> QED
    BY <2>1, <2>2, <2>3 DEF EndComes
<1>5. ASSUME NEW k \in 1 .. Len(q), q[k].id = t[1].id PROVE q[1].id = t[1].id
  <2>1. q[1].id <= q[k].id
    <3>1. CASE k = 1
      BY <1>3, <3>1
    <3>2. CASE k # 1
      <4>1. 1 < k
        BY <3>2, <1>1
      <4>2. q[1].id < q[k].id
        BY <1>2, <4>1 DEF InStep, QueueRises
      <4> QED
        BY <1>3, <1>5, <4>2
    <3> QED
      BY <3>1, <3>2
  <2> QED
    BY <1>3, <1>4, <1>5, <2>1
<1> QED
  BY <1>1, <1>2, <1>3, <1>4, <1>5 DEF IsQueued

-----------------------------------------------------------------------------
(* An answer that is read, with the effect it has on the queue: an end that  *)
(* is awaited takes its request off, and nothing else takes one off that has *)
(* a message of its own to come.                                             *)
Takes(q, q2, r) ==
    /\ q2 = q \/ (q # <<>> /\ q2 = Tail(q))
    /\ r.num \in EndNums /\ IsQueued(q, r.id) => q # <<>> /\ q2 = Tail(q)
    /\ q2 # q => \/ OwnReply(r) /\ Head(q).id = r.id
                 \/ SendsEnd /\ Type(Head(q).func) = "WHOIS"

(* The name in the line of a WHOIS is noted if the WHOIS is queued. *)
Notes(q, r, known, known2) ==
    /\ r.num = "311" /\ IsQueued(q, r.id) => known2 = r.who[1]
    /\ r.num = "317" => known2 = known

(* What is left in the queue was there before, younger than the old head. *)
LEMMA TailRises ==
    ASSUME NEW q, NEW n, IsSeq(q), n \in Nat, q # <<>>, QueueRises(q, n)
    PROVE  /\ QueueRises(Tail(q), n)
           /\ \A id : IsQueued(Tail(q), id) => IsQueued(q, id) /\ id > Head(q).id
           /\ \A id : IsQueued(q, id) => id = Head(q).id \/ IsQueued(Tail(q), id)
<1>1. /\ Len(q) \in Nat /\ Len(q) >= 1 /\ Len(Tail(q)) = Len(q) - 1 /\ Head(q) = q[1]
      /\ \A k \in 1 .. Len(Tail(q)) : k + 1 \in 1 .. Len(q) /\ Tail(q)[k] = q[k+1]
      /\ \A k \in 1 .. Len(q) : k = 1 \/ (k - 1 \in 1 .. Len(Tail(q)) /\ q[k] = Tail(q)[k-1])
  BY TailShape
<1>2. QueueRises(Tail(q), n)
  <2>1. ASSUME NEW i \in 1 .. Len(Tail(q)), NEW j \in 1 .. Len(Tail(q)), i < j
        PROVE  Tail(q)[i].id < Tail(q)[j].id
    <3>1. i + 1 < j + 1
      BY <2>1
    <3> QED
      BY <1>1, <3>1 DEF QueueRises
  <2>2. ASSUME NEW i \in 1 .. Len(Tail(q))
        PROVE  Tail(q)[i].id \in 1 .. n /\ Type(Tail(q)[i].func) \in {"WHOIS", "ISON", "USERHOST"}
    BY <1>1 DEF QueueRises
  <2> QED
    BY <2>1, <2>2 DEF QueueRises
<1>3. ASSUME NEW k \in 1 .. Len(Tail(q)) PROVE Tail(q)[k].id > q[1].id /\ IsQueued(q, Tail(q)[k].id)
  <2>1. 1 \in 1 .. Len(q) /\ k + 1 \in 1 .. Len(q) /\ 1 < k + 1 /\ Tail(q)[k] = q[k+1]
    BY <1>1
  <2>2. q[1].id < q[k+1].id /\ q[1].id \in Nat /\ q[k+1].id \in Nat
    BY <2>1 DEF QueueRises
  <2> QED
    BY <2>1, <2>2 DEF IsQueued
<1>4. ASSUME NEW k \in 1 .. Len(q) PROVE q[k].id = q[1].id \/ IsQueued(Tail(q), q[k].id)
  BY <1>1 DEF IsQueued
<1>5. ASSUME NEW id, IsQueued(Tail(q), id) PROVE IsQueued(q, id) /\ id > Head(q).id
  BY <1>1, <1>3, <1>5 DEF IsQueued
<1>6. ASSUME NEW id, IsQueued(q, id) PROVE id = Head(q).id \/ IsQueued(Tail(q), id)
  <2>1. PICK k \in 1 .. Len(q) : q[k].id = id
    BY <1>6 DEF IsQueued
  <2> QED
    BY <1>1, <1>4, <2>1
<1> QED
  BY <1>2, <1>5, <1>6

(* A message goes on to fit a queue that loses its head, unless that was the *)
(* entry it belongs to.                                                      *)
LEMMA TailFits ==
    ASSUME NEW q, NEW n, IsSeq(q), n \in Nat, q # <<>>, QueueRises(q, n),
           NEW id, NEW who, NEW type, NEW own, Fits(q, id, who, type, own),
           own => id # Head(q).id
    PROVE  Fits(Tail(q), id, who, type, own)
<1>1. \A k \in 1 .. Len(Tail(q)) : k + 1 \in 1 .. Len(q) /\ Tail(q)[k] = q[k+1]
  BY TailShape
<1>2. own => IsQueued(Tail(q), id)
  BY TailRises DEF Fits
<1> QED
  BY <1>1, <1>2 DEF Fits

(* Reading an answer keeps the queue in step. *)
LEMMA ReadInStep ==
    ASSUME NEW q, NEW s, NEW t, NEW n, NEW known, InStep(q, s, t, n, known), t # <<>>,
           NEW q2, Takes(q, q2, Head(t)), NEW known2, Notes(q, Head(t), known, known2)
    PROVE  InStep(q2, s, Tail(t), n, known2)
<1> DEFINE u == Tail(t)
<1>1. /\ IsSeq(q) /\ IsSeq(s) /\ IsSeq(t) /\ n \in Nat /\ QueueRises(q, n)
      /\ RequestsRise(s, n) /\ RepliesRise(t, n) /\ RepliesFirst(t, s)
  BY DEF InStep
<1>2. /\ IsSeq(u) /\ Len(t) \in Nat /\ Len(t) >= 1 /\ Len(u) = Len(t) - 1 /\ Head(t) = t[1]
      /\ \A k \in 1 .. Len(u) : k + 1 \in 1 .. Len(t) /\ u[k] = t[k+1]
      /\ \A k \in 1 .. Len(t) : k = 1 \/ (k - 1 \in 1 .. Len(u) /\ t[k] = u[k-1])
  BY <1>1, TailShape
<1> HIDE DEF u
<1>3. /\ IsSeq(q2) /\ QueueRises(q2, n)
      /\ \A id : IsQueued(q2, id) => IsQueued(q, id)
  BY <1>1, TailShape, TailRises DEF Takes
<1>4. RepliesRise(u, n)
  <2>1. ASSUME NEW i \in 1 .. Len(u), NEW j \in 1 .. Len(u), i < j
        PROVE  u[i].id <= u[j].id /\ (OwnReply(u[i]) /\ OwnReply(u[j]) => u[i].id < u[j].id)
    <3>1. i + 1 < j + 1 /\ i + 1 \in 1 .. Len(t) /\ j + 1 \in 1 .. Len(t) /\ u[i] = t[i+1] /\ u[j] = t[j+1]
      BY <1>2, <2>1
    <3> QED
      BY <1>1, <3>1 DEF RepliesRise
  <2> QED
    BY <1>1, <1>2, <2>1 DEF RepliesRise
<1>5. RepliesFirst(u, s)
  BY <1>1, <1>2 DEF RepliesFirst
<1>6. 1 \in 1 .. Len(t) /\ t[1].id \in 1 .. n
  BY <1>1, <1>2 DEF RepliesRise
(* An own message that is left does not belong to what was taken. *)
<1>7. ASSUME NEW x \in Nat, q2 # q, NEW type,
             \A k \in 1 .. Len(q) : q[k].id = x => Type(q[k].func) = type,
             type # "WHOIS" \/ ~SendsEnd, OwnReply(t[1]) => t[1].id < x
      PROVE  x # Head(q).id
  <2>1. q # <<>>
    BY <1>7 DEF Takes
  <2>2. Head(q) = q[1] /\ 1 \in 1 .. Len(q)
    BY <1>1, <2>1, TailShape
  <2>3. CASE OwnReply(t[1]) /\ Head(q).id = t[1].id
    BY <1>6, <1>7, <2>3
  <2>4. CASE SendsEnd /\ Type(Head(q).func) = "WHOIS"
    BY <1>7, <2>2, <2>4
  <2> QED
    BY <1>2, <1>7, <2>3, <2>4 DEF Takes
<1>8. \A j \in 1 .. Len(s) : RequestFits(q2, s[j])
  <2> SUFFICES ASSUME NEW j \in 1 .. Len(s) PROVE RequestFits(q2, s[j])
    OBVIOUS
  <2>1. RequestFits(q, s[j]) /\ s[j].id \in Nat
    BY <1>1 DEF InStep, RequestsRise
  <2>2. CASE q2 = q
    BY <2>1, <2>2
  <2>3. CASE q2 # q
    <3>1. OwnRequest(s[j]) => CmdType(s[j].cmd) # "WHOIS" \/ ~SendsEnd
      BY DEF OwnRequest, CmdType
    <3>2. OwnRequest(s[j]) /\ OwnReply(t[1]) => t[1].id < s[j].id
      BY <1>1, <1>6 DEF RepliesFirst
    <3>3. OwnRequest(s[j]) => s[j].id # Head(q).id
      BY <1>7, <2>1, <2>3, <3>1, <3>2 DEF RequestFits, Fits
    <3>4. q # <<>> /\ q2 = Tail(q)
      BY <2>3 DEF Takes
    <3> QED
      BY <1>1, <2>1, <3>3, <3>4, TailFits DEF RequestFits
  <2> QED
    BY <2>2, <2>3
<1>9. \A j \in 1 .. Len(u) : ReplyFits(q2, u[j])
  <2> SUFFICES ASSUME NEW j \in 1 .. Len(u) PROVE ReplyFits(q2, u[j])
    OBVIOUS
  <2>1. j + 1 \in 1 .. Len(t) /\ 1 < j + 1 /\ u[j] = t[j+1]
    BY <1>2
  <2>2. ReplyFits(q, u[j]) /\ u[j].id \in Nat
    BY <1>1, <2>1 DEF InStep, RepliesRise
  <2>3. CASE q2 = q
    BY <2>2, <2>3
  <2>4. CASE q2 # q
    <3>1. OwnReply(u[j]) => NumType(u[j].num) # "WHOIS" \/ ~SendsEnd
      BY DEF OwnReply, NumType
    <3>2. OwnReply(u[j]) /\ OwnReply(t[1]) => t[1].id < u[j].id
      BY <1>1, <1>6, <2>1 DEF RepliesRise
    <3>3. OwnReply(u[j]) => u[j].id # Head(q).id
      BY <1>7, <2>2, <2>4, <3>1, <3>2 DEF ReplyFits, Fits
    <3>4. q # <<>> /\ q2 = Tail(q)
      BY <2>4 DEF Takes
    <3>5. Fits(q2, u[j].id, u[j].who, NumType(u[j].num), OwnReply(u[j]))
      BY <1>1, <2>2, <3>3, <3>4, TailFits DEF ReplyFits
    <3> QED
      BY <2>2, <3>5 DEF ReplyFits
  <2> QED
    BY <2>3, <2>4
<1>10. ASSUME NEW k \in 1 .. Len(q), EndComes(q[k], s, t), IsQueued(q2, q[k].id)
       PROVE  EndComes(q[k], s, u)
  <2>1. CASE \E j \in 1 .. Len(s) : s[j].id = q[k].id /\ Ends(s[j])
    BY <2>1 DEF EndComes
  <2>2. ASSUME NEW j \in 1 .. Len(t), t[j].id = q[k].id, t[j].num \in EndNums
        PROVE  EndComes(q[k], s, u)
    <3>1. CASE j = 1
      <4>1. IsQueued(q, t[1].id) /\ t[1].num \in EndNums
        BY <2>2, <3>1 DEF IsQueued
      <4>2. q # <<>> /\ q2 = Tail(q)
        BY <1>2, <4>1 DEF Takes
      <4>3. Head(q).id = t[1].id
        BY <1>2, <4>1, <4>2, HeadIsNext
      <4>4. q[k].id > Head(q).id
        BY <1>1, <1>10, <4>2, TailRises
      <4> QED
        BY <1>6, <2>2, <3>1, <4>3, <4>4
    <3>2. CASE j # 1
      <4>1. j - 1 \in 1 .. Len(u) /\ t[j] = u[j-1]
        BY <1>2, <3>2
      <4> QED
        BY <2>2, <4>1 DEF EndComes
    <3> QED
      BY <3>1, <3>2
  <2> QED
    BY <1>10, <2>1, <2>2 DEF EndComes
<1>11. \A k \in 1 .. Len(q2) : EndComes(q2[k], s, u)
  <2> SUFFICES ASSUME NEW k \in 1 .. Len(q2) PROVE EndComes(q2[k], s, u)
    OBVIOUS
  <2>1. IsQueued(q2, q2[k].id)
    BY DEF IsQueued
  <2>2. CASE q2 = q
    BY <1>10, <2>1, <2>2 DEF InStep
  <2>3. CASE q # <<>> /\ q2 = Tail(q)
    <3>1. k + 1 \in 1 .. Len(q) /\ q2[k] = q[k+1]
      BY <1>1, <2>3, TailShape
    <3> QED
      BY <1>10, <2>1, <3>1 DEF InStep
  <2> QED
    BY <2>2, <2>3 DEF Takes
<1>12. \A k \in 1 .. Len(u) : LinesCome(u, k, q2, known2)
  <2> SUFFICES ASSUME NEW k \in 1 .. Len(u), u[k].num = "318", u[k].on # <<>>
               PROVE  LinesCome(u, k, q2, known2)
    BY DEF LinesCome
  <2>1. k + 1 \in 1 .. Len(t) /\ u[k] = t[k+1] /\ LinesCome(t, k + 1, q, known)
    BY <1>2 DEF InStep
  <2>2. CASE k >= 3
    <3>1. /\ k - 1 \in 1 .. Len(u) /\ k - 2 \in 1 .. Len(u) /\ (k + 1) - 1 = (k - 1) + 1
          /\ (k + 1) - 2 = (k - 2) + 1 /\ k + 1 >= 3 /\ k # 2 /\ ~(k <= 2)
      BY <1>2, <2>2
    <3>2. u[k-1] = t[(k + 1) - 1] /\ u[k-2] = t[(k + 1) - 2]
      BY <1>2, <3>1
    <3> QED
      BY <2>1, <3>1, <3>2 DEF LinesCome
  <2>3. CASE k = 2
    <3>1. t[2].num = "317" /\ t[1].num = "311" /\ t[1].id = u[2].id /\ t[1].who = u[2].who
      BY <2>1, <2>3 DEF LinesCome
    <3>2. u[1] = t[2]
      BY <1>2, <2>3
    <3>3. IsQueued(q2, u[2].id) => known2 = u[2].who[1]
      BY <1>2, <1>3, <3>1 DEF Notes
    <3> QED
      BY <2>3, <3>1, <3>2, <3>3 DEF LinesCome
  <2>4. CASE k = 1
    <3>1. t[1].num = "317" /\ (IsQueued(q, u[1].id) => known = u[1].who[1])
      BY <2>1, <2>4 DEF LinesCome
    <3>2. known2 = known
      BY <1>2, <3>1 DEF Notes
    <3> QED
      BY <1>3, <2>4, <3>1, <3>2 DEF LinesCome
  <2> QED
    BY <1>2, <2>2, <2>3, <2>4
<1> QED
  BY <1>1, <1>2, <1>3, <1>4, <1>5, <1>8, <1>9, <1>11, <1>12 DEF InStep, u

-----------------------------------------------------------------------------
(* Requests go out with the next number, behind all others. *)
LEMMA SendInStep ==
    ASSUME NEW q, NEW s, NEW t, NEW n, NEW known, InStep(q, s, t, n, known),
           NEW new, IsSeq(new),
           \A k \in 1 .. Len(new) : new[k].id = n + 1 /\ new[k].cmd \in Cmds,
           \A i, j \in 1 .. Len(new) : i < j => ~(OwnRequest(new[i]) /\ OwnRequest(new[j])),
           NEW q2, IsSeq(q2), QueueRises(q2, n + 1),
           \A id \in 1 .. n : IsQueued(q2, id) => IsQueued(q, id),
           \A k \in 1 .. Len(new) : RequestFits(q2, new[k]),
           \A j \in 1 .. Len(s) : RequestFits(q2, s[j]),
           \A j \in 1 .. Len(t) : ReplyFits(q2, t[j]),
           \A k \in 1 .. Len(q2) : EndComes(q2[k], s \o new, t)
    PROVE  InStep(q2, s \o new, t, n + 1, known)
<1> DEFINE u == s \o new
<1>1. /\ IsSeq(s) /\ IsSeq(t) /\ n \in Nat /\ n + 1 \in Nat
      /\ RequestsRise(s, n) /\ RepliesRise(t, n) /\ RepliesFirst(t, s)
  BY DEF InStep
<1>2. /\ IsSeq(u) /\ Len(s) \in Nat /\ Len(new) \in Nat
      /\ \A k \in 1 .. Len(u) :
            \/ k \in 1 .. Len(s) /\ u[k] = s[k]
            \/ k - Len(s) \in 1 .. Len(new) /\ u[k] = new[k - Len(s)]
  BY <1>1, ConcatShape
<1>3. /\ \A k \in 1 .. Len(s) : s[k].id \in 1 .. n
      /\ \A k \in 1 .. Len(t) : t[k].id \in 1 .. n
  BY DEF RequestsRise, RepliesRise, InStep
<1> HIDE DEF u
<1>4. RequestsRise(u, n + 1)
  <2>1. ASSUME NEW i \in 1 .. Len(u) PROVE u[i].id \in 1 .. n + 1 /\ u[i].cmd \in Cmds
    <3>1. CASE i \in 1 .. Len(s) /\ u[i] = s[i]
      BY <1>1, <3>1 DEF RequestsRise
    <3>2. CASE i - Len(s) \in 1 .. Len(new) /\ u[i] = new[i - Len(s)]
      BY <1>1, <3>2
    <3> QED
      BY <1>2, <3>1, <3>2
  <2>2. ASSUME NEW i \in 1 .. Len(u), NEW j \in 1 .. Len(u), i < j
        PROVE  u[i].id <= u[j].id /\ (OwnRequest(u[i]) /\ OwnRequest(u[j]) => u[i].id < u[j].id)
    <3>1. CASE i \in 1 .. Len(s) /\ u[i] = s[i]
      <4>1. CASE j \in 1 .. Len(s) /\ u[j] = s[j]
        BY <1>1, <2>2, <3>1, <4>1 DEF RequestsRise
      <4>2. CASE j - Len(s) \in 1 .. Len(new) /\ u[j] = new[j - Len(s)]
        BY <1>1, <1>3, <3>1, <4>2
      <4> QED
        BY <1>2, <4>1, <4>2
    <3>2. CASE i - Len(s) \in 1 .. Len(new) /\ u[i] = new[i - Len(s)]
      <4>1. j - Len(s) \in 1 .. Len(new) /\ u[j] = new[j - Len(s)] /\ i - Len(s) < j - Len(s)
        BY <1>2, <2>2, <3>2
      <4>2. u[i].id = n + 1 /\ u[j].id = n + 1 /\ ~(OwnRequest(u[i]) /\ OwnRequest(u[j]))
        BY <3>2, <4>1
      <4> QED
        BY <1>1, <4>2
    <3> QED
      BY <1>2, <3>1, <3>2
  <2> QED
    BY <2>1, <2>2 DEF RequestsRise
<1>5. RepliesRise(t, n + 1)
  BY <1>1 DEF RepliesRise
<1>6. RepliesFirst(t, u)
  <2> SUFFICES ASSUME NEW i \in 1 .. Len(t), NEW j \in 1 .. Len(u)
               PROVE  /\ t[i].id <= u[j].id
                      /\ OwnReply(t[i]) /\ OwnRequest(u[j]) => t[i].id < u[j].id
    BY DEF RepliesFirst
  <2>1. CASE j \in 1 .. Len(s) /\ u[j] = s[j]
    BY <1>1, <2>1 DEF RepliesFirst
  <2>2. CASE j - Len(s) \in 1 .. Len(new) /\ u[j] = new[j - Len(s)]
    BY <1>1, <1>3, <2>2, SMTT(30)
  <2> QED
    BY <1>2, <2>1, <2>2
<1>7. \A j \in 1 .. Len(u) : RequestFits(q2, u[j])
  BY <1>2
<1>8. \A k \in 1 .. Len(t) : LinesCome(t, k, q2, known)
  <2> SUFFICES ASSUME NEW k \in 1 .. Len(t) PROVE LinesCome(t, k, q2, known)
    OBVIOUS
  <2>1. LinesCome(t, k, q, known) /\ (IsQueued(q2, t[k].id) => IsQueued(q, t[k].id))
    BY <1>3 DEF InStep
  <2> QED
    BY <2>1 DEF LinesCome
<1> QED
  BY <1>1, <1>2, <1>4, <1>5, <1>6, <1>7, <1>8 DEF InStep, u

(* A new entry behind the others: what is in flight fits it if it is about   *)
(* somebody else.                                                            *)
LEMMA NewEntryFits ==
    ASSUME NEW q, NEW n, IsSeq(q), n \in Nat, QueueRises(q, n),
           NEW e, e.id = n + 1, Type(e.func) \in {"WHOIS", "ISON", "USERHOST"}
    PROVE  LET q2 == Append(q, e)
           IN  /\ IsSeq(q2) /\ QueueRises(q2, n + 1)
               /\ \A k \in 1 .. Len(q2) : (k \in 1 .. Len(q) /\ q2[k] = q[k]) \/ q2[k] = e
               /\ \A id \in 1 .. n : IsQueued(q2, id) <=> IsQueued(q, id)
               /\ IsQueued(q2, n + 1)
<1> DEFINE q2 == Append(q, e)
<1>1. /\ IsSeq(q2) /\ Len(q) \in Nat /\ Len(q2) = Len(q) + 1
      /\ \A k \in 1 .. Len(q) : q2[k] = q[k]
      /\ q2[Len(q) + 1] = e
  BY AppendShape, ZenonT(60)
<1> HIDE DEF q2
<1>2. \A k \in 1 .. Len(q2) : (k \in 1 .. Len(q) /\ q2[k] = q[k]) \/ (k = Len(q) + 1 /\ q2[k] = e)
  BY <1>1
<1>3. \A k \in 1 .. Len(q) : q[k].id \in 1 .. n
  BY DEF QueueRises
<1>4. QueueRises(q2, n + 1)
  <2>1. ASSUME NEW i \in 1 .. Len(q2)
        PROVE  q2[i].id \in 1 .. n + 1 /\ Type(q2[i].func) \in {"WHOIS", "ISON", "USERHOST"}
    BY <1>2 DEF QueueRises
  <2>2. ASSUME NEW i \in 1 .. Len(q2), NEW j \in 1 .. Len(q2), i < j
        PROVE  q2[i].id < q2[j].id
    <3>1. i \in 1 .. Len(q) /\ q2[i] = q[i]
      BY <1>1, <1>2, <2>2
    <3>2. CASE j \in 1 .. Len(q) /\ q2[j] = q[j]
      BY <2>2, <3>1, <3>2 DEF QueueRises
    <3>3. CASE q2[j] = e
      BY <1>3, <3>1, <3>3
    <3> QED
      BY <1>2, <3>2, <3>3
  <2> QED
    BY <2>1, <2>2 DEF QueueRises
<1>5. ASSUME NEW id \in 1 .. n PROVE IsQueued(q2, id) <=> IsQueued(q, id)
  <2>1. ASSUME NEW k \in 1 .. Len(q2), q2[k].id = id PROVE IsQueued(q, id)
    BY <1>2, <2>1 DEF IsQueued
  <2>2. ASSUME NEW k \in 1 .. Len(q), q[k].id = id PROVE IsQueued(q2, id)
    <3>1. k \in 1 .. Len(q2) /\ q2[k] = q[k]
      BY <1>1
    <3> QED
      BY <2>2, <3>1 DEF IsQueued
  <2> QED
    BY <2>1, <2>2 DEF IsQueued
<1>6. IsQueued(q2, n + 1)
  <2>1. Len(q) + 1 \in 1 .. Len(q2)
    BY <1>1
  <2> QED
    BY <1>1, <2>1 DEF IsQueued
<1> QED
  BY <1>1, <1>2, <1>4, <1>5, <1>6 DEF q2

LEMMA AppendFits ==
    ASSUME NEW q, NEW n, IsSeq(q), n \in Nat, QueueRises(q, n),
           NEW e, e.id = n + 1, Type(e.func) \in {"WHOIS", "ISON", "USERHOST"},
           NEW id \in 1 .. n, NEW who, NEW type, NEW own, Fits(q, id, who, type, own),
           env.distinct /\ Type(e.func) = "WHOIS" => e.who # who
    PROVE  Fits(Append(q, e), id, who, type, own)
<1> DEFINE q2 == Append(q, e)
<1>1. /\ \A k \in 1 .. Len(q2) : (k \in 1 .. Len(q) /\ q2[k] = q[k]) \/ q2[k] = e
      /\ IsQueued(q2, id) <=> IsQueued(q, id)
  BY NewEntryFits
<1> HIDE DEF q2
<1>2. \A k \in 1 .. Len(q2) : q2[k].id = id => q2[k].who = who /\ Type(q2[k].func) = type
  BY <1>1 DEF Fits
<1>3. own => IsQueued(q2, id)
  BY <1>1 DEF Fits
<1>4. env.distinct => \A k \in 1 .. Len(q2) :
          Type(q2[k].func) = "WHOIS" /\ q2[k].who = who => q2[k].id <= id
  BY <1>1 DEF Fits
<1> QED
  BY <1>2, <1>3, <1>4 DEF Fits, q2

LEMMA PairShape ==
    ASSUME NEW x, NEW y
    PROVE  LET pair == <<x>> \o <<y>>
           IN  IsSeq(pair) /\ Len(pair) = 2 /\ pair[1] = x /\ pair[2] = y
<1> DEFINE one == <<x>>
           two == <<y>>
<1>1. /\ IsSeq(one) /\ Len(one) = 1 /\ one[1] = x
      /\ IsSeq(two) /\ Len(two) = 1 /\ two[1] = y
  BY Singleton
<1> HIDE DEF one, two
<1> DEFINE pair == one \o two
<1>2. /\ IsSeq(pair) /\ Len(pair) = Len(one) + Len(two) /\ \A k \in 1 .. Len(one) : pair[k] = one[k]
  BY <1>1, ConcatShape, ZenonT(60)
<1>3. \A k \in 1 .. Len(pair) :
            \/ k \in 1 .. Len(one) /\ pair[k] = one[k]
            \/ k - Len(one) \in 1 .. Len(two) /\ pair[k] = two[k - Len(one)]
  BY <1>1, ConcatIsSeq
<1> HIDE DEF pair
<1>4. 2 \in 1 .. Len(pair) /\ ~(2 \in 1 .. Len(one)) /\ 2 - Len(one) = 1
  BY <1>1, <1>2
<1>5. pair[2] = two[1]
  BY <1>3, <1>4
<1> QED
  BY <1>1, <1>2, <1>5 DEF one, two, pair

(* What an entry sends: one message that will take it off the queue, and     *)
(* perhaps another.                                                          *)
LEMMA SentShape ==
    ASSUME whois => SendsEnd, NEW type \in {"WHOIS", "ISON", "USERHOST"}, NEW id, NEW who
    PROVE  LET new == Sent(type, id, who)
           IN  /\ IsSeq(new)
               /\ \A k \in 1 .. Len(new) : /\ new[k].id = id /\ new[k].who = who
                                           /\ new[k].cmd \in Cmds /\ CmdType(new[k].cmd) = type
               /\ \A i, j \in 1 .. Len(new) : i < j => ~(OwnRequest(new[i]) /\ OwnRequest(new[j]))
               /\ \E k \in 1 .. Len(new) : Ends(new[k])
<1> DEFINE m(cmd) == Message(cmd, id, who)
           new == Sent(type, id, who)
<1>1. \A cmd : m(cmd).cmd = cmd /\ m(cmd).id = id /\ m(cmd).who = who
  BY DEF Message
<1> HIDE DEF m
<1>2. CASE type # "WHOIS"
  <2>1. new = <<m(type)>>
    BY <1>2 DEF Sent, m
  <2> HIDE DEF new
  <2>2. IsSeq(new) /\ Len(new) = 1 /\ new[1] = m(type)
    BY <2>1, Singleton
  <2>3. type \in Cmds /\ CmdType(type) = type /\ Ends(m(type))
    BY <1>1, <1>2 DEF Cmds, CmdType, Ends
  <2> QED
    BY <1>1, <2>2, <2>3 DEF new
<1>3. CASE type = "WHOIS" /\ whois
  <2>1. new = <<m("WHOIS")>> \o <<>>
    BY <1>3 DEF Sent, m
  <2> HIDE DEF new
  <2>3. IsSeq(new) /\ Len(new) = 1 /\ new[1] = m("WHOIS")
    BY <2>1, Singleton, EmptyIsSeq, ConcatShape
  <2>4. "WHOIS" \in Cmds /\ CmdType("WHOIS") = type /\ Ends(m("WHOIS"))
    BY <1>1, <1>3 DEF Cmds, CmdType, Ends
  <2> QED
    BY <1>1, <2>3, <2>4 DEF new
<1>4. CASE type = "WHOIS" /\ ~whois
  <2>1. new = <<m("WHOIS")>> \o <<m("WHOIS !")>>
    BY <1>4 DEF Sent, m
  <2> HIDE DEF new
  <2> DEFINE x == m("WHOIS")
             y == m("WHOIS !")
             pair == <<x>> \o <<y>>
  <2>2. IsSeq(pair) /\ Len(pair) = 2 /\ pair[1] = x /\ pair[2] = y
    <3> HIDE DEF x, y
    <3> QED
      BY PairShape
  <2>3. Len(new) = 2 /\ new[1] = m("WHOIS") /\ new[2] = m("WHOIS !")
    BY <2>1, <2>2
  <2>4. IsSeq(new)
    BY <2>1, <2>2
  <2>5. /\ "WHOIS" \in Cmds /\ CmdType("WHOIS") = type
        /\ "WHOIS !" \in Cmds /\ CmdType("WHOIS !") = type
        /\ ~OwnRequest(m("WHOIS"))
        /\ Ends(m("WHOIS")) \/ Ends(m("WHOIS !"))
    BY <1>1, <1>4 DEF Cmds, CmdType, Ends, OwnRequest
  <2>6. 1 .. Len(new) = {1, 2}
    <3>1. Len(new) = 2
      BY <2>3
    <3> HIDE DEF new
    <3> QED
      BY <3>1
  <2>7. \A k \in 1 .. Len(new) : /\ new[k].id = id /\ new[k].who = who
                                 /\ new[k].cmd \in Cmds /\ CmdType(new[k].cmd) = type
    BY <1>1, <2>3, <2>5, <2>6
  <2>8. \A i, j \in 1 .. Len(new) : i < j => ~(OwnRequest(new[i]) /\ OwnRequest(new[j]))
    <3> TAKE i, j \in 1 .. Len(new)
    <3> HAVE i < j
    <3>1. i = 1
      BY <2>6
    <3> QED
      BY <2>3, <2>5, <3>1
  <2>9. \E k \in 1 .. Len(new) : Ends(new[k])
    BY <2>3, <2>5, <2>6
  <2> QED
    BY <2>4, <2>7, <2>8, <2>9 DEF new
<1> QED
  BY <1>2, <1>3, <1>4

(* typed_add_to_whois_queue() keeps the queue in step. *)
LEMMA EnqueueInStep ==
    ASSUME InStep(queue, requests, replies, asked, stuff), whois => SendsEnd,
           NEW func, Type(func) \in {"WHOIS", "ISON", "USERHOST"},
           NEW who, Type(func) = "WHOIS" => who = <<who[1]>>,
           env.distinct /\ Type(func) = "WHOIS" =>
               /\ \A k \in 1 .. Len(requests) : requests[k].who # who
               /\ \A k \in 1 .. Len(replies) : replies[k].who # who,
           Enqueue(func, who)
    PROVE  InStep(queue', requests', replies, asked', stuff)
<1> DEFINE e == [id |-> asked + 1, func |-> func, who |-> who]
           new == Sent(Type(func), asked + 1, who)
           q2 == Append(queue, e)
<1>1. queue' = q2 /\ requests' = requests \o new /\ asked' = asked + 1
  BY DEF Enqueue
<1>2. e.id = asked + 1 /\ e.func = func /\ e.who = who
  OBVIOUS
<1>3. /\ IsSeq(new)
      /\ \A k \in 1 .. Len(new) : /\ new[k].id = asked + 1 /\ new[k].who = who
                                  /\ new[k].cmd \in Cmds /\ CmdType(new[k].cmd) = Type(func)
      /\ \A i, j \in 1 .. Len(new) : i < j => ~(OwnRequest(new[i]) /\ OwnRequest(new[j]))
      /\ \E k \in 1 .. Len(new) : Ends(new[k])
  BY SentShape
<1> HIDE DEF e, new
<1>4. /\ IsSeq(queue) /\ IsSeq(requests) /\ asked \in Nat /\ QueueRises(queue, asked)
      /\ RequestsRise(requests, asked) /\ RepliesRise(replies, asked)
  BY DEF InStep
<1>5. /\ IsSeq(q2) /\ QueueRises(q2, asked + 1)
      /\ \A k \in 1 .. Len(q2) : (k \in 1 .. Len(queue) /\ q2[k] = queue[k]) \/ q2[k] = e
      /\ \A id \in 1 .. asked : IsQueued(q2, id) <=> IsQueued(queue, id)
      /\ IsQueued(q2, asked + 1)
  BY <1>2, <1>4, NewEntryFits
<1>6. \A j \in 1 .. Len(requests) : RequestFits(q2, requests[j])
  <2> TAKE j \in 1 .. Len(requests)
  <2>1. RequestFits(queue, requests[j]) /\ requests[j].id \in 1 .. asked
    BY <1>4 DEF InStep, RequestsRise
  <2>2. env.distinct /\ Type(e.func) = "WHOIS" => e.who # requests[j].who
    BY <1>2
  <2> QED
    BY <1>2, <1>4, <2>1, <2>2, AppendFits DEF RequestFits
<1>7. \A j \in 1 .. Len(replies) : ReplyFits(q2, replies[j])
  <2> TAKE j \in 1 .. Len(replies)
  <2>1. ReplyFits(queue, replies[j]) /\ replies[j].id \in 1 .. asked
    BY <1>4 DEF InStep, RepliesRise
  <2>2. env.distinct /\ Type(e.func) = "WHOIS" => e.who # replies[j].who
    BY <1>2
  <2> QED
    BY <1>2, <1>4, <2>1, <2>2, AppendFits DEF ReplyFits
<1>8. \A k \in 1 .. Len(new) : RequestFits(q2, new[k])
  <2> TAKE k \in 1 .. Len(new)
  <2>1. \A i \in 1 .. Len(q2) : q2[i].id = asked + 1 => q2[i] = e
    BY <1>4, <1>5 DEF QueueRises
  <2>2. \A i \in 1 .. Len(q2) : q2[i].id <= asked + 1
    BY <1>4, <1>5 DEF QueueRises
  <2>3. new[k].id = asked + 1 /\ new[k].who = who /\ CmdType(new[k].cmd) = Type(func)
    BY <1>3
  <2> HIDE DEF q2
  <2>4. Fits(q2, asked + 1, who, Type(func), OwnRequest(new[k]))
    BY <1>2, <1>5, <2>1, <2>2 DEF Fits
  <2> QED
    BY <2>3, <2>4 DEF RequestFits
<1>9. \A k \in 1 .. Len(q2) : EndComes(q2[k], requests \o new, replies)
  <2> TAKE k \in 1 .. Len(q2)
  <2>1. /\ Len(requests) \in Nat /\ Len(new) \in Nat /\ Len(requests \o new) = Len(requests) + Len(new)
        /\ \A i \in 1 .. Len(requests) : (requests \o new)[i] = requests[i]
        /\ \A i \in 1 .. Len(new) : (requests \o new)[Len(requests) + i] = new[i]
    <3>1. IsSeq(requests) /\ IsSeq(new)
      BY <1>3, <1>4
    <3>2. Len(requests) \in Nat /\ Len(new) \in Nat /\ Len(requests \o new) = Len(requests) + Len(new)
      BY <3>1, ConcatShape
    <3>3. \A i \in 1 .. Len(requests) : (requests \o new)[i] = requests[i]
      BY <3>1, ConcatShape
    <3>4. ASSUME NEW i \in 1 .. Len(new) PROVE (requests \o new)[Len(requests) + i] = new[i]
      <4>1. \A j \in 1 .. Len(requests \o new) :
               \/ j \in 1 .. Len(requests) /\ (requests \o new)[j] = requests[j]
               \/ j - Len(requests) \in 1 .. Len(new) /\ (requests \o new)[j] = new[j - Len(requests)]
        BY <3>1, ConcatShape
      <4> DEFINE j == Len(requests) + i
      <4>2. j \in 1 .. Len(requests \o new) /\ ~(j \in 1 .. Len(requests)) /\ j - Len(requests) = i
        BY <3>2
      <4> HIDE DEF j
      <4>3. (requests \o new)[j] = new[i]
        BY <4>1, <4>2
      <4> QED
        BY <4>3 DEF j
    <3> QED
      BY <3>2, <3>3, <3>4
  <2>2. /\ \A i \in 1 .. Len(requests) : i \in 1 .. Len(requests \o new)
        /\ \A i \in 1 .. Len(new) : Len(requests) + i \in 1 .. Len(requests \o new)
    BY <2>1
  <2>3. CASE k \in 1 .. Len(queue) /\ q2[k] = queue[k]
    <3>1. EndComes(queue[k], requests, replies)
      BY <2>3 DEF InStep
    <3>2. EndComes(queue[k], requests \o new, replies)
      BY <2>1, <2>2, <3>1 DEF EndComes
    <3> QED
      BY <2>3, <3>2
  <2>4. CASE q2[k] = e
    <3>1. PICK i \in 1 .. Len(new) : Ends(new[i])
      BY <1>3
    <3>2. /\ Len(requests) + i \in 1 .. Len(requests \o new)
          /\ (requests \o new)[Len(requests) + i].id = e.id
          /\ Ends((requests \o new)[Len(requests) + i])
      BY <1>2, <1>3, <2>1, <2>2, <3>1
    <3> QED
      BY <2>4, <3>2 DEF EndComes
  <2> QED
    BY <1>5, <2>3, <2>4
<1> HIDE DEF q2
<1>10. InStep(q2, requests \o new, replies, asked + 1, stuff)
  BY <1>3, <1>5, <1>6, <1>7, <1>8, <1>9, SendInStep
<1> QED
  BY <1>1, <1>10

(* A request past the queue keeps it in step, unless it is a USERHOST. *)
LEMMA RawInStep ==
    ASSUME InStep(queue, requests, replies, asked, stuff),
           NEW m, m.id = asked + 1, m.cmd \in {"WHOIS", "WHOWAS"}, m.who = <<m.who[1]>>
    PROVE  InStep(queue, Append(requests, m), replies, asked + 1, stuff)
<1> DEFINE new == <<m>>
<1>1. IsSeq(new) /\ Len(new) = 1 /\ new[1] = m
  BY Singleton
<1> HIDE DEF new
<1>2. /\ IsSeq(queue) /\ IsSeq(requests) /\ asked \in Nat /\ QueueRises(queue, asked)
  BY DEF InStep
<1>3. Append(requests, m) = requests \o new
  BY <1>2, AppendShape DEF new
<1>4. QueueRises(queue, asked + 1)
  BY <1>2 DEF QueueRises
<1>5. RequestFits(queue, m)
  <2>1. \A k \in 1 .. Len(queue) : queue[k].id \in 1 .. asked
    BY <1>2 DEF QueueRises
  <2>2. ~OwnRequest(m)
    BY DEF OwnRequest
  <2>3. \A k \in 1 .. Len(queue) : queue[k].id # m.id /\ queue[k].id <= m.id
    BY <1>2, <2>1
  <2> QED
    BY <2>2, <2>3 DEF RequestFits, Fits
<1>6. \A k \in 1 .. Len(queue) : EndComes(queue[k], requests \o new, replies)
  <2>1. \A i \in 1 .. Len(requests) : i \in 1 .. Len(requests \o new) /\ (requests \o new)[i] = requests[i]
    BY <1>1, <1>2, ConcatShape
  <2> QED
    BY <2>1 DEF InStep, EndComes
<1>7. \A k \in 1 .. Len(new) : k = 1 /\ new[k] = m
  BY <1>1
<1>8. \A k \in 1 .. Len(new) : new[k].id = asked + 1 /\ new[k].cmd \in Cmds /\ RequestFits(queue, new[k])
  BY <1>5, <1>7 DEF Cmds
<1>9. \A i, j \in 1 .. Len(new) : i < j => ~(OwnRequest(new[i]) /\ OwnRequest(new[j]))
  BY <1>7
<1>10. /\ \A j \in 1 .. Len(requests) : RequestFits(queue, requests[j])
       /\ \A j \in 1 .. Len(replies) : ReplyFits(queue, replies[j])
  BY DEF InStep
<1> QED
  BY <1>1, <1>2, <1>3, <1>4, <1>6, <1>8, <1>9, <1>10, SendInStep

-----------------------------------------------------------------------------
LEMMA TripleShape ==
    ASSUME NEW x, NEW y, NEW z
    PROVE  LET three == <<x, y>> \o <<z>>
           IN  IsSeq(three) /\ Len(three) = 3 /\ three[1] = x /\ three[2] = y /\ three[3] = z
<1> DEFINE two == <<x, y>>
           one == <<z>>
           three == two \o one
<1>1. IsSeq(one) /\ Len(one) = 1 /\ one[1] = z
  BY Singleton
<1>2. Len(two) = 2 /\ two[1] = x /\ two[2] = y
  OBVIOUS
<1>3. IsSeq(two)
  <2>1. two \in Seq({x, y})
    OBVIOUS
  <2> QED
    BY <2>1 DEF IsSeq
<1> HIDE DEF one, two
<1>4. /\ IsSeq(three) /\ Len(three) = Len(two) + Len(one) /\ \A k \in 1 .. Len(two) : three[k] = two[k]
  BY <1>1, <1>2, <1>3, ConcatShape, ZenonT(60)
<1>5. \A k \in 1 .. Len(three) :
          \/ k \in 1 .. Len(two) /\ three[k] = two[k]
          \/ k - Len(two) \in 1 .. Len(one) /\ three[k] = one[k - Len(two)]
  BY <1>1, <1>3, ConcatIsSeq
<1> HIDE DEF three
<1>6. 3 \in 1 .. Len(three) /\ ~(3 \in 1 .. Len(two)) /\ 3 - Len(two) = 1
  BY <1>1, <1>2, <1>4
<1>7. three[3] = one[1]
  BY <1>5, <1>6
<1>8. three[1] = two[1] /\ three[2] = two[2]
  BY <1>2, <1>4
<1> QED
  BY <1>1, <1>2, <1>4, <1>7, <1>8 DEF one, two, three

(* What the server says of a WHOIS: the lines about a person who is on, in   *)
(* order, and the end of it if it sends one.                                 *)
LEMMA WhoisLinesShape ==
    ASSUME NEW r
    PROVE  LET ans == WhoisLines(r)
           IN  /\ IsSeq(ans) /\ Len(ans) \in Nat
               /\ \A k \in 1 .. Len(ans) : /\ ans[k].id = r.id /\ ans[k].who = r.who
                                           /\ ans[k].num \in {"311", "317", "318", "401"}
                                           /\ ans[k].num = "318" => SendsEnd
               /\ SendsEnd => \E k \in 1 .. Len(ans) : ans[k].num = "318"
               /\ \A k \in 1 .. Len(ans) : ans[k].num = "318" /\ ans[k].on # <<>> =>
                     k = 3 /\ ans[1].num = "311" /\ ans[2].num = "317"
<1> DEFINE a(num, on) == Answer(num, r, on)
           ans == WhoisLines(r)
           of(x, num, on) == x.num = num /\ x.on = on /\ x.id = r.id /\ x.who = r.who
<1>1. \A num, on : of(a(num, on), num, on)
  BY DEF Answer
<1> DEFINE x == a("311", r.who)
           y == a("317", r.who)
           z == a("318", r.who)
           v == a("401", <<>>)
           w == a("318", <<>>)
<1>2. /\ of(x, "311", r.who) /\ of(y, "317", r.who) /\ of(z, "318", r.who)
      /\ of(v, "401", <<>>) /\ of(w, "318", <<>>)
  BY <1>1
<1>3. ans = IF r.who[1] \in online
            THEN <<x, y>> \o (IF SendsEnd THEN <<z>> ELSE <<>>)
            ELSE <<v>> \o (IF SendsEnd THEN <<w>> ELSE <<>>)
  BY DEF WhoisLines
<1> HIDE DEF a, x, y, z, v, w, ans
<1>4. CASE r.who[1] \in online /\ SendsEnd
  <2>1. ans = <<x, y>> \o <<z>>
    BY <1>3, <1>4
  <2>2. IsSeq(ans) /\ Len(ans) = 3 /\ ans[1] = x /\ ans[2] = y /\ ans[3] = z
    BY <2>1, TripleShape
  <2>3. 1 .. Len(ans) = {1, 2, 3}
    BY <2>2
  <2> QED
    BY <1>2, <1>4, <2>2, <2>3 DEF ans
<1>5. CASE r.who[1] \in online /\ ~SendsEnd
  <2>1. ans = <<x, y>> \o <<>>
    BY <1>3, <1>5
  <2>2. <<x, y>> \in Seq({x, y}) /\ Len(<<x, y>>) = 2 /\ <<x, y>>[1] = x /\ <<x, y>>[2] = y
    OBVIOUS
  <2>3. ans = <<x, y>>
    BY <2>1, <2>2
  <2>4. IsSeq(ans) /\ Len(ans) = 2 /\ ans[1] = x /\ ans[2] = y
    BY <2>2, <2>3 DEF IsSeq
  <2>5. 1 .. Len(ans) = {1, 2}
    BY <2>4
  <2> QED
    BY <1>2, <1>5, <2>4, <2>5 DEF ans
<1>6. CASE r.who[1] \notin online /\ SendsEnd
  <2>1. ans = <<v>> \o <<w>>
    BY <1>3, <1>6
  <2>2. IsSeq(ans) /\ Len(ans) = 2 /\ ans[1] = v /\ ans[2] = w
    BY <2>1, PairShape
  <2>3. 1 .. Len(ans) = {1, 2}
    BY <2>2
  <2> QED
    BY <1>2, <1>6, <2>2, <2>3 DEF ans
<1>7. CASE r.who[1] \notin online /\ ~SendsEnd
  <2>1. ans = <<v>> \o <<>>
    BY <1>3, <1>7
  <2>2. IsSeq(ans) /\ Len(ans) = 1 /\ ans[1] = v
    BY <2>1, Singleton, EmptyIsSeq, ConcatShape
  <2>3. 1 .. Len(ans) = {1}
    BY <2>2
  <2> QED
    BY <1>2, <1>7, <2>2, <2>3 DEF ans
<1> QED
  BY <1>4, <1>5, <1>6, <1>7

(* An answer belongs to its request, and only to it. *)
LEMMA AnswerShape ==
    ASSUME KnowsAll, NEW r, r.cmd \in Cmds
    PROVE  LET ans == AnswerTo(r)
           IN  /\ IsSeq(ans) /\ Len(ans) \in Nat
               /\ \A k \in 1 .. Len(ans) :
                     /\ ans[k].id = r.id /\ ans[k].who = r.who
                     /\ NumType(ans[k].num) = CmdType(r.cmd) /\ ans[k].num \notin Unknown
                     /\ ans[k].num = "318" => SendsEnd
                     /\ OwnReply(ans[k]) => OwnRequest(r) /\ Len(ans) = 1
               /\ Ends(r) => \E k \in 1 .. Len(ans) : ans[k].num \in EndNums
               /\ \A k \in 1 .. Len(ans) : ans[k].num = "318" /\ ans[k].on # <<>> =>
                     k = 3 /\ ans[1].num = "311" /\ ans[2].num = "317"
<1> DEFINE ans == AnswerTo(r)
<1>1. CASE r.cmd = "WHOIS"
  <2> DEFINE lines == WhoisLines(r)
  <2>1. ans = lines
    BY <1>1 DEF AnswerTo
  <2>2. /\ IsSeq(ans) /\ Len(ans) \in Nat
        /\ \A k \in 1 .. Len(ans) : /\ ans[k].id = r.id /\ ans[k].who = r.who
                                    /\ ans[k].num \in {"311", "317", "318", "401"}
                                    /\ ans[k].num = "318" => SendsEnd
        /\ SendsEnd => \E k \in 1 .. Len(ans) : ans[k].num = "318"
        /\ \A k \in 1 .. Len(ans) : ans[k].num = "318" /\ ans[k].on # <<>> =>
              k = 3 /\ ans[1].num = "311" /\ ans[2].num = "317"
    <3>1. /\ IsSeq(lines) /\ Len(lines) \in Nat
          /\ \A k \in 1 .. Len(lines) : /\ lines[k].id = r.id /\ lines[k].who = r.who
                                        /\ lines[k].num \in {"311", "317", "318", "401"}
                                        /\ lines[k].num = "318" => SendsEnd
          /\ SendsEnd => \E k \in 1 .. Len(lines) : lines[k].num = "318"
          /\ \A k \in 1 .. Len(lines) : lines[k].num = "318" /\ lines[k].on # <<>> =>
                k = 3 /\ lines[1].num = "311" /\ lines[2].num = "317"
      BY WhoisLinesShape
    <3> HIDE DEF ans, lines
    <3> QED
      BY <2>1, <3>1
  <2> HIDE DEF ans
  <2>3. \A num \in {"311", "317", "318", "401"} :
            NumType(num) = CmdType(r.cmd) /\ num \notin Unknown /\ num \notin {"302", "303", "401 !"}
    BY <1>1 DEF NumType, CmdType, Unknown
  <2>4. \A k \in 1 .. Len(ans) : /\ NumType(ans[k].num) = CmdType(r.cmd) /\ ans[k].num \notin Unknown
                                 /\ ~OwnReply(ans[k])
    BY <2>2, <2>3 DEF OwnReply
  <2>5. Ends(r) => \E k \in 1 .. Len(ans) : ans[k].num \in EndNums
    BY <1>1, <2>2 DEF Ends, EndNums
  <2> QED
    BY <2>2, <2>4, <2>5 DEF ans
<1>2. CASE r.cmd # "WHOIS"
  <2> DEFINE on == SelectSeq(r.who, LAMBDA n : n \in online)
             x == Answer(Numeric(r.cmd), r, on)
  <2>1. ans = <<x>>
    BY <1>2 DEF AnswerTo
  <2>2. x.num = Numeric(r.cmd) /\ x.id = r.id /\ x.who = r.who
    BY DEF Answer
  <2> HIDE DEF ans, x
  <2>3. IsSeq(ans) /\ Len(ans) = 1 /\ ans[1] = x
    BY <2>1, Singleton
  <2>4. 1 .. Len(ans) = {1}
    BY <2>3
  <2>5. /\ NumType(Numeric(r.cmd)) = CmdType(r.cmd) /\ Numeric(r.cmd) \notin Unknown
        /\ Numeric(r.cmd) # "318"
    BY <1>2 DEF Numeric, NumType, CmdType, Unknown, Cmds, KnowsAll
  <2>6. OwnReply(x) => OwnRequest(r)
    BY <1>2, <2>2 DEF Numeric, OwnReply, OwnRequest, Cmds, KnowsAll
  <2>7. Ends(r) => Numeric(r.cmd) \in EndNums
    BY <1>2 DEF Numeric, Ends, EndNums, Cmds, KnowsAll
  <2> QED
    BY <2>2, <2>3, <2>4, <2>5, <2>6, <2>7 DEF ans
<1> QED
  BY <1>1, <1>2

(* The server answers the next request, behind all other answers. *)
LEMMA AnswerInStep ==
    ASSUME KnowsAll, NEW q, NEW s, NEW t, NEW n, NEW known, InStep(q, s, t, n, known), s # <<>>
    PROVE  InStep(q, Tail(s), t \o AnswerTo(Head(s)), n, known)
<1> DEFINE r == s[1]
           ans == AnswerTo(r)
           rest == Tail(s)
           u == t \o ans
<1>1. /\ IsSeq(q) /\ IsSeq(s) /\ IsSeq(t) /\ n \in Nat /\ QueueRises(q, n)
      /\ RequestsRise(s, n) /\ RepliesRise(t, n) /\ RepliesFirst(t, s)
  BY DEF InStep
<1>2. /\ IsSeq(rest) /\ Len(s) \in Nat /\ Len(s) >= 1 /\ Head(s) = r /\ Len(rest) \in Nat
      /\ \A k \in 1 .. Len(rest) : k + 1 \in 1 .. Len(s) /\ 1 < k + 1 /\ rest[k] = s[k+1]
      /\ \A k \in 1 .. Len(s) : k = 1 \/ (k - 1 \in 1 .. Len(rest) /\ s[k] = rest[k-1])
  <2>1. /\ IsSeq(rest) /\ Len(s) \in Nat /\ Len(s) >= 1 /\ Head(s) = r /\ Len(rest) = Len(s) - 1
        /\ \A k \in 1 .. Len(rest) : k + 1 \in 1 .. Len(s) /\ rest[k] = s[k+1]
        /\ \A k \in 1 .. Len(s) : k = 1 \/ (k - 1 \in 1 .. Len(rest) /\ s[k] = rest[k-1])
    BY <1>1, TailShape
  <2> HIDE DEF rest
  <2> QED
    BY <2>1
<1>3. 1 \in 1 .. Len(s) /\ r.cmd \in Cmds /\ r.id \in 1 .. n /\ RequestFits(q, r)
  BY <1>1, <1>2 DEF InStep, RequestsRise
<1>4. /\ IsSeq(ans) /\ Len(ans) \in Nat
      /\ \A k \in 1 .. Len(ans) :
            /\ ans[k].id = r.id /\ ans[k].who = r.who
            /\ NumType(ans[k].num) = CmdType(r.cmd) /\ ans[k].num \notin Unknown
            /\ ans[k].num = "318" => SendsEnd
            /\ OwnReply(ans[k]) => OwnRequest(r) /\ Len(ans) = 1
      /\ Ends(r) => \E k \in 1 .. Len(ans) : ans[k].num \in EndNums
      /\ \A k \in 1 .. Len(ans) : ans[k].num = "318" /\ ans[k].on # <<>> =>
            k = 3 /\ ans[1].num = "311" /\ ans[2].num = "317"
  BY <1>3, AnswerShape
<1> HIDE DEF ans, rest
<1>5. /\ IsSeq(u) /\ Len(t) \in Nat /\ Len(u) = Len(t) + Len(ans)
      /\ \A k \in 1 .. Len(t) : u[k] = t[k]
      /\ \A k \in 1 .. Len(u) :
            \/ k \in 1 .. Len(t) /\ u[k] = t[k]
            \/ k - Len(t) \in 1 .. Len(ans) /\ u[k] = ans[k - Len(t)]
  <2>1. IsSeq(t) /\ IsSeq(ans)
    BY <1>1, <1>4
  <2> HIDE DEF r
  <2>2. IsSeq(u) /\ Len(t) \in Nat /\ Len(u) = Len(t) + Len(ans)
    BY <2>1, ConcatShape
  <2>3. \A k \in 1 .. Len(t) : u[k] = t[k]
    BY <2>1, ConcatShape
  <2>4. \A k \in 1 .. Len(u) :
            \/ k \in 1 .. Len(t) /\ u[k] = t[k]
            \/ k - Len(t) \in 1 .. Len(ans) /\ u[k] = ans[k - Len(t)]
    BY <2>1, ConcatShape
  <2> QED
    BY <2>2, <2>3, <2>4
<1> HIDE DEF u
<1>6. ASSUME NEW k \in 1 .. Len(ans) PROVE Len(t) + k \in 1 .. Len(u) /\ u[Len(t) + k] = ans[k]
  <2> DEFINE j == Len(t) + k
  <2>1. j \in 1 .. Len(u) /\ ~(j \in 1 .. Len(t)) /\ j - Len(t) = k
    BY <1>4, <1>5
  <2> HIDE DEF j
  <2>2. u[j] = ans[k]
    BY <1>5, <2>1
  <2> QED
    BY <2>1, <2>2 DEF j
<1>7. RequestsRise(rest, n)
  <2>1. ASSUME NEW i \in 1 .. Len(rest), NEW j \in 1 .. Len(rest), i < j
        PROVE  /\ rest[i].id <= rest[j].id
               /\ OwnRequest(rest[i]) /\ OwnRequest(rest[j]) => rest[i].id < rest[j].id
    <3>1. /\ i + 1 < j + 1 /\ i + 1 \in 1 .. Len(s) /\ j + 1 \in 1 .. Len(s)
          /\ rest[i] = s[i+1] /\ rest[j] = s[j+1]
      BY <1>2, <2>1
    <3> QED
      BY <1>1, <3>1 DEF RequestsRise
  <2> QED
    BY <1>1, <1>2, <2>1 DEF RequestsRise
<1>8. RepliesRise(u, n)
  <2>1. ASSUME NEW i \in 1 .. Len(u) PROVE u[i].id \in 1 .. n
    BY <1>1, <1>3, <1>4, <1>5, ZenonT(60) DEF RepliesRise
  <2>2. ASSUME NEW i \in 1 .. Len(u), NEW j \in 1 .. Len(u), i < j
        PROVE  u[i].id <= u[j].id /\ (OwnReply(u[i]) /\ OwnReply(u[j]) => u[i].id < u[j].id)
    <3>1. CASE i \in 1 .. Len(t) /\ u[i] = t[i]
      <4>1. CASE j \in 1 .. Len(t) /\ u[j] = t[j]
        BY <1>1, <2>2, <3>1, <4>1 DEF RepliesRise
      <4>2. CASE j - Len(t) \in 1 .. Len(ans) /\ u[j] = ans[j - Len(t)]
        <5>1. t[i].id <= r.id /\ (OwnReply(t[i]) /\ OwnRequest(r) => t[i].id < r.id)
          BY <1>1, <1>3, <3>1 DEF RepliesFirst
        <5>2. u[j].id = r.id /\ (OwnReply(u[j]) => OwnRequest(r))
          BY <1>4, <4>2
        <5> QED
          BY <3>1, <5>1, <5>2
      <4> QED
        BY <1>5, <4>1, <4>2
    <3>2. CASE i - Len(t) \in 1 .. Len(ans) /\ u[i] = ans[i - Len(t)]
      <4>1. j - Len(t) \in 1 .. Len(ans) /\ u[j] = ans[j - Len(t)] /\ Len(ans) # 1
        BY <1>4, <1>5, <2>2, <3>2
      <4>2. u[i].id = r.id /\ u[j].id = r.id /\ ~OwnReply(u[i])
        BY <1>4, <3>2, <4>1
      <4> QED
        BY <1>3, <4>2
    <3> QED
      BY <1>5, <3>1, <3>2
  <2> QED
    BY <2>1, <2>2 DEF RepliesRise
<1>9. RepliesFirst(u, rest)
  <2> SUFFICES ASSUME NEW i \in 1 .. Len(u), NEW j \in 1 .. Len(rest)
               PROVE  /\ u[i].id <= rest[j].id
                      /\ OwnReply(u[i]) /\ OwnRequest(rest[j]) => u[i].id < rest[j].id
    BY DEF RepliesFirst
  <2>1. j + 1 \in 1 .. Len(s) /\ 1 < j + 1 /\ rest[j] = s[j+1]
    BY <1>2
  <2>2. CASE i \in 1 .. Len(t) /\ u[i] = t[i]
    BY <1>1, <2>1, <2>2 DEF RepliesFirst
  <2>3. CASE i - Len(t) \in 1 .. Len(ans) /\ u[i] = ans[i - Len(t)]
    <3>1. u[i].id = r.id /\ (OwnReply(u[i]) => OwnRequest(r))
      BY <1>4, <2>3
    <3>2. r.id <= rest[j].id /\ (OwnRequest(r) /\ OwnRequest(rest[j]) => r.id < rest[j].id)
      BY <1>1, <1>3, <2>1 DEF RequestsRise
    <3> QED
      BY <3>1, <3>2
  <2> QED
    BY <1>5, <2>2, <2>3
<1>10. \A j \in 1 .. Len(rest) : RequestFits(q, rest[j])
  BY <1>2 DEF InStep
<1>11. \A k \in 1 .. Len(u) : ReplyFits(q, u[k])
  <2> SUFFICES ASSUME NEW k \in 1 .. Len(u) PROVE ReplyFits(q, u[k])
    OBVIOUS
  <2>1. CASE k \in 1 .. Len(t) /\ u[k] = t[k]
    BY <2>1 DEF InStep
  <2>2. CASE k - Len(t) \in 1 .. Len(ans) /\ u[k] = ans[k - Len(t)]
    <3>1. /\ u[k].id = r.id /\ u[k].who = r.who /\ NumType(u[k].num) = CmdType(r.cmd)
          /\ u[k].num \notin Unknown /\ (u[k].num = "318" => SendsEnd)
          /\ OwnReply(u[k]) => OwnRequest(r)
      BY <1>4, <2>2
    <3> QED
      BY <1>3, <3>1 DEF ReplyFits, RequestFits, Fits
  <2> QED
    BY <1>5, <2>1, <2>2
<1>12. \A k \in 1 .. Len(q) : EndComes(q[k], rest, u)
  <2> SUFFICES ASSUME NEW k \in 1 .. Len(q) PROVE EndComes(q[k], rest, u)
    OBVIOUS
  <2>1. EndComes(q[k], s, t)
    BY DEF InStep
  <2>2. ASSUME NEW j \in 1 .. Len(s), s[j].id = q[k].id, Ends(s[j]) PROVE EndComes(q[k], rest, u)
    <3>1. CASE j = 1
      <4>1. PICK i \in 1 .. Len(ans) : ans[i].num \in EndNums
        BY <1>4, <2>2, <3>1
      <4>2. ans[i].id = q[k].id
        BY <1>4, <2>2, <3>1
      <4>3. Len(t) + i \in 1 .. Len(u) /\ u[Len(t) + i] = ans[i]
        BY <1>6
      <4> QED
        BY <4>1, <4>2, <4>3 DEF EndComes
    <3>2. CASE j # 1
      <4>1. j - 1 \in 1 .. Len(rest) /\ s[j] = rest[j-1]
        BY <1>2, <3>2
      <4> QED
        BY <2>2, <4>1 DEF EndComes
    <3> QED
      BY <3>1, <3>2
  <2>3. ASSUME NEW j \in 1 .. Len(t), t[j].id = q[k].id, t[j].num \in EndNums
        PROVE  EndComes(q[k], rest, u)
    <3>1. j \in 1 .. Len(u) /\ u[j] = t[j]
      BY <1>4, <1>5
    <3> QED
      BY <2>3, <3>1 DEF EndComes
  <2> QED
    BY <2>1, <2>2, <2>3 DEF EndComes
<1>13. \A k \in 1 .. Len(u) : LinesCome(u, k, q, known)
  <2> SUFFICES ASSUME NEW k \in 1 .. Len(u), u[k].num = "318", u[k].on # <<>>
               PROVE  LinesCome(u, k, q, known)
    BY DEF LinesCome
  <2>1. CASE k \in 1 .. Len(t) /\ u[k] = t[k]
    <3>1. LinesCome(t, k, q, known)
      BY <2>1 DEF InStep
    <3>2. /\ k >= 3 => u[k-1] = t[k-1] /\ u[k-2] = t[k-2]
          /\ k = 2 => u[k-1] = t[k-1]
      <4>1. /\ k >= 3 => k - 1 \in 1 .. Len(t) /\ k - 2 \in 1 .. Len(t)
            /\ k = 2 => k - 1 \in 1 .. Len(t)
        BY <1>5, <2>1
      <4> QED
        BY <1>5, <4>1
    <3> QED
      BY <2>1, <3>1, <3>2 DEF LinesCome
  <2>2. CASE k - Len(t) \in 1 .. Len(ans) /\ u[k] = ans[k - Len(t)]
    <3>1. k - Len(t) = 3 /\ ans[1].num = "311" /\ ans[2].num = "317"
      BY <1>4, <2>2
    <3>2. /\ 1 \in 1 .. Len(ans) /\ 2 \in 1 .. Len(ans) /\ 3 \in 1 .. Len(ans)
          /\ Len(t) + 1 = k - 2 /\ Len(t) + 2 = k - 1 /\ k >= 3 /\ k # 2 /\ ~(k <= 2)
      BY <1>4, <1>5, <2>2, <3>1
    <3>3. u[k-2] = ans[1] /\ u[k-1] = ans[2]
      BY <1>6, <3>2
    <3>4. ans[1].id = r.id /\ ans[3].id = r.id /\ ans[1].who = r.who /\ ans[3].who = r.who
      BY <1>4, <3>2
    <3> QED
      BY <2>2, <3>1, <3>2, <3>3, <3>4 DEF LinesCome
  <2> QED
    BY <1>5, <2>1, <2>2
<1>14. InStep(q, rest, u, n, known)
  BY <1>1, <1>2, <1>5, <1>7, <1>8, <1>9, <1>10, <1>11, <1>12, <1>13 DEF InStep
<1> QED
  BY <1>2, <1>14 DEF u, ans, rest

-----------------------------------------------------------------------------
(* The state after a step, whose setting is the same *)
LEMMA NextInStep ==
    ASSUME UNCHANGED env, InStep(queue', requests', replies', asked', stuff')
    PROVE  InStep(queue, requests, replies, asked, stuff)'
BY ZenonT(60) DEF InStep, QueueRises, RequestsRise, RepliesRise, RepliesFirst, RequestFits, ReplyFits,
       Fits, EndComes, LinesCome, IsSeq, IsQueued, OwnRequest, OwnReply, Ends, EndNums, SendsEnd

LEMMA NextStepInv ==
    ASSUME StepInv, UNCHANGED <<env, open, has262, crashed>>, open, whois' => SendsEnd,
           asked' \in Nat, InStep(queue', requests', replies', asked', stuff')
    PROVE  StepInv'
BY NextInStep DEF StepInv, SendsEnd

(* If the request of the first answer is queued, it is the head, which the   *)
(* answer is about.                                                          *)
LEMMA QueuedIsHead ==
    ASSUME InStep(queue, requests, replies, asked, stuff), replies # <<>>
    PROVE  LET r == Head(replies)
           IN  /\ ReplyFits(queue, r)
               /\ queue # <<>> => TypeHead \in {"WHOIS", "ISON", "USERHOST"}
               /\ OwnReply(r) => IsQueued(queue, r.id)
               /\ IsQueued(queue, r.id) =>
                      /\ queue # <<>> /\ Head(queue).id = r.id
                      /\ HeadNick = r.who[1] /\ TypeHead = NumType(r.num)
<1> DEFINE r == Head(replies)
<1>1. IsSeq(queue) /\ IsSeq(replies) /\ QueueRises(queue, asked)
  BY DEF InStep
<1>2. r = replies[1] /\ 1 \in 1 .. Len(replies)
  BY <1>1, TailShape
<1> HIDE DEF r
<1>3. ReplyFits(queue, r)
  BY <1>2 DEF InStep
<1>4. queue # <<>> => Head(queue) = queue[1] /\ 1 \in 1 .. Len(queue)
  BY <1>1, TailShape
<1>5. queue # <<>> => TypeHead \in {"WHOIS", "ISON", "USERHOST"}
  BY <1>1, <1>4 DEF QueueRises, TypeHead
<1>6. OwnReply(r) => IsQueued(queue, r.id)
  BY <1>3 DEF ReplyFits, Fits
<1>7. ASSUME IsQueued(queue, r.id)
      PROVE  /\ queue # <<>> /\ Head(queue).id = r.id
             /\ HeadNick = r.who[1] /\ TypeHead = NumType(r.num)
  <2>1. queue # <<>>
    BY <1>7, EmptyIsSeq DEF IsQueued
  <2>2. Head(queue).id = r.id
    BY <1>7, <2>1, HeadIsNext DEF r
  <2> QED
    BY <1>3, <1>4, <2>1, <2>2 DEF ReplyFits, Fits, HeadNick, TypeHead
<1> QED
  BY <1>3, <1>5, <1>6, <1>7 DEF r

LEMMA ReadStep ==
    ASSUME StepInv, UNCHANGED <<env, open, has262, crashed, asked, requests>>,
           replies # <<>>, Read, whois' => SendsEnd,
           Takes(queue, queue', Head(replies)), Notes(queue, Head(replies), stuff, stuff')
    PROVE  StepInv'
<1>1. open /\ InStep(queue, requests, replies, asked, stuff) /\ asked \in Nat
  BY DEF StepInv
<1>2. InStep(queue', requests, Tail(replies), asked, stuff')
  BY <1>1, ReadInStep
<1> QED
  BY <1>1, <1>2, NextStepInv DEF Read

(* Each handler takes off the queue what ends, and nothing that is to come. *)
LEMMA ReceiveStep ==
    ASSUME Undisturbed, StepInv, UNCHANGED env, Receive
    PROVE  StepInv'
<1> DEFINE r == Head(replies)
<1>1. replies # <<>>
  BY DEF Receive, WhoisName, WhowasName, WhoisLastcom, EndOfWhois, DummyAnswered,
         NoSuchNickname, IsonReturned, UserhostReturned, UnknownCommand, Got
<1>2. open /\ InStep(queue, requests, replies, asked, stuff) /\ (whois => SendsEnd)
  BY <1>1 DEF StepInv
<1>3. /\ ReplyFits(queue, r)
      /\ queue # <<>> => TypeHead \in {"WHOIS", "ISON", "USERHOST"}
      /\ OwnReply(r) => IsQueued(queue, r.id)
      /\ IsQueued(queue, r.id) =>
             /\ queue # <<>> /\ Head(queue).id = r.id
             /\ HeadNick = Nick /\ TypeHead = NumType(r.num)
  BY <1>1, <1>2, QueuedIsHead DEF Nick
<1>4. \A num : Got(num) <=> r.num = num
  BY <1>1 DEF Got
<1>5. Nick = r.who[1]
  BY DEF Nick
<1> HIDE DEF r
<1>6. IsQueued(queue, r.id) /\ NumType(r.num) = "WHOIS" => HeadAwaits(Nick)
  BY <1>3 DEF HeadAwaits
<1>7. HeadAwaits(Nick) => queue # <<>> /\ TypeHead = "WHOIS" /\ Type(Head(queue).func) = "WHOIS"
  BY <1>3 DEF HeadAwaits, TypeHead
<1>8. ASSUME WhoisName PROVE StepInv'
  <2>1. /\ r.num = "311" /\ Read /\ UNCHANGED <<queue, whois, open, has262, crashed, asked, requests>>
        /\ stuff' = IF HeadAwaits(Nick) THEN Nick ELSE stuff
    BY <1>4, <1>8 DEF WhoisName
  <2>2. r.num \notin EndNums /\ NumType(r.num) = "WHOIS"
    BY <2>1 DEF EndNums, NumType
  <2>3. Takes(queue, queue', r)
    BY <2>1, <2>2 DEF Takes
  <2>4. Notes(queue, r, stuff, stuff')
    BY <1>5, <1>6, <2>1, <2>2 DEF Notes
  <2> QED
    BY <1>1, <1>2, <2>1, <2>3, <2>4, ReadStep DEF r
<1>9. ASSUME WhowasName PROVE StepInv'
  <2>1. r.num = "314" /\ Read /\ UNCHANGED <<queue, whois, open, has262, crashed, asked, requests>>
    BY <1>4, <1>9 DEF WhowasName
  <2>2. Takes(queue, queue', r) /\ Notes(queue, r, stuff, stuff')
    BY <2>1 DEF Takes, Notes, EndNums
  <2> QED
    BY <1>1, <1>2, <2>1, <2>2, ReadStep DEF r
<1>10. ASSUME WhoisLastcom PROVE StepInv'
  <2>1. /\ r.num = "317" /\ Read
        /\ UNCHANGED <<queue, whois, stuff, open, has262, crashed, asked, requests>>
    BY <1>4, <1>10 DEF WhoisLastcom, client
  <2>2. Takes(queue, queue', r) /\ Notes(queue, r, stuff, stuff')
    BY <2>1 DEF Takes, Notes, EndNums
  <2> QED
    BY <1>1, <1>2, <2>1, <2>2, ReadStep DEF r
<1>11. ASSUME EndOfWhois PROVE StepInv'
  <2>1. /\ r.num = "318" /\ Read /\ UNCHANGED <<stuff, open, has262, crashed, asked, requests>>
        /\ IF HeadAwaits(Nick) THEN queue' = Tail(queue) ELSE queue' = queue
    BY <1>4, <1>11 DEF EndOfWhois
  <2>2. SendsEnd /\ NumType(r.num) = "WHOIS"
    BY <1>3, <2>1 DEF ReplyFits, NumType
  <2>3. Takes(queue, queue', r)
    BY <1>3, <1>6, <1>7, <2>1, <2>2 DEF Takes
  <2>4. Notes(queue, r, stuff, stuff')
    BY <2>1 DEF Notes
  <2> QED
    BY <1>1, <2>1, <2>2, <2>3, <2>4, ReadStep DEF r
<1>12. ASSUME DummyAnswered PROVE StepInv'
  <2>1. /\ r.num = "401 !" /\ Read /\ UNCHANGED <<whois, stuff, open, has262, crashed, asked, requests>>
        /\ IF HeadAwaits(Nick) THEN queue' = Tail(queue) ELSE queue' = queue
    BY <1>4, <1>12 DEF DummyAnswered
  <2>2. NumType(r.num) = "WHOIS" /\ (~SendsEnd => OwnReply(r))
    BY <2>1 DEF NumType, OwnReply
  <2>3. r.num \in EndNums => ~SendsEnd
    BY <2>1 DEF EndNums
  <2>4. Takes(queue, queue', r)
    BY <1>3, <1>6, <1>7, <2>1, <2>2, <2>3 DEF Takes
  <2>5. Notes(queue, r, stuff, stuff')
    BY <2>1 DEF Notes
  <2> QED
    BY <1>1, <1>2, <2>1, <2>4, <2>5, ReadStep DEF r
<1>13. ASSUME NoSuchNickname PROVE StepInv'
  <2>1. /\ r.num = "401" /\ Read /\ UNCHANGED <<whois, stuff, open, has262, crashed, asked, requests>>
        /\ IF HeadAwaits(Nick) /\ TypeHead = "ISON2" THEN queue' = Tail(queue) ELSE queue' = queue
    BY <1>4, <1>13 DEF NoSuchNickname
  <2>2. queue' = queue
    BY <1>7, <2>1
  <2>3. Takes(queue, queue', r) /\ Notes(queue, r, stuff, stuff')
    BY <2>1, <2>2 DEF Takes, Notes, EndNums
  <2> QED
    BY <1>1, <1>2, <2>1, <2>3, ReadStep DEF r
<1>14. ASSUME IsonReturned PROVE StepInv'
  <2>1. /\ r.num = "303" /\ Read /\ UNCHANGED <<whois, stuff, open, has262, crashed, asked, requests>>
        /\ IF TypeHead = "ISON" THEN queue' = Tail(queue) ELSE queue' = queue
    BY <1>4, <1>14 DEF IsonReturned
  <2>2. NumType(r.num) = "ISON" /\ OwnReply(r)
    BY <2>1 DEF NumType, OwnReply
  <2>3. Takes(queue, queue', r) /\ Notes(queue, r, stuff, stuff')
    BY <1>3, <2>1, <2>2 DEF Takes, Notes
  <2> QED
    BY <1>1, <1>2, <2>1, <2>3, ReadStep DEF r
<1>15. ASSUME UserhostReturned PROVE StepInv'
  <2>1. /\ r.num = "302" /\ Read /\ UNCHANGED <<whois, open, has262, crashed, asked, requests>>
        /\ IF TypeHead = "USERHOST" THEN queue' = Tail(queue) ELSE queue' = queue
    BY <1>4, <1>15 DEF UserhostReturned
  <2>2. NumType(r.num) = "USERHOST" /\ OwnReply(r)
    BY <2>1 DEF NumType, OwnReply
  <2>3. Takes(queue, queue', r) /\ Notes(queue, r, stuff, stuff')
    BY <1>3, <2>1, <2>2 DEF Takes, Notes
  <2> QED
    BY <1>1, <1>2, <2>1, <2>3, ReadStep DEF r
<1>16. ASSUME UnknownCommand PROVE FALSE
  BY <1>3, <1>4, <1>16 DEF UnknownCommand, ReplyFits, Unknown
<1> QED
  BY <1>8, <1>9, <1>10, <1>11, <1>12, <1>13, <1>14, <1>15, <1>16 DEF Receive

LEMMA DomainShape ==
    ASSUME NEW s, IsSeq(s)
    PROVE  DOMAIN s = 1 .. Len(s)
BY DEF IsSeq

(* So does each request. *)
LEMMA AskStep ==
    ASSUME Undisturbed, StepInv, UNCHANGED env, Asks
    PROVE  StepInv'
<1>1. /\ asked \in Nat /\ has262 /\ (whois => SendsEnd)
      /\ open => InStep(queue, requests, replies, asked, stuff)
  BY DEF StepInv
<1>2. ASSUME open, UNCHANGED <<open, has262, crashed, whois, stuff, replies>>, asked' = asked + 1,
             InStep(queue', requests', replies', asked + 1, stuff)
      PROVE  StepInv'
  <2>1. InStep(queue', requests', replies', asked', stuff') /\ asked' \in Nat /\ (whois' => SendsEnd)
    BY <1>1, <1>2
  <2> QED
    BY <1>2, <2>1, NextStepInv
<1>3. ASSUME open, UNCHANGED <<open, has262, crashed, whois, stuff, replies>>,
             NEW func, Type(func) \in {"WHOIS", "ISON", "USERHOST"},
             NEW who, Type(func) = "WHOIS" => who = <<who[1]>>, Enqueue(func, who),
             env.distinct /\ Type(func) = "WHOIS" =>
               /\ \A k \in 1 .. Len(requests) : requests[k].who # who
               /\ \A k \in 1 .. Len(replies) : replies[k].who # who
      PROVE  StepInv'
  <2>1. InStep(queue', requests', replies', asked', stuff)
    BY <1>1, <1>3, EnqueueInStep
  <2>2. asked' = asked + 1
    BY <1>3 DEF Enqueue
  <2> QED
    BY <1>2, <1>3, <2>1, <2>2
<1>4. ASSUME NEW n \in Nicks, NEW f \in Funcs, Ask(f, n) PROVE StepInv'
  <2>1. /\ open /\ Enqueue(f, <<n>>) /\ UNCHANGED <<open, has262, crashed, whois, stuff, replies>>
        /\ f \notin {"whois_notify", "ison_notify"} /\ (env.distinct => ~ InFlight(n))
    BY <1>4 DEF Ask
  <2>2. Type(f) \in {"WHOIS", "ISON", "USERHOST"}
    BY <2>1 DEF Type, Funcs
  <2>3. DOMAIN requests = 1 .. Len(requests) /\ DOMAIN replies = 1 .. Len(replies)
    BY <1>1, <2>1, DomainShape DEF InStep
  <2>4. env.distinct => /\ \A k \in 1 .. Len(requests) : requests[k].who # <<n>>
                        /\ \A k \in 1 .. Len(replies) : replies[k].who # <<n>>
    BY <2>1, <2>3 DEF InFlight
  <2>5. <<n>> = <<<<n>>[1]>>
    OBVIOUS
  <2> QED
    BY <1>3, <2>1, <2>2, <2>4, <2>5
<1>5. ASSUME NEW n \in Nicks, NEW c \in Raw, AskRaw(c, n) PROVE StepInv'
  <2> DEFINE m == Message(IF c = "quote USERHOST" THEN "USERHOST" ELSE c, asked + 1, <<n>>)
  <2>1. /\ open /\ requests' = Append(requests, m) /\ asked' = asked + 1
        /\ UNCHANGED <<open, has262, crashed, whois, stuff, replies, queue>> /\ c \in Questions
    BY <1>5 DEF AskRaw
  <2>2. c \in {"WHOIS", "WHOWAS"}
    BY <2>1 DEF Undisturbed, Raw
  <2>3. m.id = asked + 1 /\ m.cmd \in {"WHOIS", "WHOWAS"} /\ m.who = <<n>> /\ m.who[1] = n
    BY <2>2 DEF Message
  <2> HIDE DEF m
  <2>4. InStep(queue, Append(requests, m), replies, asked + 1, stuff)
    BY <1>1, <2>1, <2>3, RawInStep
  <2> QED
    BY <1>2, <2>1, <2>4
<1>6. \A n : Type("ison_notify") = "ISON"
  BY DEF Type
<1>7. ASSUME NEW n \in Nicks, NotifyAdd(n) PROVE StepInv'
  <2>1. /\ open /\ Enqueue("ison_notify", <<n>>)
        /\ UNCHANGED <<open, has262, crashed, whois, stuff, replies>>
    BY <1>1, <1>7 DEF NotifyAdd
  <2> QED
    BY <1>3, <1>6, <2>1
<1>8. CASE DoNotify
  <2> DEFINE listed == SelectSeq(Alphabet, LAMBDA n : notify[n] # "off")
  <2>1. /\ open /\ Enqueue("ison_notify", listed)
        /\ UNCHANGED <<open, has262, crashed, whois, stuff, replies>>
    BY <1>8 DEF DoNotify
  <2> HIDE DEF listed
  <2> QED
    BY <1>3, <1>6, <2>1
<1> QED
  BY <1>4, <1>5, <1>7, <1>8 DEF Asks

(* A lost connection takes all that is in flight with it; a new one starts   *)
(* with an empty queue.                                                      *)
LEMMA EmptyInStep ==
    ASSUME NEW n \in Nat, NEW known
    PROVE  InStep(<<>>, <<>>, <<>>, n, known)
BY EmptyIsSeq DEF InStep, QueueRises, RequestsRise, RepliesRise, RepliesFirst

LEMMA InStepStep ==
    ASSUME Undisturbed, StepInv, [Next]_vars
    PROVE  StepInv'
<1>1. UNCHANGED env
  BY DEF Next, vars
<1>2. CASE Asks
  BY <1>1, <1>2, AskStep
<1>3. CASE Receive
  BY <1>1, <1>3, ReceiveStep
<1>4. CASE ServerAnswers
  <2>1. /\ requests # <<>> /\ requests' = Tail(requests)
        /\ replies' = replies \o AnswerTo(Head(requests))
        /\ UNCHANGED <<queue, whois, has262, stuff, open, crashed, asked>>
    BY <1>4 DEF ServerAnswers, client
  <2>2. open /\ InStep(queue, requests, replies, asked, stuff) /\ asked \in Nat /\ (whois => SendsEnd)
    BY <2>1 DEF StepInv
  <2>3. InStep(queue, requests', replies', asked, stuff)
    BY <2>1, <2>2, AnswerInStep DEF Undisturbed
  <2> QED
    BY <1>1, <2>1, <2>2, <2>3, NextStepInv
<1>5. ASSUME UNCHANGED <<queue, whois, has262, stuff, open, crashed, asked, requests, replies>>
      PROVE  StepInv'
  <2>1. CASE open
    <3>1. InStep(queue', requests', replies', asked', stuff') /\ (whois' => SendsEnd) /\ asked' \in Nat
      BY <1>5, <2>1 DEF StepInv
    <3> QED
      BY <1>1, <1>5, <2>1, <3>1, NextStepInv
  <2>2. CASE ~open
    BY <1>1, <1>5, <2>2 DEF StepInv, SendsEnd
  <2> QED
    BY <2>1, <2>2
<1>6. ASSUME NEW n \in Nicks, NotifyRemove(n) \/ Sign(n) PROVE StepInv'
  BY <1>5, <1>6 DEF NotifyRemove, Sign, client, wires
<1>7. CASE Lose
  BY <1>1, <1>7 DEF Lose, StepInv, SendsEnd
<1>8. CASE Welcome
  <2>1. /\ queue' = <<>> /\ requests' = <<>> /\ replies' = <<>>
        /\ UNCHANGED <<whois, has262, stuff, crashed, asked>>
    BY <1>8 DEF Welcome, StepInv, wires
  <2>2. InStep(queue', requests', replies', asked', stuff')
    BY <2>1, EmptyInStep DEF StepInv
  <2> QED
    BY <1>1, <2>1, <2>2, NextInStep DEF StepInv, SendsEnd
<1>9. CASE CleanWhoisQueue
  BY <1>9 DEF CleanWhoisQueue, Undisturbed
<1>10. CASE UNCHANGED vars
  BY <1>5, <1>10 DEF vars, client, wires
<1> QED
  BY <1>2, <1>3, <1>4, <1>6, <1>7, <1>8, <1>9, <1>10 DEF Next

(* What is in step has the three parts of QueueInStep: no request waits for  *)
(* ever, *)
LEMMA StepNeverStuck ==
    ASSUME Undisturbed => StepInv
    PROVE  NeverStuck
<1> SUFFICES ASSUME open, StepInv, NEW k \in DOMAIN queue
             PROVE  \/ \E j \in DOMAIN requests : requests[j].id = queue[k].id /\ Ends(requests[j])
                    \/ \E j \in DOMAIN replies : /\ replies[j].id = queue[k].id
                                                 /\ replies[j].num \in EndNums
  BY DEF NeverStuck
<1>1. /\ DOMAIN queue = 1 .. Len(queue) /\ DOMAIN requests = 1 .. Len(requests)
      /\ DOMAIN replies = 1 .. Len(replies)
  BY DomainShape DEF StepInv, InStep
<1> QED
  BY <1>1 DEF StepInv, InStep, EndComes

(* the answer to an ISON or USERHOST finds its request at the head, *)
LEMMA StepOwnList ==
    ASSUME Undisturbed => StepInv
    PROVE  OwnList
<1> SUFFICES ASSUME StepInv, Got("303") \/ Got("302") PROVE Head(queue).id = Head(replies).id
  BY DEF OwnList
<1>1. replies # <<>> /\ Head(replies).num \in {"302", "303"}
  BY DEF Got
<1>2. InStep(queue, requests, replies, asked, stuff)
  BY <1>1 DEF StepInv
<1> QED
  BY <1>1, <1>2, QueuedIsHead DEF OwnReply

LEMMA SameNumber == \A x, y \in Nat : x <= y /\ y <= x => x = y
OBVIOUS

LEMMA OneIsLess == 1 <= 2
OBVIOUS

(* and so does the end of a WHOIS. *)
LEMMA StepOwnAnswer ==
    ASSUME Undisturbed => StepInv
    PROVE  OwnAnswer
<1> DEFINE r == Head(replies)
<1> SUFFICES ASSUME StepInv, Unmistakable, Got("318") \/ Got("401 !"), HeadAwaits(Nick)
             PROVE  /\ Head(queue).id = r.id
                    /\ Got("318") /\ r.on # <<>> => stuff = Nick
  BY DEF OwnAnswer
<1>1. replies # <<>> /\ r.num \in {"318", "401 !"} /\ Nick = r.who[1]
  BY DEF Got, Nick
<1>2. InStep(queue, requests, replies, asked, stuff)
  BY <1>1 DEF StepInv
<1>3. queue # <<>> /\ TypeHead = "WHOIS" /\ HeadNick = Nick
  BY <1>1, <1>2, QueuedIsHead DEF HeadAwaits, TypeHead
<1>4. /\ ReplyFits(queue, r) /\ (OwnReply(r) => IsQueued(queue, r.id))
      /\ IsQueued(queue, r.id) => Head(queue).id = r.id
  BY <1>1, <1>2, QueuedIsHead
<1>5. /\ Head(queue) = queue[1] /\ r = replies[1] /\ 1 \in 1 .. Len(queue) /\ 1 \in 1 .. Len(replies)
      /\ r.id <= queue[1].id /\ r.id \in Nat /\ queue[1].id \in Nat
  BY <1>1, <1>2, <1>3, HeadIsNext
<1> HIDE DEF r
<1>6. Type(queue[1].func) = "WHOIS" /\ queue[1].who[1] = r.who[1]
  BY <1>1, <1>3, <1>5 DEF TypeHead, HeadNick
<1>7. queue[1].who = <<queue[1].who[1]>>
  <2>1. EndComes(queue[1], requests, replies)
    BY <1>2, <1>5 DEF InStep
  <2>2. ASSUME NEW j \in 1 .. Len(requests), requests[j].id = queue[1].id
        PROVE  queue[1].who = <<queue[1].who[1]>>
    BY <1>2, <1>5, <1>6, <2>2 DEF InStep, RequestFits, Fits
  <2>3. ASSUME NEW j \in 1 .. Len(replies), replies[j].id = queue[1].id
        PROVE  queue[1].who = <<queue[1].who[1]>>
    BY <1>2, <1>5, <1>6, <2>3 DEF InStep, ReplyFits, Fits
  <2> QED
    BY <2>1, <2>2, <2>3 DEF EndComes
<1>8. NumType(r.num) = "WHOIS" /\ r.who = <<r.who[1]>>
  <2>1. NumType(r.num) = "WHOIS"
    BY <1>1 DEF NumType
  <2> QED
    BY <1>4, <2>1 DEF ReplyFits, Fits
<1>9. queue[1].who = r.who
  BY <1>6, <1>7, <1>8, Zenon
<1>10. Head(queue).id = r.id
  <2>1. CASE env.distinct
    <3>1. queue[1].id <= r.id
      BY <1>4, <1>5, <1>6, <1>9, <2>1 DEF ReplyFits, Fits
    <3>2. queue[1].id = r.id
      BY <1>5, <3>1, SameNumber, Zenon
    <3> QED
      BY <1>5, <3>2, Zenon
  <2>2. CASE ~SendsEnd
    <3>1. r.num = "401 !"
      BY <1>1, <1>4, <2>2 DEF ReplyFits
    <3>2. OwnReply(r)
      BY <2>2, <3>1 DEF OwnReply
    <3> QED
      BY <1>4, <3>2
  <2> QED
    BY <2>1, <2>2 DEF Unmistakable
<1>11. ASSUME Got("318"), r.on # <<>> PROVE stuff = Nick
  <2>1. r.num = "318"
    BY <1>11 DEF Got, r
  <2>2. IsQueued(queue, r.id)
    BY <1>5, <1>10 DEF IsQueued
  <2>3. r.num = "318" /\ r.on # <<>> /\ 1 <= 2 /\ IsQueued(queue, r.id) => stuff = r.who[1]
    BY <1>2, <1>5, Zenon DEF InStep, LinesCome
  <2>4. stuff = r.who[1]
    BY <1>11, <2>1, <2>2, <2>3, OneIsLess, Zenon
  <2> QED
    BY <1>1, <2>4
<1> QED
  BY <1>10, <1>11

(* Answers carry no request: each that comes ends the request it is for, and *)
(* each request has one to come (whois.c walks only the head of its queue).  *)
THEOREM AnswersFindTheirRequests == Spec => []QueueInStep
<1> DEFINE Inv == Undisturbed => StepInv
<1>1. Init => Inv
  BY EmptyInStep DEF Init, StepInv
<1>2. Inv /\ [Next]_vars => Inv'
  <2> SUFFICES ASSUME Inv, [Next]_vars, Undisturbed' PROVE StepInv'
    OBVIOUS
  <2>1. Undisturbed
    BY DEF Undisturbed, KnowsAll, Knows, Questions, Next, vars
  <2> QED
    BY <2>1, InStepStep
<1>3. Inv => QueueInStep
  BY StepNeverStuck, StepOwnList, StepOwnAnswer DEF QueueInStep
<1> HIDE DEF Inv
<1> QED
  BY <1>1, <1>2, <1>3, PTL DEF Spec

=============================================================================
