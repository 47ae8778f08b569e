--------------------------- MODULE PartsUserProofs ---------------------------
(***************************************************************************)
(* Queues of commands, /ON and /WHO, for any commands, hooks and people.   *)
(***************************************************************************)
EXTENDS Queues, Hooks, Who, TLAPS, SequenceTheorems, FiniteSetTheorems, WellFoundedInduction

-----------------------------------------------------------------------------
(* Queues.  What is dropped because its queue ran has run itself.          *)
(*                                                                         *)
(* Identities rise along every list, and what is made gets a higher one.   *)
(* So "before the entry that runs" can be said of identities, and stays    *)
(* true of a queue that is shortened, deleted or added to meanwhile.       *)
(***************************************************************************)

Entry == [id: Nat, what: QueuedCommands]
Queue == [id: Nat \ {0}, name: {cmd.name : cmd \in QueuedCommands}, list: Seq(Entry)]
State == [queues: Seq(Queue), made: Nat, ended: {"no", "null", "freed"}]
Call == [cmd: QueuedCommands, done: BOOLEAN, before: Nat, queue: Nat \ {0}, at: Nat]

Rising(list) == \A i, j \in 1 .. Len(list) : i < j => list[i].id < list[j].id
UpTo(list, n) == \A i \in 1 .. Len(list) : list[i].id <= n

Sound(s) ==
    /\ s \in State
    /\ Rising(s.queues) /\ UpTo(s.queues, s.made)
    /\ \A k \in 1 .. Len(s.queues) : Rising(s.queues[k].list) /\ UpTo(s.queues[k].list, s.made)

\* Queue q has entry e.
Has(s, q, e) ==
    \E k \in 1 .. Len(s.queues) :
        /\ s.queues[k].id = q
        /\ \E i \in 1 .. Len(s.queues[k].list) : s.queues[k].list[i].id = e

\* What t has more than s was made after s.
Follows(s, t) ==
    /\ s.made <= t.made
    /\ \A q, e \in Nat : Has(t, q, e) => Has(s, q, e) \/ e > s.made

\* Of the queue that a call runs, the entries before the one it is at have run.
CallRight(s, past, c) ==
    /\ c.at <= s.made /\ (c.done => c.at \in past)
    /\ \A e \in Nat : Has(s, c.queue, e) /\ e < c.at => e \in past

QueuesInv ==
    /\ Sound(Now) /\ typing \subseteq QueuedCommands
    /\ queueCalls \in Seq(Call)
    /\ \A i \in 1 .. Len(queueCalls) : CallRight(Now, ranEntries, queueCalls[i])
    /\ dropped \subseteq ranEntries

-----------------------------------------------------------------------------
(* Lists.                                                                  *)

LEMMA Elements ==
    ASSUME NEW S, NEW s \in Seq(S)
    PROVE  Len(s) \in Nat /\ \A i \in 1 .. Len(s) : s[i] \in S
OBVIOUS

LEMMA Removal ==
    ASSUME NEW S, NEW s \in Seq(S), NEW i \in 1 .. Len(s)
    PROVE  /\ RemoveAt(s, i) \in Seq(S) /\ Len(RemoveAt(s, i)) = Len(s) - 1
           /\ \A j \in 1 .. Len(s) - 1 : RemoveAt(s, i)[j] = IF j < i THEN s[j] ELSE s[j + 1]
<1> DEFINE n == Len(s)
           a == SubSeq(s, 1, i - 1)
           b == SubSeq(s, i + 1, n)
<1>1. n \in Nat /\ \A j \in 1 .. n : s[j] \in S
    BY Elements
<1>2. a \in Seq(S) /\ Len(a) = i - 1 /\ \A j \in 1 .. i - 1 : a[j] = s[j]
    <2>1. \A j \in 1 .. i - 1 : s[j] \in S
        BY <1>1
    <2>2. /\ a \in Seq(S) /\ Len(a) = IF 1 <= i - 1 THEN i - 1 - 1 + 1 ELSE 0
          /\ \A j \in 1 .. i - 1 - 1 + 1 : a[j] = s[1 + j - 1]
        BY <2>1, SubSeqProperties, i - 1 \in Int, 1 \in Int
    <2>3. QED BY <2>2, <1>1
<1>3. b \in Seq(S) /\ Len(b) = n - i /\ \A j \in 1 .. n - i : b[j] = s[i + j]
    <2>1. \A j \in i + 1 .. n : s[j] \in S
        BY <1>1
    <2>2. /\ b \in Seq(S) /\ Len(b) = IF i + 1 <= n THEN n - (i + 1) + 1 ELSE 0
          /\ \A j \in 1 .. n - (i + 1) + 1 : b[j] = s[i + 1 + j - 1]
        BY <2>1, <1>1, SubSeqProperties, i + 1 \in Int, n \in Int
    <2>3. QED BY <2>2, <1>1
<1> HIDE DEF n, a, b
<1>4. /\ a \o b \in Seq(S) /\ Len(a \o b) = Len(a) + Len(b)
      /\ \A j \in 1 .. Len(a) + Len(b) : (a \o b)[j] = IF j <= Len(a) THEN a[j] ELSE b[j - Len(a)]
    BY <1>2, <1>3, ConcatProperties
<1>5. RemoveAt(s, i) = a \o b
    BY DEF RemoveAt, a, b, n
<1>6. Len(a \o b) = n - 1
    BY <1>1, <1>2, <1>3, <1>4 DEF n
<1>7. ASSUME NEW j \in 1 .. n - 1 PROVE (a \o b)[j] = IF j < i THEN s[j] ELSE s[j + 1]
    <2>1. CASE j < i
        BY <2>1, <1>1, <1>2, <1>3, <1>4, <1>6 DEF n
    <2>2. CASE ~(j < i)
        <3>1. j - (i - 1) \in 1 .. n - i /\ i + (j - (i - 1)) = j + 1
            BY <2>2, <1>1 DEF n
        <3>2. (a \o b)[j] = b[j - (i - 1)]
            BY <2>2, <1>1, <1>2, <1>3, <1>4, <1>6, SMTT(30) DEF n
        <3>3. QED BY <2>2, <3>1, <3>2, <1>3
    <2>3. QED BY <2>1, <2>2
<1>8. QED BY <1>4, <1>5, <1>6, <1>7 DEF n

\* A part of a list rises if the list does.
LEMMA RemovalRises ==
    ASSUME NEW S, NEW s \in Seq(S), \A i \in 1 .. Len(s) : s[i].id \in Nat, Rising(s),
           NEW i \in 1 .. Len(s)
    PROVE  /\ Rising(RemoveAt(s, i))
           /\ \A j \in 1 .. Len(RemoveAt(s, i)) : \E k \in 1 .. Len(s) : RemoveAt(s, i)[j] = s[k]
<1> DEFINE r == RemoveAt(s, i)
           from(j) == IF j < i THEN j ELSE j + 1
<1>1. /\ Len(s) \in Nat /\ Len(r) = Len(s) - 1
      /\ \A j \in 1 .. Len(s) - 1 : r[j] = s[from(j)]
    BY Elements, Removal
<1>2. \A j \in 1 .. Len(s) - 1 : from(j) \in 1 .. Len(s)
    BY <1>1
<1>3. \A j, k \in 1 .. Len(s) - 1 : j < k => from(j) < from(k)
    BY <1>1
<1> HIDE DEF r, from
<1>4. Rising(r)
    BY <1>1, <1>2, <1>3 DEF Rising
<1>5. QED BY <1>1, <1>2, <1>4 DEF r

LEMMA AppendRises ==
    ASSUME NEW S, NEW s \in Seq(S), NEW e \in S, Rising(s), \A i \in 1 .. Len(s) : s[i].id < e.id
    PROVE  /\ Append(s, e) \in Seq(S) /\ Rising(Append(s, e))
           /\ \A j \in 1 .. Len(Append(s, e)) :
                 Append(s, e)[j] = e \/ \E k \in 1 .. Len(s) : Append(s, e)[j] = s[k]
<1> DEFINE r == Append(s, e)
<1>1. /\ Len(s) \in Nat /\ r \in Seq(S) /\ Len(r) = Len(s) + 1
      /\ \A i \in 1 .. Len(s) : r[i] = s[i]
      /\ r[Len(s) + 1] = e
    BY Elements, AppendProperties
<1> HIDE DEF r
<1>2. Rising(r)
    <2> SUFFICES ASSUME NEW i \in 1 .. Len(s) + 1, NEW j \in 1 .. Len(s) + 1, i < j
                 PROVE  r[i].id < r[j].id
        BY <1>1 DEF Rising
    <2>1. i \in 1 .. Len(s) /\ r[i] = s[i]
        BY <1>1
    <2>2. CASE j = Len(s) + 1
        BY <2>1, <2>2, <1>1
    <2>3. CASE j # Len(s) + 1
        BY <2>1, <2>3, <1>1 DEF Rising
    <2>4. QED BY <2>2, <2>3
<1>3. \A j \in 1 .. Len(r) : r[j] = e \/ \E k \in 1 .. Len(s) : r[j] = s[k]
    <2> SUFFICES ASSUME NEW j \in 1 .. Len(r), r[j] # e PROVE \E k \in 1 .. Len(s) : r[j] = s[k]
        OBVIOUS
    <2>1. j \in 1 .. Len(s)
        BY <1>1
    <2>2. QED BY <2>1, <1>1
<1>4. QED BY <1>1, <1>2, <1>3 DEF r

-----------------------------------------------------------------------------
(* What a QUEUE does to the queues.                                        *)

LEMMA StateParts ==
    ASSUME NEW s, Sound(s)
    PROVE  /\ s.queues \in Seq(Queue) /\ s.made \in Nat /\ s.ended \in {"no", "null", "freed"}
           /\ Len(s.queues) \in Nat
           /\ \A k \in 1 .. Len(s.queues) :
                 /\ s.queues[k] \in Queue /\ s.queues[k].id \in Nat /\ s.queues[k].id # 0
                 /\ s.queues[k].list \in Seq(Entry) /\ Len(s.queues[k].list) \in Nat
                 /\ \A i \in 1 .. Len(s.queues[k].list) :
                       s.queues[k].list[i] \in Entry /\ s.queues[k].list[i].id \in Nat
<1>1. s.queues \in Seq(Queue) /\ s.made \in Nat /\ s.ended \in {"no", "null", "freed"}
    BY DEF Sound, State
<1>3. Len(s.queues) \in Nat /\ \A k \in 1 .. Len(s.queues) : s.queues[k] \in Queue
    BY <1>1, Elements
<1>4. ASSUME NEW k \in 1 .. Len(s.queues)
      PROVE  /\ s.queues[k].id \in Nat /\ s.queues[k].id # 0
             /\ s.queues[k].list \in Seq(Entry) /\ Len(s.queues[k].list) \in Nat
             /\ \A i \in 1 .. Len(s.queues[k].list) :
                   s.queues[k].list[i] \in Entry /\ s.queues[k].list[i].id \in Nat
    <2>1. s.queues[k].id \in Nat /\ s.queues[k].id # 0 /\ s.queues[k].list \in Seq(Entry)
        BY <1>3 DEF Queue
    <2>2. /\ Len(s.queues[k].list) \in Nat
          /\ \A i \in 1 .. Len(s.queues[k].list) : s.queues[k].list[i] \in Entry
        BY <2>1, Elements
    <2>3. QED BY <2>1, <2>2 DEF Entry
<1>5. QED BY <1>1, <1>3, <1>4

LEMMA FollowsItself ==
    ASSUME NEW s, Sound(s) PROVE Follows(s, s)
BY StateParts DEF Follows

LEMMA FollowsOn ==
    ASSUME NEW s, NEW t, NEW u, Sound(s), Sound(t), Sound(u), Follows(s, t), Follows(t, u)
    PROVE  Follows(s, u)
<1>1. s.made \in Nat /\ t.made \in Nat /\ u.made \in Nat
    BY StateParts
<1>2. QED BY <1>1 DEF Follows

\* What is changed, written out.
LEMMA Changed ==
    ASSUME NEW s \in State, NEW x, NEW y
    PROVE  /\ [s EXCEPT !.queues = x] = [queues |-> x, made |-> s.made, ended |-> s.ended]
           /\ [s EXCEPT !.queues = x, !.made = y] = [queues |-> x, made |-> y, ended |-> s.ended]
<1> DEFINE u == [s EXCEPT !.queues = x]
<1>1. u = [queues |-> x, made |-> s.made, ended |-> s.ended]
    BY DEF State
<1> HIDE DEF u
<1>2. [u EXCEPT !.made = y] = [queues |-> x, made |-> y, ended |-> s.ended]
    BY <1>1
<1>3. QED BY <1>1, <1>2 DEF u

LEMMA ChangedList ==
    ASSUME NEW s \in State, NEW k \in 1 .. Len(s.queues), NEW e, NEW list
    PROVE  /\ [s EXCEPT !.queues[k].list = Append(@, e), !.made = @ + 1] =
                 [queues |-> [s.queues EXCEPT ![k] = [@ EXCEPT !.list = Append(s.queues[k].list, e)]],
                  made |-> s.made + 1, ended |-> s.ended]
           /\ [s EXCEPT !.queues[k].list = list] =
                 [queues |-> [s.queues EXCEPT ![k] = [@ EXCEPT !.list = list]],
                  made |-> s.made, ended |-> s.ended]
<1> DEFINE x == [s.queues EXCEPT ![k] = [@ EXCEPT !.list = Append(s.queues[k].list, e)]]
           y == [s.queues EXCEPT ![k] = [@ EXCEPT !.list = list]]
<1>1. [s EXCEPT !.queues = x, !.made = s.made + 1] = [queues |-> x, made |-> s.made + 1, ended |-> s.ended]
    BY Changed
<1>2. [s EXCEPT !.queues = y] = [queues |-> y, made |-> s.made, ended |-> s.ended]
    BY Changed
<1>3. QED BY <1>1, <1>2, Zenon

\* Only the end of the program is another.
LEMMA EndsSound ==
    ASSUME NEW s, Sound(s) PROVE Sound(Null(s)) /\ Follows(s, Null(s)) /\ Null(s).ended = "null"
<1>0. s \in State
    BY DEF Sound
<1>1. /\ Null(s) = [queues |-> s.queues, made |-> s.made, ended |-> "null"]
      /\ s.queues \in Seq(Queue) /\ s.made \in Nat
    BY <1>0 DEF Null, State
<1>2. Null(s).queues = s.queues /\ Null(s).made = s.made /\ Null(s) \in State
    BY <1>1 DEF State
<1>3. Null(s).ended = "null"
    BY <1>1
<1>4. QED BY <1>1, <1>2, <1>3 DEF Sound, Follows, Has

\* The list of one queue is another: what is in it was there or has just been made.
LEMMA Relisted ==
    ASSUME NEW s, Sound(s), NEW k \in 1 .. Len(s.queues), NEW list \in Seq(Entry), NEW made2 \in Nat,
           s.made <= made2, Rising(list), UpTo(list, made2),
           \A i \in 1 .. Len(list) :
              list[i].id > s.made \/ \E j \in 1 .. Len(s.queues[k].list) : list[i].id = s.queues[k].list[j].id,
           NEW t, t = [queues |-> [s.queues EXCEPT ![k] = [@ EXCEPT !.list = list]],
                       made |-> made2, ended |-> s.ended]
    PROVE  Sound(t) /\ Follows(s, t)
<1> DEFINE q == [s.queues EXCEPT ![k] = [@ EXCEPT !.list = list]]
<1>1. /\ s.queues \in Seq(Queue) /\ s.made \in Nat /\ s.ended \in {"no", "null", "freed"}
      /\ Len(s.queues) \in Nat
      /\ \A m \in 1 .. Len(s.queues) : s.queues[m] \in Queue /\ s.queues[m].id \in Nat
    BY StateParts
<1>2. /\ [s.queues[k] EXCEPT !.list = list] \in Queue
      /\ [s.queues[k] EXCEPT !.list = list].id = s.queues[k].id
      /\ [s.queues[k] EXCEPT !.list = list].list = list
    BY <1>1 DEF Queue
<1>3. /\ q \in Seq(Queue) /\ Len(q) = Len(s.queues)
      /\ q[k] = [s.queues[k] EXCEPT !.list = list]
      /\ \A m \in 1 .. Len(s.queues) : m # k => q[m] = s.queues[m]
    BY <1>1, <1>2, ExceptSeq
<1> HIDE DEF q
<1>4. /\ t.queues = q /\ t.made = made2 /\ t.ended = s.ended /\ t \in State
    BY <1>1, <1>3 DEF q, State
<1>5. /\ \A m \in 1 .. Len(q) : q[m].id = s.queues[m].id
      /\ q[k].list = list
      /\ \A m \in 1 .. Len(q) : m # k => q[m].list = s.queues[m].list
    BY <1>2, <1>3
<1>6. Rising(q) /\ UpTo(q, made2)
    <2>1. Rising(s.queues) /\ UpTo(s.queues, s.made)
        BY DEF Sound
    <2>2. Rising(q)
        BY <2>1, <1>3, <1>5 DEF Rising
    <2>3. ASSUME NEW m \in 1 .. Len(q) PROVE q[m].id <= made2
        <3>1. q[m].id = s.queues[m].id /\ m \in 1 .. Len(s.queues)
            BY <1>3, <1>5
        <3>2. s.queues[m].id <= s.made /\ s.queues[m].id \in Nat
            BY <3>1, <2>1, <1>1 DEF UpTo
        <3>3. QED BY <3>1, <3>2, <1>1, SMTT(30)
    <2>4. QED BY <2>2, <2>3 DEF UpTo
<1>7. ASSUME NEW m \in 1 .. Len(q) PROVE Rising(q[m].list) /\ UpTo(q[m].list, made2)
    <2>1. CASE m = k
        BY <2>1, <1>5
    <2>2. CASE m # k
        <3>1. q[m].list = s.queues[m].list /\ m \in 1 .. Len(s.queues)
            BY <2>2, <1>3, <1>5
        <3>2. Rising(s.queues[m].list) /\ UpTo(s.queues[m].list, s.made)
            BY <3>1 DEF Sound
        <3>3. \A i \in 1 .. Len(s.queues[m].list) : s.queues[m].list[i].id \in Nat
            BY <3>1, StateParts
        <3>4. QED BY <3>1, <3>2, <3>3, <1>1, SMTT(30) DEF UpTo
    <2>3. QED BY <2>1, <2>2
<1>8. ASSUME NEW p \in Nat, NEW e \in Nat, Has(t, p, e) PROVE Has(s, p, e) \/ e > s.made
    <2>1. PICK m \in 1 .. Len(q) : q[m].id = p /\ \E i \in 1 .. Len(q[m].list) : q[m].list[i].id = e
        BY <1>8, <1>4, ZenonT(60) DEF Has
    <2>2. PICK i \in 1 .. Len(q[m].list) : q[m].list[i].id = e
        BY <2>1
    <2>3. m \in 1 .. Len(s.queues) /\ s.queues[m].id = p
        BY <2>1, <1>3, <1>5
    <2>4. CASE m = k
        <3>1. i \in 1 .. Len(list) /\ list[i].id = e
            BY <2>2, <2>4, <1>5
        <3>2. QED BY <3>1, <2>3, <2>4 DEF Has
    <2>5. CASE m # k
        BY <2>2, <2>3, <2>5, <1>5, <2>1 DEF Has
    <2>6. QED BY <2>4, <2>5
<1>9. QED BY <1>4, <1>6, <1>7, <1>8 DEF Sound, Follows

LEMMA MakeNewQueueSound ==
    ASSUME NEW s, Sound(s), NEW cmd \in QueuedCommands
    PROVE  /\ Sound(MakeNewQueue(s, cmd.name)) /\ Follows(s, MakeNewQueue(s, cmd.name))
           /\ Len(MakeNewQueue(s, cmd.name).queues) = Len(s.queues) + 1
<1> DEFINE new == [id |-> s.made + 1, name |-> cmd.name, list |-> <<>>]
           q == Append(s.queues, new)
           t == MakeNewQueue(s, cmd.name)
<1>1. /\ s.queues \in Seq(Queue) /\ s.made \in Nat /\ s.ended \in {"no", "null", "freed"}
      /\ \A k \in 1 .. Len(s.queues) : s.queues[k].id \in Nat
    BY StateParts
<1>2. new \in Queue /\ new.id = s.made + 1 /\ new.list = <<>>
    <2>1. <<>> \in Seq(Entry)
        OBVIOUS
    <2>2. QED BY <2>1, <1>1 DEF Queue
<1>3. \A k \in 1 .. Len(s.queues) : s.queues[k].id < new.id
    BY <1>1, <1>2 DEF Sound, UpTo
<1> HIDE DEF new
<1>4. /\ q \in Seq(Queue) /\ Rising(q)
      /\ \A j \in 1 .. Len(q) : q[j] = new \/ \E k \in 1 .. Len(s.queues) : q[j] = s.queues[k]
    <2>1. Rising(s.queues)
        BY DEF Sound
    <2>2. QED BY <1>1, <1>2, <1>3, <2>1, AppendRises
<1>5. Len(q) = Len(s.queues) + 1
    BY <1>1, <1>2, AppendProperties
<1>6. /\ t.queues = q /\ t.made = s.made + 1 /\ t.ended = s.ended /\ t \in State
    <2>1. s \in State
        BY DEF Sound
    <2>2. t = [queues |-> q, made |-> s.made + 1, ended |-> s.ended]
        BY <2>1, Changed, Zenon DEF MakeNewQueue, new
    <2>3. QED BY <2>2, <1>1, <1>4 DEF State
<1> HIDE DEF q, t
<1>7. UpTo(q, s.made + 1)
    BY <1>1, <1>2, <1>3, <1>4, SMTT(30) DEF UpTo
<1>8. ASSUME NEW j \in 1 .. Len(q) PROVE Rising(q[j].list) /\ UpTo(q[j].list, s.made + 1)
    <2>1. CASE q[j] = new
        BY <2>1, <1>2 DEF Rising, UpTo
    <2>2. CASE \E k \in 1 .. Len(s.queues) : q[j] = s.queues[k]
        <3>1. PICK k \in 1 .. Len(s.queues) : q[j] = s.queues[k]
            BY <2>2
        <3>2. Rising(s.queues[k].list) /\ UpTo(s.queues[k].list, s.made)
            BY DEF Sound
        <3>3. \A i \in 1 .. Len(s.queues[k].list) : s.queues[k].list[i].id \in Nat
            BY StateParts
        <3>4. QED BY <3>1, <3>2, <3>3, <1>1, SMTT(30) DEF UpTo
    <2>3. QED BY <2>1, <2>2, <1>4
<1>9. ASSUME NEW p \in Nat, NEW e \in Nat, Has(t, p, e) PROVE Has(s, p, e)
    <2>1. PICK j \in 1 .. Len(q) : q[j].id = p /\ \E i \in 1 .. Len(q[j].list) : q[j].list[i].id = e
        BY <1>9, <1>6 DEF Has
    <2>2. q[j] # new
        BY <2>1, <1>2
    <2>3. PICK k \in 1 .. Len(s.queues) : q[j] = s.queues[k]
        BY <2>2, <1>4
    <2>4. QED BY <2>1, <2>3 DEF Has
<1>10. Sound(t) /\ Follows(s, t)
    BY <1>1, <1>4, <1>6, <1>7, <1>8, <1>9 DEF Sound, Follows
<1>11. QED BY <1>5, <1>6, <1>10 DEF t

\* A list that lost an entry, or some.
LEMMA Shortened ==
    ASSUME NEW s, Sound(s), NEW k \in 1 .. Len(s.queues), NEW list \in Seq(Entry), Rising(list),
           \A i \in 1 .. Len(list) :
              \E j \in 1 .. Len(s.queues[k].list) : list[i] = s.queues[k].list[j]
    PROVE  Sound([s EXCEPT !.queues[k].list = list]) /\ Follows(s, [s EXCEPT !.queues[k].list = list])
<1> DEFINE t == [s EXCEPT !.queues[k].list = list]
<1>1. t = [queues |-> [s.queues EXCEPT ![k] = [@ EXCEPT !.list = list]], made |-> s.made, ended |-> s.ended]
    <2>1. s \in State
        BY DEF Sound
    <2>2. QED BY <2>1, ChangedList, ZenonT(60)
<1> HIDE DEF t
<1>2. s.made \in Nat /\ s.made <= s.made
    BY StateParts
<1>3. UpTo(s.queues[k].list, s.made)
    BY DEF Sound
<1>4. UpTo(list, s.made)
    BY <1>3 DEF UpTo
<1>5. \A i \in 1 .. Len(list) :
         list[i].id > s.made \/ \E j \in 1 .. Len(s.queues[k].list) : list[i].id = s.queues[k].list[j].id
    OBVIOUS
<1>6. Sound(t) /\ Follows(s, t)
    BY <1>1, <1>2, <1>4, <1>5, Relisted
<1>7. QED BY <1>6 DEF t

LEMMA AddCommandsSound ==
    ASSUME NEW s, Sound(s), NEW k \in Nat \ {0}, NEW what \in QueuedCommands
    PROVE  Sound(AddCommands(s, k, what)) /\ Follows(s, AddCommands(s, k, what))
<1>1. CASE s.ended # "no"
    BY <1>1, FollowsItself DEF AddCommands
<1>2. CASE s.ended = "no" /\ k > Len(s.queues)
    BY <1>2, EndsSound DEF AddCommands
<1>3. CASE s.ended = "no" /\ ~(k > Len(s.queues))
    <2> DEFINE e == [id |-> s.made + 1, what |-> what]
               old == s.queues[k].list
               list == Append(old, e)
               t == AddCommands(s, k, what)
    <2>1. /\ k \in 1 .. Len(s.queues) /\ s.made \in Nat
        BY <1>3, StateParts
    <2>2. old \in Seq(Entry) /\ \A i \in 1 .. Len(old) : old[i].id \in Nat
        BY <2>1, StateParts
    <2>3. Rising(old) /\ UpTo(old, s.made)
        BY <2>1 DEF Sound
    <2>4. e \in Entry /\ e.id = s.made + 1
        BY <2>1 DEF Entry
    <2>5. t = [queues |-> [s.queues EXCEPT ![k] = [@ EXCEPT !.list = list]],
               made |-> s.made + 1, ended |-> s.ended]
        <3>1. s \in State
            BY DEF Sound
        <3>2. t = [s EXCEPT !.queues[k].list = Append(@, e), !.made = @ + 1]
            BY <1>3 DEF AddCommands
        <3>3. QED BY <2>1, <3>1, <3>2, ChangedList, ZenonT(60)
    <2> HIDE DEF e, old, t
    <2>6. \A i \in 1 .. Len(old) : old[i].id < e.id
        BY <2>1, <2>2, <2>3, <2>4 DEF UpTo
    <2>7. /\ list \in Seq(Entry) /\ Rising(list)
          /\ \A j \in 1 .. Len(list) : list[j] = e \/ \E i \in 1 .. Len(old) : list[j] = old[i]
        BY <2>2, <2>3, <2>4, <2>6, AppendRises
    <2> HIDE DEF list
    <2>8. UpTo(list, s.made + 1)
        <3>1. \A i \in 1 .. Len(old) : old[i].id \in Nat /\ old[i].id <= s.made
            BY ONLY <2>2, <2>3, Zenon DEF UpTo
        <3>2. (\A m \in Nat : m <= s.made => m <= s.made + 1) /\ s.made + 1 <= s.made + 1
            BY <2>1
        <3>3. QED BY ONLY <2>4, <2>7, <3>1, <3>2, Zenon DEF UpTo
    <2>9. \A i \in 1 .. Len(list) :
             list[i].id > s.made \/ \E j \in 1 .. Len(s.queues[k].list) : list[i].id = s.queues[k].list[j].id
        BY ONLY <2>1, <2>4, <2>7, SMTT(30) DEF old
    <2>10. s.made + 1 \in Nat /\ s.made <= s.made + 1
        BY <2>1
    <2>11. Sound(t) /\ Follows(s, t)
        BY <2>1, <2>5, <2>7, <2>8, <2>9, <2>10, Relisted
    <2>12. QED BY <2>11 DEF t
<1>4. QED BY <1>1, <1>2, <1>3

LEMMA RemoveAQueueSound ==
    ASSUME NEW s, Sound(s), NEW k \in Nat \ {0}
    PROVE  Sound(RemoveAQueue(s, k)) /\ Follows(s, RemoveAQueue(s, k))
<1>1. CASE s.ended # "no"
    BY <1>1, FollowsItself DEF RemoveAQueue
<1>2. CASE s.ended = "no" /\ k > Len(s.queues)
    BY <1>2, EndsSound DEF RemoveAQueue
<1>3. CASE s.ended = "no" /\ ~(k > Len(s.queues))
    <2> DEFINE q == RemoveAt(s.queues, k)
               t == RemoveAQueue(s, k)
    <2>1. /\ k \in 1 .. Len(s.queues) /\ s.queues \in Seq(Queue)
          /\ s.made \in Nat /\ s.ended \in {"no", "null", "freed"}
          /\ \A j \in 1 .. Len(s.queues) : s.queues[j].id \in Nat
        <3>1. /\ s.queues \in Seq(Queue) /\ Len(s.queues) \in Nat
              /\ s.made \in Nat /\ s.ended \in {"no", "null", "freed"}
            BY StateParts
        <3>2. \A j \in 1 .. Len(s.queues) : s.queues[j].id \in Nat
            BY StateParts
        <3>3. QED BY <1>3, <3>1, <3>2
    <2>2. t = [queues |-> q, made |-> s.made, ended |-> s.ended]
        <3>1. s \in State
            BY DEF Sound
        <3>2. t = [s EXCEPT !.queues = q]
            BY <1>3 DEF RemoveAQueue
        <3>3. QED BY <3>1, <3>2, Changed
    <2>3. q \in Seq(Queue)
        BY <2>1, Removal
    <2>4. Rising(s.queues) /\ UpTo(s.queues, s.made)
        BY DEF Sound
    <2>5. Rising(q) /\ \A j \in 1 .. Len(q) : \E m \in 1 .. Len(s.queues) : q[j] = s.queues[m]
        <3> DEFINE all == s.queues
        <3>1. all \in Seq(Queue) /\ k \in 1 .. Len(all) /\ Rising(all)
            BY <2>1, <2>4
        <3>2. \A j \in 1 .. Len(all) : all[j].id \in Nat
            BY <2>1
        <3> HIDE DEF all
        <3>3. /\ Rising(RemoveAt(all, k))
              /\ \A j \in 1 .. Len(RemoveAt(all, k)) : \E m \in 1 .. Len(all) : RemoveAt(all, k)[j] = all[m]
            BY <3>1, <3>2, RemovalRises
        <3>4. QED BY <3>3 DEF all
    <2> HIDE DEF q
    <2>6. t \in State /\ t.queues = q /\ t.made = s.made
        BY <2>1, <2>2, <2>3 DEF State
    <2> HIDE DEF t
    <2>7. UpTo(q, s.made)
        BY <2>4, <2>5 DEF UpTo
    <2>8. \A j \in 1 .. Len(q) : Rising(q[j].list) /\ UpTo(q[j].list, s.made)
        BY <2>5 DEF Sound
    <2>9. \A p, e \in Nat : Has(t, p, e) => Has(s, p, e)
        BY <2>5, <2>6, SMTT(30) DEF Has
    <2>10. Sound(t) /\ Follows(s, t)
        BY <2>1, <2>5, <2>6, <2>7, <2>8, <2>9 DEF Sound, Follows
    <2>11. QED BY <2>10 DEF t
<1>4. QED BY <1>1, <1>2, <1>3

LEMMA Before ==
    ASSUME NEW which \in Nat PROVE Max({1, which - 1}) \in Nat /\ Max({1, which - 1}) >= 1
<1> DEFINE m == Max({1, which - 1})
<1>1. \E x \in {1, which - 1} : \A y \in {1, which - 1} : x >= y
    OBVIOUS
<1>2. m \in {1, which - 1} /\ \A y \in {1, which - 1} : m >= y
    BY <1>1 DEF Max
<1> HIDE DEF m
<1>3. m \in Nat /\ m >= 1
    BY <1>2
<1>4. QED BY <1>3 DEF m

LEMMA DeleteCommandsSound ==
    ASSUME NEW s, Sound(s), NEW k \in 1 .. Len(s.queues), NEW which \in Nat
    PROVE  Sound(DeleteCommands(s, k, which)) /\ Follows(s, DeleteCommands(s, k, which))
<1> DEFINE list == s.queues[k].list
           before == Max({1, which - 1})
           t == DeleteCommands(s, k, which)
<1>1. before \in Nat /\ before >= 1
    BY Before
<1>2. /\ list \in Seq(Entry) /\ Len(list) \in Nat
      /\ \A i \in 1 .. Len(list) : list[i].id \in Nat
      /\ Len(s.queues) \in Nat
    BY StateParts
<1>3. Rising(list)
    BY DEF Sound
<1>4. CASE t = Null(s) \/ t = s
    BY <1>4, EndsSound, FollowsItself DEF t
<1>5. CASE t = RemoveAQueue(s, k)
    <2>1. k \in Nat \ {0}
        BY <1>2
    <2>2. QED BY <1>5, <2>1, RemoveAQueueSound DEF t
<1>6. CASE list # <<>> /\ t = [s EXCEPT !.queues[k].list = Tail(list)]
    <2>1. /\ Tail(list) \in Seq(Entry) /\ Len(Tail(list)) = Len(list) - 1
          /\ \A i \in 1 .. Len(Tail(list)) : Tail(list)[i] = list[i + 1]
        BY <1>2, <1>6, HeadTailProperties
    <2> DEFINE rest == Tail(list)
    <2> HIDE DEF rest, list, t
    <2>2. Rising(rest)
        BY <2>1, <1>2, <1>3 DEF Rising, rest
    <2>3. \A i \in 1 .. Len(rest) : \E j \in 1 .. Len(list) : rest[i] = list[j]
        <3>1. \A i \in 1 .. Len(rest) : i + 1 \in 1 .. Len(list) /\ rest[i] = list[i + 1]
            BY <2>1, <1>2 DEF rest
        <3>2. QED BY <3>1
    <2>4. Sound([s EXCEPT !.queues[k].list = rest]) /\ Follows(s, [s EXCEPT !.queues[k].list = rest])
        BY <2>1, <2>2, <2>3, Shortened DEF list, rest
    <2>5. QED BY <1>6, <2>4 DEF rest, t
<1>7. CASE before < Len(list) /\ t = [s EXCEPT !.queues[k].list = RemoveAt(list, before + 1)]
    <2> DEFINE rest == RemoveAt(list, before + 1)
    <2>1. before + 1 \in 1 .. Len(list)
        BY <1>1, <1>2, <1>7
    <2> HIDE DEF list, before, t
    <2>2. rest \in Seq(Entry)
        BY <1>2, <2>1, Removal
    <2>3. Rising(rest) /\ \A i \in 1 .. Len(rest) : \E j \in 1 .. Len(list) : rest[i] = list[j]
        BY <1>2, <1>3, <2>1, RemovalRises, SMTT(30)
    <2> HIDE DEF rest
    <2>4. Sound([s EXCEPT !.queues[k].list = rest]) /\ Follows(s, [s EXCEPT !.queues[k].list = rest])
        BY <2>2, <2>3, Shortened DEF list
    <2>5. QED BY <1>7, <2>4 DEF rest, t
<1>8. \/ t = Null(s) \/ t = s
      \/ t = RemoveAQueue(s, k)
      \/ list # <<>> /\ t = [s EXCEPT !.queues[k].list = Tail(list)]
      \/ before < Len(list) /\ t = [s EXCEPT !.queues[k].list = RemoveAt(list, before + 1)]
    <2>1. CASE list = <<>>
        BY <2>1 DEF DeleteCommands
    <2>2. CASE list # <<>> /\ which = 1 /\ Len(list) = 1
        BY <2>2 DEF DeleteCommands
    <2>3. CASE list # <<>> /\ which = 1 /\ Len(list) # 1
        BY <2>3, Zenon DEF DeleteCommands
    <2>4. CASE list # <<>> /\ which # 1 /\ before >= Len(list)
        BY <2>4, <1>1, <1>2 DEF DeleteCommands
    <2>5. CASE list # <<>> /\ which # 1 /\ ~(before >= Len(list))
        <3>1. before < Len(list) /\ ~(before > Len(list)) /\ before # Len(list)
            BY <2>5, <1>1, <1>2
        <3>2. QED BY <2>5, <3>1, Zenon DEF DeleteCommands
    <2>6. QED BY <2>1, <2>2, <2>3, <2>4, <2>5
<1>9. QED BY <1>4, <1>5, <1>6, <1>7, <1>8

-----------------------------------------------------------------------------
(* queuecmd().                                                             *)

\* Until it may have to run a queue; if it has to, there is something to run.
LEMMA UntilRunSound ==
    ASSUME NEW s, Sound(s), NEW k \in 1 .. Len(s.queues), NEW cmd \in QueuedCommands
    PROVE  LET t == UntilRun(s, k, cmd) IN
           /\ Sound(t) /\ Follows(s, t)
           /\ "DO" \in cmd.options /\ t.ended = "no" => k <= Len(t.queues) /\ t.queues[k].list # <<>>
<1> DEFINE deleted == IF "DELETE" \in cmd.options THEN DeleteCommands(s, k, cmd.number) ELSE s
           listed == IF "LIST" \in cmd.options THEN PrintQueue(deleted, k) ELSE deleted
           t == UntilRun(s, k, cmd)
<1>1. Sound(deleted) /\ Follows(s, deleted)
    <2>1. cmd.number \in Nat
        BY QueuesAssumption
    <2>2. QED BY <2>1, DeleteCommandsSound, FollowsItself
<1> HIDE DEF deleted
<1>2. Sound(listed) /\ Follows(deleted, listed)
    <2>1. listed = deleted \/ listed = Null(deleted)
        BY DEF PrintQueue
    <2>2. QED BY <2>1, <1>1, EndsSound, FollowsItself
<1> HIDE DEF listed
<1>3. /\ Sound(Null(listed)) /\ Follows(listed, Null(listed)) /\ Null(listed).ended = "null"
      /\ Follows(listed, listed)
    BY <1>2, EndsSound, FollowsItself
<1>4. t = IF "DO" \in cmd.options /\ listed.ended = "no"
             /\ (k > Len(listed.queues) \/ listed.queues[k].list = <<>>)
          THEN Null(listed) ELSE listed
    BY DEF UntilRun, listed, deleted
<1>5. k \in Nat /\ Len(listed.queues) \in Nat
    BY <1>2, StateParts
<1> HIDE DEF t
<1>6. t = listed \/ t = Null(listed)
    BY <1>4
<1>7. Sound(t) /\ Follows(s, t)
    <2>1. Sound(t) /\ Follows(listed, t)
        BY <1>2, <1>3, <1>6
    <2>2. QED BY <1>1, <1>2, <2>1, FollowsOn
<1>8. ASSUME "DO" \in cmd.options, t.ended = "no" PROVE k <= Len(t.queues) /\ t.queues[k].list # <<>>
    <2>1. t = listed
        BY <1>3, <1>6, <1>8
    <2>2. ~(k > Len(listed.queues) \/ listed.queues[k].list = <<>>)
        BY <1>3, <1>4, <1>8, <2>1
    <2>3. QED BY <2>1, <2>2, <1>5
<1>9. QED BY <1>7, <1>8 DEF t

\* And after that.
LEMMA AfterRunSound ==
    ASSUME NEW s, Sound(s), NEW k \in Nat \ {0}, NEW cmd \in QueuedCommands
    PROVE  Sound(AfterRun(s, k, cmd)) /\ Follows(s, AfterRun(s, k, cmd))
<1> DEFINE flushed == IF "FLUSH" \in cmd.options THEN RemoveAQueue(s, k) ELSE s
           t == AfterRun(s, k, cmd)
<1>1. Sound(flushed) /\ Follows(s, flushed)
    BY RemoveAQueueSound, FollowsItself
<1> HIDE DEF flushed
<1>2. CASE cmd.what = <<>>
    BY <1>1, <1>2 DEF AfterRun, flushed
<1>3. CASE cmd.what # <<>>
    <2>1. cmd.what[1] \in QueuedCommands
        BY <1>3, QueuesAssumption
    <2> DEFINE u == AddCommands(flushed, k, cmd.what[1])
    <2>2. Sound(u) /\ Follows(flushed, u)
        BY <1>1, <2>1, AddCommandsSound
    <2>3. t = u
        BY <1>3 DEF AfterRun, flushed
    <2> HIDE DEF u, t
    <2>4. Sound(t) /\ Follows(s, t)
        BY <1>1, <2>2, <2>3, FollowsOn
    <2>5. QED BY <2>4 DEF t
<1>4. QED BY <1>2, <1>3

Less == {ss \in Nat \X Nat : ss[1] < ss[2]}

\* The library's theorem for the order of the numbers, as a set of pairs.
LEMMA LessIsWellFounded == IsWellFoundedOn(Less, Nat)
BY NatLessThanWellFounded DEF OpToRel, Less

LEMMA SomeLeast ==
    ASSUME NEW T \in SUBSET Nat, T # {}
    PROVE  \E z \in T : \A y \in T : z <= y
<1>1. PICK x \in T : \A y \in T : ~ (<<y, x>> \in Less)
    BY LessIsWellFounded, WFMin
<1>2. \A y \in T : ~(y < x)
    BY <1>1 DEF Less
<1>3. QED BY <1>2

LEMMA LeastOf ==
    ASSUME NEW T \in SUBSET Nat, T # {}
    PROVE  Min(T) \in T
BY SomeLeast DEF Min

LEMMA LookupType ==
    ASSUME NEW list \in Seq(Queue), NEW name
    PROVE  Lookup(list, name) \in 1 .. Len(list) + 1
<1> DEFINE T == {i \in DOMAIN list : list[i].name = name} \cup {Len(list) + 1}
<1>1. Len(list) \in Nat /\ DOMAIN list = 1 .. Len(list)
    OBVIOUS
<1>2. T \in SUBSET (1 .. Len(list) + 1) /\ T \in SUBSET Nat /\ T # {}
    BY <1>1
<1>3. Lookup(list, name) = Min(T)
    BY DEF Lookup
<1> HIDE DEF T
<1>4. QED BY <1>2, <1>3, LeastOf

\* A queue has its identity to itself.
LEMMA OneQueue ==
    ASSUME NEW s, Sound(s), NEW k \in 1 .. Len(s.queues), NEW m \in 1 .. Len(s.queues),
           s.queues[k].id = s.queues[m].id
    PROVE  k = m
<1>1. /\ Len(s.queues) \in Nat /\ s.queues[k].id \in Nat /\ s.queues[m].id \in Nat
    BY StateParts
<1>2. Rising(s.queues)
    BY DEF Sound
<1>3. QED BY <1>1, <1>2 DEF Rising

\* What holds of a call goes on to hold.
LEMMA StaysRight ==
    ASSUME NEW s, NEW t, Sound(s), Sound(t), Follows(s, t), NEW c \in Call,
           NEW ran1, NEW ran2, ran1 \subseteq ran2, CallRight(s, ran1, c)
    PROVE  CallRight(t, ran2, c)
<1>1. s.made \in Nat /\ t.made \in Nat /\ s.made <= t.made /\ c.at \in Nat /\ c.queue \in Nat
    BY StateParts DEF Follows, Call
<1>2. c.at <= t.made /\ (c.done => c.at \in ran2)
    BY <1>1 DEF CallRight
<1>3. ASSUME NEW e \in Nat, Has(t, c.queue, e), e < c.at PROVE e \in ran2
    <2>1. Has(s, c.queue, e) \/ e > s.made
        BY <1>1, <1>3 DEF Follows
    <2>2. Has(s, c.queue, e)
        BY <1>1, <1>3, <2>1 DEF CallRight
    <2>3. QED BY <1>3, <2>2 DEF CallRight
<1>4. QED BY <1>2, <1>3 DEF CallRight

\* A queue begins to run at its first entry.
LEMMA StartsRight ==
    ASSUME NEW s, Sound(s), NEW k \in 1 .. Len(s.queues), s.queues[k].list # <<>>, NEW past,
           NEW c, c.queue = s.queues[k].id, c.at = s.queues[k].list[1].id, c.done = FALSE
    PROVE  /\ CallRight(s, past, c) /\ c.queue \in Nat \ {0} /\ c.at \in Nat
<1> DEFINE list == s.queues[k].list
<1>1. /\ s.made \in Nat /\ s.queues[k].id \in Nat \ {0}
      /\ list \in Seq(Entry) /\ Len(list) \in Nat
      /\ \A i \in 1 .. Len(list) : list[i].id \in Nat
    BY StateParts
<1>2. 1 \in 1 .. Len(list)
    BY <1>1
<1>3. Rising(list) /\ UpTo(list, s.made)
    BY DEF Sound
<1>4. c.at \in Nat /\ c.at <= s.made
    BY <1>1, <1>2, <1>3 DEF UpTo
<1>5. ASSUME NEW e \in Nat, Has(s, c.queue, e), e < c.at PROVE FALSE
    <2>1. PICK m \in 1 .. Len(s.queues) :
                  /\ s.queues[m].id = c.queue
                  /\ \E i \in 1 .. Len(s.queues[m].list) : s.queues[m].list[i].id = e
        BY <1>5 DEF Has
    <2>2. m = k
        BY <2>1, OneQueue
    <2>3. PICK i \in 1 .. Len(list) : list[i].id = e
        BY <2>1, <2>2
    <2>4. i = 1 \/ list[1].id < list[i].id
        BY <1>1, <1>2, <1>3 DEF Rising
    <2>5. QED BY <2>3, <2>4, <1>1, <1>2, <1>5, SMTT(30)
<1>6. QED BY <1>1, <1>4, <1>5 DEF CallRight

LEMMA BecomesIt ==
    ASSUME NEW s \in State, Becomes(s) PROVE Now' = s
BY DEF Becomes, Now, State

\* All calls go on to be right.
LEMMA AllStayRight ==
    ASSUME NEW s, NEW t, Sound(s), Sound(t), Follows(s, t), NEW calls \in Seq(Call),
           NEW past, \A i \in 1 .. Len(calls) : CallRight(s, past, calls[i])
    PROVE  \A i \in 1 .. Len(calls) : CallRight(t, past, calls[i])
<1>1. ASSUME NEW i \in 1 .. Len(calls) PROVE CallRight(t, past, calls[i])
    <2>1. calls[i] \in Call
        BY Elements
    <2>2. QED BY <2>1, StaysRight
<1>2. QED BY <1>1

\* queuecmd(), typed or run by the innermost call.
LEMMA QueueCmdRight ==
    ASSUME Sound(Now), ended = "no", NEW cmd \in QueuedCommands, NEW calls \in Seq(Call),
           NEW past, \A i \in 1 .. Len(calls) : CallRight(Now, past, calls[i]),
           QueueCmd(cmd, calls)
    PROVE  /\ Sound(Now') /\ queueCalls' \in Seq(Call)
           /\ \A i \in 1 .. Len(queueCalls') : CallRight(Now', past, queueCalls'[i])
<1> DEFINE k == Lookup(queues, cmd.name)
           absent == k > Len(queues)
           found == IF absent THEN MakeNewQueue(Now, cmd.name) ELSE Now
           s == UntilRun(found, k, cmd)
<1>1. Now.queues = queues /\ queues \in Seq(Queue) /\ Len(queues) \in Nat
    <2>1. Now.queues = queues
        BY DEF Now
    <2>2. QED BY <2>1, StateParts
<1>2. k \in 1 .. Len(queues) + 1
    BY <1>1, LookupType
<1> HIDE DEF k
<1>3. Sound(found) /\ Follows(Now, found) /\ k \in 1 .. Len(found.queues)
    <2>1. CASE absent
        <3>1. /\ Sound(MakeNewQueue(Now, cmd.name)) /\ Follows(Now, MakeNewQueue(Now, cmd.name))
              /\ Len(MakeNewQueue(Now, cmd.name).queues) = Len(queues) + 1
            BY <1>1, MakeNewQueueSound
        <3>2. QED BY <2>1, <3>1, <1>2
    <2>2. CASE ~absent
        BY <2>2, <1>1, <1>2, FollowsItself
    <2>3. QED BY <2>1, <2>2
<1> HIDE DEF found
<1>4. /\ Sound(s) /\ Follows(found, s)
      /\ "DO" \in cmd.options /\ s.ended = "no" => k <= Len(s.queues) /\ s.queues[k].list # <<>>
    BY <1>3, UntilRunSound
<1> HIDE DEF s
<1>5. Follows(Now, s)
    BY <1>3, <1>4, FollowsOn
<1>6. CASE UNCHANGED <<queues, made, ended>> /\ queueCalls' = calls
    <2>1. Now' = Now
        BY <1>6 DEF Now
    <2>2. QED BY <1>6, <2>1
<1>7. CASE /\ "DO" \in cmd.options /\ s.ended = "no"
           /\ Becomes(s)
           /\ queueCalls' = Append(calls, [cmd |-> cmd, done |-> FALSE,
                                      before |-> IF k = 1 THEN 0 ELSE s.queues[k - 1].id,
                                      queue |-> s.queues[k].id, at |-> s.queues[k].list[1].id])
    <2> DEFINE c == [cmd |-> cmd, done |-> FALSE,
                     before |-> IF k = 1 THEN 0 ELSE s.queues[k - 1].id,
                     queue |-> s.queues[k].id, at |-> s.queues[k].list[1].id]
    <2>1. Now' = s
        BY <1>4, <1>7, BecomesIt DEF Sound
    <2>2. k \in 1 .. Len(s.queues) /\ s.queues[k].list # <<>>
        <3>1. Len(s.queues) \in Nat
            BY <1>4, StateParts
        <3>2. QED BY <1>2, <1>4, <1>7, <3>1
    <2>3. c.cmd = cmd /\ c.queue = s.queues[k].id /\ c.at = s.queues[k].list[1].id /\ c.done = FALSE
        OBVIOUS
    <2>4. c.before \in Nat
        <3>1. CASE k = 1
            BY <3>1
        <3>2. CASE k # 1
            <4>1. k - 1 \in 1 .. Len(s.queues)
                BY <2>2, <3>2
            <4>2. QED BY <3>2, <4>1, <1>4, StateParts
        <3>3. QED BY <3>1, <3>2
    <2>5. CallRight(s, past, c) /\ c.queue \in Nat \ {0} /\ c.at \in Nat
        <3> HIDE DEF c
        <3>1. QED BY <1>4, <2>2, <2>3, StartsRight
    <2>6. c \in Call
        BY <2>3, <2>4, <2>5 DEF Call
    <2>7. queueCalls' = Append(calls, c)
        BY <1>7
    <2> HIDE DEF c
    <2>8. \A i \in 1 .. Len(calls) : CallRight(s, past, calls[i])
        BY <1>4, <1>5, AllStayRight
    <2>9. /\ queueCalls' \in Seq(Call) /\ Len(queueCalls') = Len(calls) + 1
          /\ \A i \in 1 .. Len(calls) : queueCalls'[i] = calls[i]
          /\ queueCalls'[Len(calls) + 1] = c
        BY <2>6, <2>7, AppendProperties
    <2>10. ASSUME NEW i \in 1 .. Len(queueCalls') PROVE CallRight(s, past, queueCalls'[i])
        <3>1. Len(calls) \in Nat
            BY Elements
        <3>2. i \in 1 .. Len(calls) \/ i = Len(calls) + 1
            BY <3>1, <2>9
        <3>3. QED BY <3>2, <2>5, <2>8, <2>9
    <2>11. QED BY <1>4, <2>1, <2>9, <2>10
<1>8. CASE Becomes(AfterRun(s, k, cmd)) /\ queueCalls' = calls
    <2> DEFINE t == AfterRun(s, k, cmd)
    <2>1. k \in Nat \ {0}
        BY <1>1, <1>2
    <2>2. Sound(t) /\ Follows(s, t)
        BY <1>4, <2>1, AfterRunSound
    <2>3. Now' = t
        BY <1>8, <2>2, BecomesIt DEF Sound
    <2> HIDE DEF t
    <2>4. Follows(Now, t)
        BY <1>4, <1>5, <2>2, FollowsOn
    <2>5. \A i \in 1 .. Len(calls) : CallRight(t, past, calls[i])
        BY <2>2, <2>4, AllStayRight
    <2>6. QED BY <1>8, <2>2, <2>3, <2>5
<1>9. QED BY <1>6, <1>7, <1>8 DEF QueueCmd, s, found, k

-----------------------------------------------------------------------------
(* The steps.                                                              *)

\* Of the call that goes on.
LEMMA InnerParts ==
    ASSUME QueuesInv, queueCalls # <<>>
    PROVE  /\ Len(queueCalls) \in Nat /\ Len(queueCalls) \in 1 .. Len(queueCalls)
           /\ InnerQueue = queueCalls[Len(queueCalls)]
           /\ InnerQueue \in Call /\ CallRight(Now, ranEntries, InnerQueue)
<1>1. queueCalls \in Seq(Call)
    BY DEF QueuesInv
<1>2. Len(queueCalls) \in Nat /\ \A i \in 1 .. Len(queueCalls) : queueCalls[i] \in Call
    BY <1>1, Elements
<1>3. Len(queueCalls) \in 1 .. Len(queueCalls)
    BY <1>1, <1>2
<1>4. QED BY <1>2, <1>3 DEF InnerQueue, QueuesInv

\* Where a queue is.
LEMMA Place ==
    ASSUME Sound(Now), NEW id \in Nat
    PROVE  /\ id = 0 => PlaceOf(id) = 0
           /\ id # 0 /\ IsThere(id) => PlaceOf(id) \in 1 .. Len(queues) /\ queues[PlaceOf(id)].id = id
<1>1. queues \in Seq(Queue)
    BY StateParts DEF Now
<1>2. DOMAIN queues = 1 .. Len(queues)
    BY <1>1
<1>3. QED BY <1>2 DEF PlaceOf, IsThere

\* The entries a call has come to: all up to the one it is at.
LEMMA CameTo ==
    ASSUME QueuesInv, queueCalls # <<>>, EntryThere
    PROVE  /\ PlaceOf(InnerQueue.queue) \in 1 .. Len(queues)
           /\ queues[PlaceOf(InnerQueue.queue)].id = InnerQueue.queue
           /\ ListOf = queues[PlaceOf(InnerQueue.queue)].list
           /\ ListOf \in Seq(Entry) /\ At \in 1 .. Len(ListOf) /\ ListOf[At].id = InnerQueue.at
           /\ InnerQueue.done => \A i \in 1 .. At : ListOf[i].id \in ranEntries
<1> DEFINE p == PlaceOf(InnerQueue.queue)
<1>1. InnerQueue \in Call /\ CallRight(Now, ranEntries, InnerQueue)
    BY InnerParts
<1>2. Sound(Now) /\ Now.queues = queues
    BY DEF QueuesInv, Now
<1>3. IsThere(InnerQueue.queue) /\ InnerQueue.at \in IdsOf(queues[p].list)
    BY DEF EntryThere
<1>4. /\ \A k \in 1 .. Len(queues) : queues[k].list \in Seq(Entry) /\ Len(queues[k].list) \in Nat
      /\ \A k \in 1 .. Len(queues) : \A i \in 1 .. Len(queues[k].list) : queues[k].list[i].id \in Nat
      /\ \A k \in 1 .. Len(queues) : queues[k].id \in Nat /\ Rising(queues[k].list)
    BY <1>2, StateParts DEF Sound
<1>5. p \in 1 .. Len(queues) /\ queues[p].id = InnerQueue.queue
    <2>1. \A k \in DOMAIN queues : k \in 1 .. Len(queues)
        <3>1. queues \in Seq(Queue)
            BY <1>2, StateParts
        <3>2. QED BY <3>1
    <2>2. InnerQueue.queue # 0
        BY <1>1 DEF Call
    <2>3. QED BY <1>3, <2>1, <2>2 DEF IsThere, PlaceOf
<1>6. ListOf = queues[p].list /\ ListOf \in Seq(Entry) /\ Len(ListOf) \in Nat
    BY <1>4, <1>5 DEF ListOf
<1>7. At \in 1 .. Len(ListOf) /\ ListOf[At].id = InnerQueue.at
    <2>1. \E i \in DOMAIN ListOf : ListOf[i].id = InnerQueue.at
        BY <1>3, <1>6 DEF IdsOf
    <2>2. At \in DOMAIN ListOf /\ ListOf[At].id = InnerQueue.at
        BY <2>1 DEF At
    <2>3. QED BY <2>2, <1>6
<1>8. ASSUME InnerQueue.done, NEW i \in 1 .. At PROVE ListOf[i].id \in ranEntries
    <2>1. CASE i = At
        BY <1>1, <1>7, <1>8, <2>1 DEF CallRight
    <2>2. CASE i # At
        <3>1. i \in 1 .. Len(ListOf) /\ i < At
            BY <1>6, <1>7, <2>2
        <3>2. ListOf[i].id < InnerQueue.at /\ ListOf[i].id \in Nat
            BY <1>4, <1>5, <1>6, <1>7, <3>1 DEF Rising
        <3>3. Has(Now, InnerQueue.queue, ListOf[i].id)
            BY <1>2, <1>5, <1>6, <3>1 DEF Has
        <3>4. QED BY <1>1, <3>2, <3>3 DEF CallRight
    <2>3. QED BY <2>1, <2>2
<1> HIDE DEF p
<1>9. QED BY <1>5, <1>6, <1>7, <1>8 DEF p

\* What the others keep.
LEMMA InvFrom ==
    ASSUME Sound(Now'), typing' \subseteq QueuedCommands, queueCalls' \in Seq(Call),
           \A i \in 1 .. Len(queueCalls') : CallRight(Now', ranEntries', queueCalls'[i]),
           dropped' \subseteq ranEntries'
    PROVE  QueuesInv'
BY DEF QueuesInv

LEMMA InitHolds ==
    ASSUME QueuesInit PROVE QueuesInv
<1>1. queues = <<>> /\ made = 0 /\ ended = "no"
    BY DEF QueuesInit
<1>2. <<>> \in Seq(Queue) /\ <<>> \in Seq(Call) /\ Len(<<>>) = 0
    OBVIOUS
<1>3. Now.queues = <<>> /\ Now.made = 0 /\ Now \in State
    BY <1>1, <1>2 DEF Now, State
<1>4. Sound(Now)
    BY <1>2, <1>3 DEF Sound, Rising, UpTo
<1>5. typing \subseteq QueuedCommands
    BY QueuesAssumption DEF QueuesInit
<1>6. queueCalls = <<>> /\ dropped = {} /\ ranEntries = {}
    BY DEF QueuesInit
<1>7. QED BY <1>2, <1>4, <1>5, <1>6 DEF QueuesInv

LEMMA TypeQueueKeeps ==
    ASSUME QueuesInv, NEW cmd \in typing, TypeQueue(cmd) PROVE QueuesInv'
<1>1. Sound(Now) /\ cmd \in QueuedCommands /\ dropped \subseteq ranEntries
    BY DEF QueuesInv
<1>2. <<>> \in Seq(Call) /\ \A i \in 1 .. Len(<<>>) : CallRight(Now, ranEntries, <<>>[i])
    OBVIOUS
<1>3. ended = "no" /\ QueueCmd(cmd, <<>>) /\ UNCHANGED <<typing, ranEntries, dropped>>
    BY DEF TypeQueue
<1>4. /\ Sound(Now') /\ queueCalls' \in Seq(Call)
      /\ \A i \in 1 .. Len(queueCalls') : CallRight(Now', ranEntries, queueCalls'[i])
    BY <1>1, <1>2, <1>3, QueueCmdRight
<1>5. QED BY <1>1, <1>3, <1>4, InvFrom DEF QueuesInv

LEMMA RunEntryKeeps ==
    ASSUME QueuesInv, RunEntry PROVE QueuesInv'
<1> DEFINE n == Len(queueCalls)
           c == [InnerQueue EXCEPT !.done = TRUE]
           calls == [queueCalls EXCEPT ![n].done = TRUE]
           past == ranEntries \cup {InnerQueue.at}
           cmd == ListOf[At].what
<1>1. /\ ended = "no" /\ queueCalls # <<>> /\ EntryThere
      /\ ranEntries' = past /\ QueueCmd(cmd, calls) /\ UNCHANGED <<typing, dropped>>
    BY DEF RunEntry
<1>2. /\ n \in 1 .. n /\ InnerQueue = queueCalls[n]
      /\ InnerQueue \in Call /\ CallRight(Now, ranEntries, InnerQueue)
    BY <1>1, InnerParts
<1>3. ListOf \in Seq(Entry) /\ At \in 1 .. Len(ListOf)
    BY <1>1, CameTo
<1>4. cmd \in QueuedCommands
    <2>1. ListOf[At] \in Entry
        BY <1>3, Elements
    <2>2. QED BY <2>1 DEF Entry
<1>5. /\ queueCalls \in Seq(Call) /\ Sound(Now)
      /\ \A i \in 1 .. n : CallRight(Now, ranEntries, queueCalls[i])
      /\ dropped \subseteq ranEntries /\ typing \subseteq QueuedCommands
    BY DEF QueuesInv
<1>6. /\ c \in Call /\ c.at = InnerQueue.at /\ c.queue = InnerQueue.queue
    BY <1>2 DEF Call
<1>7. /\ calls \in Seq(Call) /\ Len(calls) = n
      /\ \A i \in 1 .. n : calls[i] = IF i = n THEN c ELSE queueCalls[i]
    <2>1. calls = [queueCalls EXCEPT ![n] = c]
        BY <1>2
    <2> HIDE DEF calls, c
    <2>2. QED BY <1>2, <1>5, <1>6, <2>1, ExceptSeq
<1> HIDE DEF c, calls, cmd, n, past
<1>8. ranEntries \subseteq past /\ InnerQueue.at \in past
    BY DEF past
<1>9. CallRight(Now, past, c)
    BY <1>2, <1>6, <1>8 DEF CallRight
<1>10. \A i \in 1 .. n : CallRight(Now, past, queueCalls[i])
    BY <1>5, <1>8 DEF CallRight
<1>11. \A i \in 1 .. Len(calls) : CallRight(Now, past, calls[i])
    BY <1>7, <1>9, <1>10
<1>12. /\ Sound(Now') /\ queueCalls' \in Seq(Call)
       /\ \A i \in 1 .. Len(queueCalls') : CallRight(Now', past, queueCalls'[i])
    BY <1>1, <1>4, <1>5, <1>7, <1>11, QueueCmdRight
<1>13. QED BY <1>1, <1>5, <1>8, <1>12, InvFrom

LEMMA NextEntryKeeps ==
    ASSUME QueuesInv, NextEntry PROVE QueuesInv'
<1> DEFINE n == Len(queueCalls)
           q == ListOf
           c == [InnerQueue EXCEPT !.done = FALSE, !.at = q[At + 1].id]
<1>1. /\ queueCalls # <<>> /\ InnerQueue.done = TRUE /\ EntryThere /\ At < Len(q)
      /\ queueCalls' = [queueCalls EXCEPT ![n] = c]
      /\ UNCHANGED <<typing, queues, made, ended, ranEntries, dropped>>
    <2>1. queueCalls # <<>> /\ InnerQueue.done /\ MoreToRun
        BY DEF NextEntry
    <2>2. InnerQueue.done = TRUE
        BY <2>1, InnerParts DEF Call
    <2>3. QED BY <2>1, <2>2 DEF NextEntry, MoreToRun, InnerQueue
<1>2. /\ n \in 1 .. n /\ InnerQueue \in Call
    BY <1>1, InnerParts
<1>3. /\ PlaceOf(InnerQueue.queue) \in 1 .. Len(queues)
      /\ queues[PlaceOf(InnerQueue.queue)].id = InnerQueue.queue
      /\ q = queues[PlaceOf(InnerQueue.queue)].list
      /\ At \in 1 .. Len(q)
      /\ \A i \in 1 .. At : q[i].id \in ranEntries
    BY <1>1, CameTo
<1>4. Sound(Now) /\ Now.queues = queues /\ Now.made = made
    BY DEF QueuesInv, Now
<1>5. /\ Len(q) \in Nat /\ Rising(q) /\ UpTo(q, made)
      /\ \A i \in 1 .. Len(q) : q[i].id \in Nat
    BY <1>3, <1>4, StateParts DEF Sound
<1>6. At + 1 \in 1 .. Len(q)
    BY <1>1, <1>3, <1>5
<1>7. c \in Call /\ c.at = q[At + 1].id /\ c.queue = InnerQueue.queue /\ c.done = FALSE
    BY <1>2, <1>5, <1>6 DEF Call
<1>8. CallRight(Now, ranEntries, c)
    <2>1. c.at <= made
        BY <1>5, <1>6, <1>7 DEF UpTo
    <2>2. ASSUME NEW e \in Nat, Has(Now, c.queue, e), e < c.at PROVE e \in ranEntries
        <3>1. PICK m \in 1 .. Len(queues) :
                      /\ queues[m].id = c.queue
                      /\ \E i \in 1 .. Len(queues[m].list) : queues[m].list[i].id = e
            BY <2>2, <1>4 DEF Has
        <3>2. m = PlaceOf(InnerQueue.queue)
            BY <3>1, <1>3, <1>4, <1>7, OneQueue
        <3>3. PICK i \in 1 .. Len(q) : q[i].id = e
            BY <3>1, <3>2, <1>3
        <3>4. i <= At
            <4>1. ~(At + 1 < i) /\ i # At + 1
                BY <2>2, <3>3, <1>5, <1>6, <1>7 DEF Rising
            <4>2. QED BY <4>1, <1>3, <1>5
        <3>5. i \in 1 .. At
            BY <3>4, <1>3, <1>5
        <3>6. QED BY <3>3, <3>5, <1>3
    <2>3. QED BY <2>1, <2>2, <1>4, <1>7 DEF CallRight
<1> HIDE DEF c, n
<1>9. queueCalls \in Seq(Call) /\ \A i \in 1 .. Len(queueCalls) : CallRight(Now, ranEntries, queueCalls[i])
    BY DEF QueuesInv
<1>10. /\ queueCalls' \in Seq(Call) /\ Len(queueCalls') = n
       /\ \A i \in 1 .. n : queueCalls'[i] = IF i = n THEN c ELSE queueCalls[i]
    BY <1>1, <1>2, <1>7, <1>9, ExceptSeq DEF n
<1>11. Now' = Now
    BY <1>1 DEF Now
<1>12. \A i \in 1 .. Len(queueCalls') : CallRight(Now', ranEntries', queueCalls'[i])
    <2>1. \A i \in 1 .. n : CallRight(Now, ranEntries, queueCalls'[i])
        BY <1>8, <1>9, <1>10 DEF n
    <2>2. ranEntries' = ranEntries
        BY <1>1
    <2>3. QED BY <2>1, <2>2, <1>10, <1>11
<1>13. Sound(Now') /\ typing' \subseteq QueuedCommands /\ dropped' \subseteq ranEntries'
    BY <1>1, <1>4, <1>11 DEF QueuesInv
<1>14. QED BY <1>10, <1>12, <1>13, InvFrom

LEMMA DoneQueueKeeps ==
    ASSUME QueuesInv, DoneQueue PROVE QueuesInv'
<1> DEFINE flushes == "NO_FLUSH" \notin InnerQueue.cmd.options
           p == PlaceOf(InnerQueue.queue)
           k == PlaceOf(InnerQueue.before) + 1
           s == IF flushes THEN RemoveAQueue(Now, p) ELSE Now
           t == AfterRun(s, k, InnerQueue.cmd)
<1>1. /\ queueCalls # <<>> /\ InnerQueue.done /\ EntryThere /\ ~(At < Len(ListOf))
      /\ InnerQueue.before = 0 \/ IsThere(InnerQueue.before)
      /\ dropped' = IF flushes THEN dropped \cup IdsOf(ListOf) ELSE dropped
      /\ Becomes(t)
      /\ queueCalls' = Front(queueCalls)
      /\ UNCHANGED <<typing, ranEntries>>
    BY DEF DoneQueue, MoreToRun
<1>2. InnerQueue \in Call
    BY <1>1, InnerParts
<1>3. /\ p \in 1 .. Len(queues)
      /\ ListOf \in Seq(Entry) /\ At \in 1 .. Len(ListOf)
      /\ \A i \in 1 .. At : ListOf[i].id \in ranEntries
    BY <1>1, CameTo
<1>4. Sound(Now) /\ Len(queues) \in Nat
    <2>1. Sound(Now) /\ Now.queues = queues
        BY DEF QueuesInv, Now
    <2>2. QED BY <2>1, StateParts
<1>5. IdsOf(ListOf) \subseteq ranEntries
    <2>1. Len(ListOf) \in Nat /\ DOMAIN ListOf = 1 .. Len(ListOf)
        BY <1>3
    <2>2. \A i \in DOMAIN ListOf : i \in 1 .. At
        BY <2>1, <1>1, <1>3
    <2>3. QED BY <2>2, <1>3 DEF IdsOf
<1>6. k \in Nat \ {0}
    <2>1. InnerQueue.before \in Nat
        BY <1>2 DEF Call
    <2>2. PlaceOf(InnerQueue.before) \in Nat
        BY <2>1, <1>1, <1>4, Place
    <2>3. QED BY <2>2
<1>7. Sound(s) /\ Follows(Now, s)
    <2>1. p \in Nat \ {0}
        BY <1>3, <1>4
    <2>2. QED BY <2>1, <1>4, RemoveAQueueSound, FollowsItself
<1> HIDE DEF s, k, flushes
<1>8. Sound(t) /\ Follows(s, t)
    <2>1. InnerQueue.cmd \in QueuedCommands
        BY <1>2 DEF Call
    <2>2. QED BY <2>1, <1>6, <1>7, AfterRunSound
<1>9. Now' = t
    BY <1>1, <1>8, BecomesIt DEF Sound
<1> HIDE DEF t
<1>10. Follows(Now, t)
    BY <1>4, <1>7, <1>8, FollowsOn
<1>11. queueCalls \in Seq(Call) /\ \A i \in 1 .. Len(queueCalls) : CallRight(t, ranEntries, queueCalls[i])
    <2>1. queueCalls \in Seq(Call) /\ \A i \in 1 .. Len(queueCalls) : CallRight(Now, ranEntries, queueCalls[i])
        BY DEF QueuesInv
    <2>2. QED BY <2>1, <1>4, <1>8, <1>10, AllStayRight
<1>12. /\ queueCalls' \in Seq(Call)
       /\ \A i \in 1 .. Len(queueCalls') : i \in 1 .. Len(queueCalls) /\ queueCalls'[i] = queueCalls[i]
    <2> DEFINE n == Len(queueCalls)
               f == SubSeq(queueCalls, 1, n - 1)
    <2>1. n \in Nat /\ \A i \in 1 .. n : queueCalls[i] \in Call
        BY <1>11, Elements
    <2>2. \A i \in 1 .. n - 1 : queueCalls[i] \in Call
        BY <2>1
    <2> HIDE DEF n
    <2>3. /\ f \in Seq(Call) /\ Len(f) = IF 1 <= n - 1 THEN n - 1 - 1 + 1 ELSE 0
          /\ \A i \in 1 .. n - 1 - 1 + 1 : f[i] = queueCalls[1 + i - 1]
        BY <2>1, <2>2, SubSeqProperties, 1 \in Int, n - 1 \in Int
    <2>4. queueCalls' = f
        BY <1>1 DEF Front, n
    <2> HIDE DEF f
    <2>5. \A i \in 1 .. Len(f) : i \in 1 .. n /\ f[i] = queueCalls[i]
        BY <2>1, <2>3
    <2>6. QED BY <2>3, <2>4, <2>5 DEF n
<1>13. \A i \in 1 .. Len(queueCalls') : CallRight(Now', ranEntries', queueCalls'[i])
    <2>1. \A i \in 1 .. Len(queueCalls') : CallRight(t, ranEntries, queueCalls'[i])
        BY <1>11, <1>12
    <2>2. ranEntries' = ranEntries
        BY <1>1
    <2>3. QED BY <2>1, <2>2, <1>9
<1>14. typing' \subseteq QueuedCommands /\ dropped' \subseteq ranEntries'
    BY <1>1, <1>5 DEF QueuesInv
<1>15. QED BY <1>8, <1>9, <1>12, <1>13, <1>14, InvFrom

LEMMA WasFreedKeeps ==
    ASSUME QueuesInv, WasFreed PROVE QueuesInv'
<1>1. ended' = "freed" /\ UNCHANGED <<typing, queues, made, queueCalls, ranEntries, dropped>>
    BY DEF WasFreed
<1>2. Now.queues = queues /\ Now.made = made /\ Now'.queues = queues /\ Now'.made = made
    BY <1>1 DEF Now
<1>3. queues \in Seq(Queue) /\ made \in Nat
    <2>1. Now \in State
        BY DEF QueuesInv, Sound
    <2>2. QED BY <2>1 DEF State, Now
<1>4. Now' \in State
    BY <1>1, <1>3 DEF Now, State
<1>5. Sound(Now')
    BY <1>2, <1>4 DEF QueuesInv, Sound
<1>6. \A i \in 1 .. Len(queueCalls) : CallRight(Now', ranEntries, queueCalls[i])
    BY <1>2 DEF QueuesInv, CallRight, Has
<1>7. QED BY <1>1, <1>5, <1>6, InvFrom DEF QueuesInv

LEMMA StartAgainKeeps ==
    ASSUME QueuesInv, StartAgain PROVE QueuesInv'
<1>1. /\ queues' = <<>> /\ made' = 0 /\ queueCalls' = <<>> /\ ended' = "no"
      /\ ranEntries' = {} /\ dropped' = {} /\ typing' = typing
    BY DEF StartAgain
<1>2. <<>> \in Seq(Queue) /\ <<>> \in Seq(Call) /\ Len(<<>>) = 0
    OBVIOUS
<1>3. Now'.queues = <<>> /\ Now'.made = 0 /\ Now' \in State
    BY <1>1, <1>2 DEF Now, State
<1>4. Sound(Now')
    BY <1>2, <1>3 DEF Sound, Rising, UpTo
<1>5. \A i \in 1 .. Len(queueCalls') : CallRight(Now', ranEntries', queueCalls'[i])
    BY <1>1, <1>2
<1>6. QED BY <1>1, <1>2, <1>4, <1>5, InvFrom DEF QueuesInv

LEMMA StepKeeps ==
    ASSUME QueuesInv, [QueuesNext]_queuesVars PROVE QueuesInv'
<1>1. CASE UNCHANGED queuesVars
    BY <1>1 DEF queuesVars, QueuesInv, Now
<1>2. CASE QueuesNext
    BY <1>2, TypeQueueKeeps, RunEntryKeeps, NextEntryKeeps, DoneQueueKeeps, WasFreedKeeps,
       StartAgainKeeps DEF QueuesNext
<1>3. QED BY <1>1, <1>2

\* What is dropped because its queue ran has run itself, for any commands: do_queue() goes
\* to the next entry from the one that ran, and comes to the end of the queue it deletes.
THEOREM DroppedAlwaysRan == QueuesSpec => []DroppedHaveRun
<1>1. QueuesInit => QueuesInv
    BY InitHolds
<1>2. QueuesInv /\ [QueuesNext]_queuesVars => QueuesInv'
    BY StepKeeps
<1>3. QueuesInv => DroppedHaveRun
    BY DEF QueuesInv, DroppedHaveRun
<1>4. QED BY <1>1, <1>2, <1>3, PTL DEF QueuesSpec
-----------------------------------------------------------------------------
(* /ON.  Every hook is in one place: in one of the lists, waiting to be     *)
(* freed, or freed.  What is in a list has never been removed and what      *)
(* waits has been, so a call of do_hook() can tell the two apart by the     *)
(* mark.  The places are apart, so no more wait than were ever made.        *)

\* Nothing is in a list twice.
Once(s) == \A i, j \in 1 .. Len(s) : s[i] = s[j] => i = j

\* The places of hooks h: lists ls, waiting w, freed g.
Placing(h, ls, w, g) ==
    /\ h \in Seq(Hook) /\ Len(h) <= MaxHooks
    /\ ls \in [Lists -> Seq(1 .. Len(h))] /\ w \in Seq(1 .. Len(h)) /\ g \subseteq 1 .. Len(h)
    /\ Once(w) /\ \A k \in 1 .. Len(w) : w[k] \notin g
    /\ \A l \in Lists : /\ Once(ls[l])
                        /\ \A i \in 1 .. Len(ls[l]) :
                              ls[l][i] \notin g /\ \A k \in 1 .. Len(w) : ls[l][i] # w[k]
    /\ \A l, m \in Lists : \A i \in 1 .. Len(ls[l]), j \in 1 .. Len(ls[m]) : ls[l][i] = ls[m][j] => l = m

\* The lists are in the order of the serial numbers.
Ordered(h, list) == \A i, j \in 1 .. Len(list) : i < j => h[list[i]].sernum <= h[list[j]].sernum

\* What has not been removed is in a list.
Reached(h, ls) ==
    \A id \in 1 .. Len(h) : ~h[id].not => \E l \in Lists : \E k \in 1 .. Len(ls[l]) : ls[l][k] = id

PlacesRight(h, ls, w, g) ==
    /\ Placing(h, ls, w, g)
    /\ \A l \in Lists : Ordered(h, ls[l])
    /\ Reached(h, ls)

\* What a call of do_hook() will look at.
FrameRight(h, g, f) ==
    /\ f.next >= 1
    /\ \A i \in 1 .. Len(f.array) : f.array[i] \in 1 .. Len(h) /\ f.array[i] \notin g
    /\ \A i, j \in 1 .. Len(f.array) : i < j => h[f.array[i]].sernum < h[f.array[j]].sernum

Of(fr, l) == {f \in 1 .. Len(fr) : fr[f].which = l}

MarksRight(fr, m) ==
    /\ \A l \in Lists \ {"numeric"} : m[l] = Cardinality(Of(fr, l))
    /\ \A l \in NoRecurse : Cardinality(Of(fr, l)) <= 1

HooksRight ==
    /\ PlacesRight(hook, hookList, waiting, gone)
    /\ frames \in Seq(Frame) /\ marks \in [Lists -> Nat]
    /\ ran \in Seq(SUBSET HookIds) /\ hookEnv \in HookSettings
    /\ \A f \in 1 .. Len(frames) : FrameRight(hook, gone, frames[f])
    /\ MarksRight(frames, marks)

\* No longer than there are hooks.
LEMMA OnceIsShort ==
    ASSUME NEW n \in Nat, NEW s \in Seq(1 .. n), Once(s)
    PROVE  Len(s) <= n
<1> DEFINE k == Len(s)
<1>0. k \in Nat OBVIOUS
<1> DEFINE f == [i \in 1 .. k |-> s[i]]
<1>1. f \in [1 .. k -> 1 .. n]
  <2>1. \A i \in 1 .. Len(s) : s[i] \in 1 .. n BY Elements
  <2> QED BY <2>1
<1>2. IsFiniteSet(1 .. k) /\ Cardinality(1 .. k) = k
  <2> HIDE DEF k
  <2> QED BY <1>0, FS_Interval, 1 \in Int, k \in Int
<1>3. IsFiniteSet(1 .. n) /\ Cardinality(1 .. n) = n BY FS_Interval
<1>4. ASSUME n < k PROVE FALSE
  <2>1. PICK x, y \in 1 .. k : x # y /\ f[x] = f[y]
    <3> HIDE DEF k, f
    <3> QED BY <1>0, <1>1, <1>2, <1>3, <1>4, FS_PigeonHole
  <2> QED BY <2>1 DEF Once
<1> QED BY <1>0, <1>4

\* A finite set of numbers, counted through: Rank(S, i) is the place of i.
Rank(S, i) == Cardinality({j \in S : j <= i})

LEMMA RankRises ==
    ASSUME NEW S \in SUBSET Nat, IsFiniteSet(S), NEW i \in S
    PROVE  /\ Rank(S, i) \in 1 .. Cardinality(S)
           /\ \A j \in S : j < i => Rank(S, j) < Rank(S, i)
<1> DEFINE T(k) == {j \in S : j <= k}
<1>0. \A k : IsFiniteSet(T(k)) /\ Cardinality(T(k)) <= Cardinality(S) /\ Cardinality(T(k)) \in Nat
  BY FS_Subset, FS_CardinalityType
<1>1. Cardinality(T(i)) # 0
  BY <1>0, i \in T(i), FS_EmptySet
<1>2. ASSUME NEW j \in S, j < i PROVE Cardinality(T(j)) < Cardinality(T(i))
  <2>0. S \subseteq Nat OBVIOUS
  <2>1. T(j) \subseteq T(i) /\ i \in T(i) /\ i \notin T(j)
    <3>1. \A k \in S : k <= j => k <= i BY <2>0, <1>2
    <3>2. i <= i /\ ~(i <= j) BY <2>0, <1>2
    <3> QED BY <3>1, <3>2
  <2>2. Cardinality(T(j)) <= Cardinality(T(i)) /\ (Cardinality(T(i)) = Cardinality(T(j)) => T(i) = T(j))
    <3> HIDE DEF T
    <3> QED BY <1>0, <2>1, FS_Subset
  <2> HIDE DEF T
  <2> QED BY <1>0, <2>1, <2>2
<1>3. Cardinality(S) \in Nat BY FS_CardinalityType
<1>4. \A k : Rank(S, k) = Cardinality(T(k)) BY DEF Rank
<1> HIDE DEF T
<1> QED BY <1>0, <1>1, <1>2, <1>3, <1>4

LEMMA RankFinds ==
    ASSUME NEW S \in SUBSET Nat, IsFiniteSet(S), NEW n \in 1 .. Cardinality(S)
    PROVE  \E i \in S : Rank(S, i) = n
<1> DEFINE N == Cardinality(S)
           f == [i \in S |-> Rank(S, i)]
<1>0. N \in Nat BY FS_CardinalityType
<1>1. f \in [S -> 1 .. N] BY RankRises
<1>2. \A i, j \in S : f[i] = f[j] => i = j
  <2> SUFFICES ASSUME NEW i \in S, NEW j \in S, i # j PROVE f[i] # f[j] OBVIOUS
  <2>1. Rank(S, i) \in Nat /\ Rank(S, j) \in Nat BY <1>0, RankRises
  <2>2. i < j \/ j < i OBVIOUS
  <2> QED BY <2>1, <2>2, RankRises
<1>3. f \in Injection(S, 1 .. N) BY <1>1, <1>2 DEF Injection, IsInjective
<1>4. IsFiniteSet(1 .. N) /\ Cardinality(1 .. N) = N BY <1>0, FS_Interval
<1>5. f \in Surjection(S, 1 .. N)
  <2> HIDE DEF f
  <2> QED BY <1>3, <1>4, FS_Injection
<1>6. PICK i \in S : f[i] = n BY <1>5 DEF Surjection
<1> QED BY <1>6

-----------------------------------------------------------------------------
(* Lists of hooks.                                                         *)

\* remove_from_list_ext(): nothing, or one entry.
NoneOrOneOut(n, list, d) ==
    \/ d.out = {} /\ d.list = list
    \/ \E at \in 1 .. Len(list) :
          /\ d.out = {list[at]}
          /\ d.list \in Seq(1 .. n) /\ Len(d.list) = Len(list) - 1
          /\ \A i \in 1 .. Len(list) - 1 : d.list[i] = IF i < at THEN list[i] ELSE list[i + 1]

LEMMA DroppedIs ==
    ASSUME NEW n \in Nat, NEW list \in Seq(1 .. n), NEW ids
    PROVE  NoneOrOneOut(n, list, Dropped(list, ids))
<1> DEFINE hits == {i \in DOMAIN list : list[i] \in ids}
           at == CHOOSE i \in hits : \A j \in hits : i <= j
<1>0. DOMAIN list = 1 .. Len(list) /\ Len(list) \in Nat OBVIOUS
<1>1. CASE hits = {}
  BY <1>0, <1>1 DEF Dropped, NoneOrOneOut
<1>2. CASE hits # {}
  <2>1. \E i \in hits : \A j \in hits : i <= j
    BY <1>0, <1>2, SomeLeast, hits \in SUBSET Nat
  <2>2. at \in hits BY <2>1
  <2>3. Dropped(list, ids) = [list |-> SubSeq(list, 1, at - 1) \o SubSeq(list, at + 1, Len(list)), out |-> {list[at]}]
    BY <1>2 DEF Dropped
  <2>4. PICK k \in 1 .. Len(list) : k = at /\ list[k] \in ids BY <1>0, <2>2
  <2> HIDE DEF at, hits
  <2>5. Dropped(list, ids).list = RemoveAt(list, k) /\ Dropped(list, ids).out = {list[k]}
    <3>1. RemoveAt(list, k) = SubSeq(list, 1, k - 1) \o SubSeq(list, k + 1, Len(list)) BY DEF RemoveAt
    <3>2. Dropped(list, ids) = [list |-> RemoveAt(list, k), out |-> {list[k]}] BY <2>3, <2>4, <3>1
    <3> QED BY <3>2
  <2>6. /\ RemoveAt(list, k) \in Seq(1 .. n) /\ Len(RemoveAt(list, k)) = Len(list) - 1
        /\ \A i \in 1 .. Len(list) - 1 : RemoveAt(list, k)[i] = IF i < k THEN list[i] ELSE list[i + 1]
    BY Removal
  <2> QED BY <2>4, <2>5, <2>6 DEF NoneOrOneOut
<1> QED BY <1>1, <1>2

\* add_to_list_ext(): in its place.
InItsPlace(m, list, id, new, r) ==
    \E at \in 1 .. Len(list) + 1 :
        /\ r \in Seq(1 .. m)
        /\ Len(r) = Len(list) + 1
        /\ \A i \in 1 .. Len(list) + 1 : r[i] =
              IF i < at THEN list[i] ELSE IF i = at THEN id ELSE list[i - 1]
        /\ \A i \in 1 .. Len(list) : i < at => ~LaterThan(hook[list[i]], new)
        /\ at <= Len(list) => LaterThan(hook[list[at]], new)

LEMMA PlacedIs ==
    ASSUME NEW n \in Nat, NEW list \in Seq(1 .. n), NEW id, NEW new,
           NEW m \in Nat, id \in 1 .. m, n <= m
    PROVE  InItsPlace(m, list, id, new, Placed(list, id, new))
<1> DEFINE later == {i \in DOMAIN list : LaterThan(hook[list[i]], new)}
           at == IF later = {} THEN Len(list) + 1 ELSE CHOOSE i \in later : \A j \in later : i <= j
<1>0. DOMAIN list = 1 .. Len(list) /\ Len(list) \in Nat OBVIOUS
<1>1. later # {} => \E i \in later : \A j \in later : i <= j
  BY <1>0, SomeLeast, later \in SUBSET Nat
<1>2. /\ at \in 1 .. Len(list) + 1
      /\ \A i \in 1 .. Len(list) : i < at => i \notin later
      /\ at <= Len(list) => at \in later
  <2>1. CASE later = {}
    <3>1. at = Len(list) + 1 BY <2>1
    <3> HIDE DEF at
    <3> QED BY <1>0, <2>1, <3>1
  <2>2. CASE later # {}
    <3>1. at \in later /\ \A j \in later : at <= j BY <1>1, <2>2
    <3>2. \A j \in later : j \in 1 .. Len(list) BY <1>0
    <3> HIDE DEF at, later
    <3>3. at \in 1 .. Len(list) BY <3>1, <3>2
    <3>4. at \in 1 .. Len(list) + 1 BY <1>0, <3>3
    <3>5. \A i \in 1 .. Len(list) : i < at => i \notin later BY <3>1, <3>3
    <3> QED BY <3>1, <3>4, <3>5
  <2> QED BY <2>1, <2>2
<1>3. Placed(list, id, new) = SubSeq(list, 1, at - 1) \o <<id>> \o SubSeq(list, at, Len(list))
  BY DEF Placed
<1>4. PICK k \in 1 .. Len(list) + 1 : k = at BY <1>2, SMTT(30)
<1>5. /\ \A i \in 1 .. Len(list) : i < k => ~LaterThan(hook[list[i]], new)
      /\ k <= Len(list) => LaterThan(hook[list[k]], new)
  BY <1>0, <1>2, <1>4
<1> HIDE DEF at, later
<1>6. Placed(list, id, new) = SubSeq(list, 1, k - 1) \o <<id>> \o SubSeq(list, k, Len(list))
  BY <1>3, <1>4
<1> DEFINE a == SubSeq(list, 1, k - 1)
           b == SubSeq(list, k, Len(list))
<1>7. a \in Seq(1 .. m) /\ Len(a) = k - 1 /\ \A i \in 1 .. k - 1 : a[i] = list[i]
  <2>1. \A i \in 1 .. Len(list) : list[i] \in 1 .. n BY Elements
  <2>2. \A i \in 1 .. k - 1 : list[i] \in 1 .. m BY <1>0, <2>1
  <2>3. /\ a \in Seq(1 .. m) /\ Len(a) = IF 1 <= k - 1 THEN k - 1 - 1 + 1 ELSE 0
        /\ \A i \in 1 .. k - 1 - 1 + 1 : a[i] = list[1 + i - 1]
    BY <2>2, SubSeqProperties, 1 \in Int, k - 1 \in Int
  <2> HIDE DEF a
  <2>4. k - 1 \in Nat /\ k - 1 - 1 + 1 = k - 1 BY <1>0
  <2> QED BY <2>3, <2>4
<1>8. b \in Seq(1 .. m) /\ Len(b) = Len(list) - k + 1 /\ \A i \in 1 .. Len(list) - k + 1 : b[i] = list[k + i - 1]
  <2>0. \A i \in 1 .. Len(list) : list[i] \in 1 .. n BY Elements
  <2>1. \A i \in k .. Len(list) : list[i] \in 1 .. m BY <1>0, <2>0
  <2>2. /\ b \in Seq(1 .. m) /\ Len(b) = IF k <= Len(list) THEN Len(list) - k + 1 ELSE 0
        /\ \A i \in 1 .. Len(list) - k + 1 : b[i] = list[k + i - 1]
    BY <2>1, <1>0, SubSeqProperties
  <2> HIDE DEF b
  <2>3. k <= Len(list) \/ (k = Len(list) + 1 /\ Len(list) - k + 1 = 0) BY <1>0
  <2>4. Len(b) = Len(list) - k + 1 BY <1>0, <2>2, <2>3
  <2> QED BY <2>2, <2>4
<1>9. Placed(list, id, new) = a \o <<id>> \o b BY <1>6
<1> HIDE DEF a, b
<1> DEFINE c == a \o <<id>>
<1>10. c \in Seq(1 .. m) /\ Len(c) = k /\ \A i \in 1 .. k : c[i] = IF i < k THEN list[i] ELSE id
  BY <1>7
<1>11. Placed(list, id, new) = c \o b BY <1>9
<1> HIDE DEF c
<1>12. c \o b \in Seq(1 .. m) /\ Len(c \o b) = Len(list) + 1 BY <1>0, <1>8, <1>10
<1>13. \A i \in 1 .. Len(list) + 1 : (c \o b)[i] =
          IF i < k THEN list[i] ELSE IF i = k THEN id ELSE list[i - 1]
  <2> SUFFICES ASSUME NEW i \in 1 .. Len(list) + 1
               PROVE  (c \o b)[i] = IF i < k THEN list[i] ELSE IF i = k THEN id ELSE list[i - 1]
    OBVIOUS
  <2>1. (c \o b)[i] = IF i <= Len(c) THEN c[i] ELSE b[i - Len(c)]
    <3>1. \A j \in 1 .. Len(c) + Len(b) : (c \o b)[j] = IF j <= Len(c) THEN c[j] ELSE b[j - Len(c)]
      BY <1>8, <1>10, ConcatProperties
    <3>2. Len(c) + Len(b) = Len(list) + 1 BY <1>0, <1>8, <1>10
    <3> QED BY <3>1, <3>2
  <2>2. CASE i <= k BY <1>0, <1>10, <2>1, <2>2
  <2>3. CASE i > k
    <3>1. i - k \in 1 .. Len(list) - k + 1 BY <1>0, <2>3
    <3>2. b[i - k] = list[k + (i - k) - 1] BY <1>8, <3>1
    <3> QED BY <1>0, <1>10, <2>1, <2>3, <3>2
  <2>4. i <= k \/ i > k BY <1>0
  <2> QED BY <2>2, <2>3, <2>4
<1> QED BY <1>5, <1>11, <1>12, <1>13 DEF InItsPlace

-----------------------------------------------------------------------------
(* What adding and removing does to the places.                            *)

\* h marked as removed where ids are.
Removed(h, ids) == [i \in DOMAIN h |-> IF i \in ids THEN [h[i] EXCEPT !.not = TRUE] ELSE h[i]]

LEMMA RemovedIs ==
    ASSUME NEW h \in Seq(Hook), NEW ids
    PROVE  /\ Removed(h, ids) \in Seq(Hook) /\ Len(Removed(h, ids)) = Len(h)
           /\ \A i \in 1 .. Len(h) : /\ Removed(h, ids)[i].sernum = h[i].sernum
                                     /\ Removed(h, ids)[i].server = h[i].server
                                     /\ i \in ids => Removed(h, ids)[i].not
                                     /\ i \notin ids => Removed(h, ids)[i].not = h[i].not
<1> DEFINE r == Removed(h, ids)
           e(i) == IF i \in ids THEN [h[i] EXCEPT !.not = TRUE] ELSE h[i]
<1>1. Len(h) \in Nat /\ DOMAIN h = 1 .. Len(h) /\ \A i \in 1 .. Len(h) : h[i] \in Hook BY Elements
<1>2. r = [i \in 1 .. Len(h) |-> e(i)] BY <1>1 DEF Removed
<1>3. \A i \in 1 .. Len(h) : /\ e(i) \in Hook /\ e(i).sernum = h[i].sernum /\ e(i).server = h[i].server
                             /\ (i \in ids => e(i).not) /\ (i \notin ids => e(i).not = h[i].not)
  BY <1>1 DEF Hook
<1> HIDE DEF e, r
<1>4. r \in Seq(Hook) /\ Len(r) = Len(h)
  <2> DEFINE n == Len(h)
  <2>1. n \in Nat /\ r = [i \in 1 .. n |-> e(i)] /\ \A i \in 1 .. n : e(i) \in Hook BY <1>1, <1>2, <1>3
  <2> HIDE DEF n
  <2>2. r \in Seq(Hook) /\ Len(r) = n BY <2>1
  <2> QED BY <2>2 DEF n
<1>5. \A i \in 1 .. Len(h) : r[i] = e(i) BY <1>2
<1> QED BY <1>3, <1>4, <1>5 DEF r

\* remove_from_list_ext(): an entry of list l now waits.
LEMMA OneOut ==
    ASSUME NEW h, NEW ls, NEW w, NEW g, PlacesRight(h, ls, w, g), NEW l \in Lists,
           NEW at \in 1 .. Len(ls[l]), NEW r \in Seq(1 .. Len(h)), Len(r) = Len(ls[l]) - 1,
           \A i \in 1 .. Len(ls[l]) - 1 : r[i] = IF i < at THEN ls[l][i] ELSE ls[l][i + 1]
    PROVE  /\ PlacesRight(Removed(h, {ls[l][at]}), [ls EXCEPT ![l] = r], Append(w, ls[l][at]), g)
           /\ Len(w) < MaxHooks
<1> DEFINE x == ls[l][at]
           ls2 == [ls EXCEPT ![l] = r]
           w2 == Append(w, x)
           h2 == Removed(h, {x})
           n == Len(h)
           list == ls[l]
<1>0. h \in Seq(Hook) BY DEF PlacesRight, Placing
<1>1. /\ h2 \in Seq(Hook) /\ Len(h2) = Len(h)
      /\ \A i \in 1 .. Len(h) : /\ h2[i].sernum = h[i].sernum
                                /\ i = x => h2[i].not
                                /\ i # x => h2[i].not = h[i].not
  BY <1>0, RemovedIs, x \in {x}, \A i : i # x => i \notin {x}
<1>2. n \in Nat /\ n <= MaxHooks /\ MaxHooks \in Nat BY <1>0, HooksAssumption DEF PlacesRight, Placing
<1>3. /\ ls \in [Lists -> Seq(1 .. n)] /\ w \in Seq(1 .. n) /\ g \subseteq 1 .. n
      /\ Once(w) /\ \A k \in 1 .. Len(w) : w[k] \notin g
      /\ \A m \in Lists : /\ Once(ls[m])
                          /\ \A i \in 1 .. Len(ls[m]) :
                                ls[m][i] \notin g /\ \A k \in 1 .. Len(w) : ls[m][i] # w[k]
      /\ \A m, p \in Lists : \A i \in 1 .. Len(ls[m]), j \in 1 .. Len(ls[p]) : ls[m][i] = ls[p][j] => m = p
      /\ \A m \in Lists : Ordered(h, ls[m])
      /\ Reached(h, ls)
  BY DEF PlacesRight, Placing
<1>4. list \in Seq(1 .. n) /\ Len(list) \in Nat /\ \A i \in 1 .. Len(list) : list[i] \in 1 .. n
  BY <1>3, Elements
<1>5. /\ x \in 1 .. n /\ x \notin g /\ \A k \in 1 .. Len(w) : w[k] # x
      /\ x = list[at] /\ at \in 1 .. Len(list) /\ Once(list) /\ Ordered(h, list) /\ list = ls[l]
      /\ r \in Seq(1 .. n) /\ Len(r) = Len(list) - 1
      /\ \A i \in 1 .. Len(list) - 1 : r[i] = IF i < at THEN list[i] ELSE list[i + 1]
  BY <1>3, <1>4
<1>6. Len(w) \in Nat /\ \A k \in 1 .. Len(w) : w[k] \in 1 .. n BY <1>3, Elements
<1> HIDE DEF n, list, x
<1>7. /\ w2 \in Seq(1 .. n) /\ Len(w2) = Len(w) + 1
      /\ \A k \in 1 .. Len(w) : w2[k] = w[k]
      /\ w2[Len(w) + 1] = x
  BY <1>3, <1>5, <1>6, AppendProperties
<1> DEFINE from(i) == IF i < at THEN i ELSE i + 1
<1>8. /\ \A i \in 1 .. Len(r) : from(i) \in 1 .. Len(list) /\ from(i) # at /\ r[i] = list[from(i)]
      /\ \A i, j \in 1 .. Len(r) : i < j => from(i) < from(j)
  BY <1>4, <1>5, SMTT(30)
<1>9. \A j \in 1 .. Len(list) : j # at => \E i \in 1 .. Len(r) : r[i] = list[j]
  <2> SUFFICES ASSUME NEW j \in 1 .. Len(list), j # at PROVE \E i \in 1 .. Len(r) : r[i] = list[j] OBVIOUS
  <2>1. CASE j < at
    <3>1. j \in 1 .. Len(list) - 1 BY <1>4, <1>5, <2>1
    <3>2. r[j] = list[j] /\ j \in 1 .. Len(r) BY <1>5, <2>1, <3>1
    <3> QED BY <3>2
  <2>2. CASE j > at
    <3>1. j - 1 \in 1 .. Len(list) - 1 /\ ~(j - 1 < at) /\ (j - 1) + 1 = j BY <1>4, <1>5, <2>2
    <3>2. r[j - 1] = list[j] /\ j - 1 \in 1 .. Len(r) BY <1>5, <3>1
    <3> QED BY <3>2
  <2> QED BY <1>4, <1>5, <2>1, <2>2
<1>a. \A i, j \in 1 .. Len(r) : i # j => from(i) # from(j)
  BY <1>5, <1>4
<1> HIDE DEF from
<1>10. /\ ls2 \in [Lists -> Seq(1 .. n)] /\ ls2[l] = r
       /\ \A m \in Lists : m # l => ls2[m] = ls[m]
  BY <1>3, <1>5
<1>11. \A i \in 1 .. Len(r) : r[i] # x
  <2> SUFFICES ASSUME NEW i \in 1 .. Len(r), r[i] = x PROVE FALSE OBVIOUS
  <2>1. from(i) \in 1 .. Len(list) /\ from(i) # at /\ list[from(i)] = list[at] BY <1>5, <1>8
  <2>2. at \in 1 .. Len(list) /\ Once(list) BY <1>5
  <2> QED BY <2>1, <2>2 DEF Once
<1>12. Once(r)
  <2> SUFFICES ASSUME NEW i \in 1 .. Len(r), NEW j \in 1 .. Len(r), i # j PROVE r[i] # r[j]
    BY DEF Once
  <2>1. /\ from(i) \in 1 .. Len(list) /\ from(j) \in 1 .. Len(list) /\ from(i) # from(j)
        /\ r[i] = list[from(i)] /\ r[j] = list[from(j)]
    BY <1>8, <1>a
  <2>2. Once(list) BY <1>5
  <2> QED BY <2>1, <2>2 DEF Once
<1>13. Ordered(h2, r)
  <2> SUFFICES ASSUME NEW i \in 1 .. Len(r), NEW j \in 1 .. Len(r), i < j
               PROVE  h2[r[i]].sernum <= h2[r[j]].sernum
    BY DEF Ordered
  <2>1. from(i) \in 1 .. Len(list) /\ from(j) \in 1 .. Len(list) /\ from(i) < from(j)
        /\ r[i] = list[from(i)] /\ r[j] = list[from(j)]
    BY <1>8
  <2>2. h[list[from(i)]].sernum <= h[list[from(j)]].sernum BY <1>5, <2>1 DEF Ordered
  <2>3. r[i] \in 1 .. n /\ r[j] \in 1 .. n BY <1>4, <2>1
  <2> HIDE DEF h2
  <2> QED BY <1>1, <2>1, <2>2, <2>3 DEF n
<1> HIDE DEF ls2, w2, h2
<1>14. \A m \in Lists : Ordered(h2, ls2[m])
  <2> SUFFICES ASSUME NEW m \in Lists, m # l PROVE Ordered(h2, ls2[m]) BY <1>10, <1>13
  <2>1. ls2[m] = ls[m] /\ Ordered(h, ls[m]) BY <1>3, <1>10
  <2>2. \A i \in 1 .. Len(ls[m]) : ls[m][i] \in 1 .. n BY <1>3, Elements
  <2> QED BY <1>1, <2>1, <2>2, ZenonT(60) DEF Ordered, n
<1>15. Once(w2) /\ \A k \in 1 .. Len(w2) : w2[k] \notin g
  <2>1. \A k \in 1 .. Len(w2) : (k \in 1 .. Len(w) /\ w2[k] = w[k]) \/ (k = Len(w) + 1 /\ w2[k] = x)
    BY <1>6, <1>7
  <2>2. \A k \in 1 .. Len(w2) : w2[k] \notin g BY <1>3, <1>5, <2>1
  <2> SUFFICES ASSUME NEW j \in 1 .. Len(w2), NEW k \in 1 .. Len(w2), w2[j] = w2[k] PROVE j = k
    BY <2>2 DEF Once
  <2>3. CASE j = Len(w) + 1 /\ w2[j] = x BY <1>5, <2>1, <2>3
  <2>4. CASE k = Len(w) + 1 /\ w2[k] = x BY <1>5, <2>1, <2>4
  <2>5. CASE j \in 1 .. Len(w) /\ w2[j] = w[j] /\ k \in 1 .. Len(w) /\ w2[k] = w[k] BY <1>3, <2>5 DEF Once
  <2> QED BY <2>1, <2>3, <2>4, <2>5
<1>16. \A m \in Lists : \A i \in 1 .. Len(ls2[m]) :
          \E j \in 1 .. Len(ls[m]) : ls2[m][i] = ls[m][j] /\ ls2[m][i] # x
  <2> SUFFICES ASSUME NEW m \in Lists, NEW i \in 1 .. Len(ls2[m])
               PROVE  \E j \in 1 .. Len(ls[m]) : ls2[m][i] = ls[m][j] /\ ls2[m][i] # x
    OBVIOUS
  <2>1. CASE m = l BY <1>5, <1>8, <1>10, <1>11, <2>1
  <2>2. CASE m # l
    <3>1. ls2[m] = ls[m] /\ i \in 1 .. Len(ls[m]) BY <1>10, <2>2
    <3>2. ls[m][i] # x
      <4>1. at \in 1 .. Len(ls[l]) /\ x = ls[l][at] BY <1>5
      <4> QED BY <1>3, <2>2, <3>1, <4>1
    <3> QED BY <3>1, <3>2
  <2> QED BY <2>1, <2>2
<1>17. \A m \in Lists : \A i \in 1 .. Len(ls2[m]) :
          ls2[m][i] \notin g /\ \A k \in 1 .. Len(w2) : ls2[m][i] # w2[k]
  <2>1. \A k \in 1 .. Len(w2) : (k \in 1 .. Len(w) /\ w2[k] = w[k]) \/ w2[k] = x
    BY <1>6, <1>7
  <2> SUFFICES ASSUME NEW m \in Lists, NEW i \in 1 .. Len(ls2[m])
               PROVE  ls2[m][i] \notin g /\ \A k \in 1 .. Len(w2) : ls2[m][i] # w2[k]
    OBVIOUS
  <2>2. PICK j \in 1 .. Len(ls[m]) : ls2[m][i] = ls[m][j] /\ ls2[m][i] # x BY <1>16
  <2>3. ls[m][j] \notin g /\ \A k \in 1 .. Len(w) : ls[m][j] # w[k] BY <1>3
  <2> QED BY <2>1, <2>2, <2>3
<1>18. \A m, p \in Lists : \A i \in 1 .. Len(ls2[m]), j \in 1 .. Len(ls2[p]) : ls2[m][i] = ls2[p][j] => m = p
  <2> SUFFICES ASSUME NEW m \in Lists, NEW p \in Lists, NEW i \in 1 .. Len(ls2[m]), NEW j \in 1 .. Len(ls2[p]),
                      ls2[m][i] = ls2[p][j]
               PROVE  m = p
    OBVIOUS
  <2>1. PICK a \in 1 .. Len(ls[m]) : ls2[m][i] = ls[m][a] BY <1>16
  <2>2. PICK b \in 1 .. Len(ls[p]) : ls2[p][j] = ls[p][b] BY <1>16
  <2>3. ls[m][a] = ls[p][b] BY <2>1, <2>2
  <2> QED BY <1>3, <2>3
<1>19. Reached(h2, ls2)
  <2> SUFFICES ASSUME NEW id \in 1 .. Len(h2), ~h2[id].not
               PROVE  \E m \in Lists : \E k \in 1 .. Len(ls2[m]) : ls2[m][k] = id
    BY DEF Reached
  <2>1. id \in 1 .. n /\ id # x /\ ~h[id].not
    <3>1. id \in 1 .. Len(h) BY <1>1
    <3>2. id # x BY <1>1, <3>1
    <3>3. h2[id].not = h[id].not BY <1>1, <3>1, <3>2
    <3>4. ~h[id].not BY <3>3, Zenon
    <3> QED BY <3>1, <3>2, <3>4 DEF n
  <2>2. PICK m \in Lists : \E k \in 1 .. Len(ls[m]) : ls[m][k] = id
    <3>1. Reached(h, ls) /\ id \in 1 .. Len(h) BY <1>3, <2>1 DEF n
    <3> QED BY <2>1, <3>1, Zenon DEF Reached
  <2>3. PICK k \in 1 .. Len(ls[m]) : ls[m][k] = id BY <2>2
  <2>4. CASE m = l BY <1>5, <1>9, <1>10, <2>1, <2>3, <2>4
  <2>5. CASE m # l BY <1>10, <2>3, <2>5
  <2> QED BY <2>4, <2>5
<1>20. \A m \in Lists : Once(ls2[m]) BY <1>3, <1>10, <1>12
<1>21. Len(w) < MaxHooks
  <2>1. Len(w2) <= n
    <3> QED BY <1>2, <1>7, <1>15, OnceIsShort
  <2> QED BY <1>2, <1>6, <1>7, <2>1
<1>22. Placing(h2, ls2, w2, g)
  BY <1>1, <1>2, <1>3, <1>7, <1>10, <1>15, <1>17, <1>18, <1>20 DEF Placing, n
<1>23. PlacesRight(h2, ls2, w2, g) BY <1>14, <1>19, <1>22 DEF PlacesRight
<1> QED BY <1>21, <1>23 DEF h2, ls2, w2, x

LEMMA WiderSeq ==
    ASSUME NEW S, NEW T, S \subseteq T, NEW s \in Seq(S)
    PROVE  s \in Seq(T)
OBVIOUS

\* add_to_list_ext(): a new hook is in list l.
LEMMA OneIn ==
    ASSUME NEW h, NEW ls, NEW w, NEW g, PlacesRight(h, ls, w, g), NEW l \in Lists,
           NEW new \in Hook, Len(h) < MaxHooks,
           NEW at \in 1 .. Len(ls[l]) + 1, NEW r \in Seq(1 .. Len(h) + 1), Len(r) = Len(ls[l]) + 1,
           \A i \in 1 .. Len(ls[l]) + 1 : r[i] =
              IF i < at THEN ls[l][i] ELSE IF i = at THEN Len(h) + 1 ELSE ls[l][i - 1],
           \A i \in 1 .. Len(ls[l]) : i < at => h[ls[l][i]].sernum <= new.sernum,
           at <= Len(ls[l]) => h[ls[l][at]].sernum >= new.sernum
    PROVE  PlacesRight(Append(h, new), [ls EXCEPT ![l] = r], w, g)
<1> DEFINE x == Len(h) + 1
           ls2 == [ls EXCEPT ![l] = r]
           h2 == Append(h, new)
           n == Len(h)
           list == ls[l]
<1>0. h \in Seq(Hook) /\ n \in Nat /\ n < MaxHooks /\ MaxHooks \in Nat
  BY HooksAssumption DEF PlacesRight, Placing
<1>1. /\ h2 \in Seq(Hook) /\ Len(h2) = n + 1 /\ h2[n + 1] = new
      /\ \A i \in 1 .. n : h2[i] = h[i]
  BY <1>0, AppendProperties
<1>2. \A i \in 1 .. n : h[i] \in Hook /\ h[i].sernum \in Nat
  <2>1. \A i \in 1 .. n : h[i] \in Hook BY <1>0, Elements
  <2> QED BY <2>1 DEF Hook
<1>3. /\ ls \in [Lists -> Seq(1 .. n)] /\ w \in Seq(1 .. n) /\ g \subseteq 1 .. n
      /\ Once(w) /\ \A k \in 1 .. Len(w) : w[k] \notin g
      /\ \A m \in Lists : /\ Once(ls[m])
                          /\ \A i \in 1 .. Len(ls[m]) :
                                ls[m][i] \notin g /\ \A k \in 1 .. Len(w) : ls[m][i] # w[k]
      /\ \A m, p \in Lists : \A i \in 1 .. Len(ls[m]), j \in 1 .. Len(ls[p]) : ls[m][i] = ls[p][j] => m = p
      /\ \A m \in Lists : Ordered(h, ls[m])
      /\ Reached(h, ls)
  BY DEF PlacesRight, Placing
<1>4. list \in Seq(1 .. n) /\ Len(list) \in Nat /\ \A i \in 1 .. Len(list) : list[i] \in 1 .. n
  BY <1>3, Elements
<1>5. /\ x = n + 1 /\ at \in 1 .. Len(list) + 1 /\ Once(list) /\ Ordered(h, list) /\ list = ls[l]
      /\ r \in Seq(1 .. n + 1) /\ Len(r) = Len(list) + 1
      /\ \A i \in 1 .. Len(list) + 1 : r[i] = IF i < at THEN list[i] ELSE IF i = at THEN x ELSE list[i - 1]
  BY <1>3
<1>6. /\ \A i \in 1 .. Len(list) : i < at => h[list[i]].sernum <= new.sernum
      /\ at <= Len(list) => h[list[at]].sernum >= new.sernum
      /\ new.sernum \in Nat
  BY DEF Hook
<1>7. \A i \in 1 .. Len(list) : i >= at => h[list[i]].sernum >= new.sernum
  <2> SUFFICES ASSUME NEW i \in 1 .. Len(list), i >= at PROVE h[list[i]].sernum >= new.sernum OBVIOUS
  <2> HIDE DEF list, n
  <2>0. at <= Len(list) /\ at \in 1 .. Len(list) BY <1>4, <1>5
  <2>1. at <= Len(list) /\ h[list[at]].sernum >= new.sernum /\ at \in 1 .. Len(list) BY <1>6, <2>0
  <2>2. h[list[i]].sernum \in Nat /\ h[list[at]].sernum \in Nat BY <1>2, <1>4, <2>1
  <2>3. h[list[at]].sernum <= h[list[i]].sernum
    <3>1. CASE i = at BY <2>2, <3>1
    <3>2. CASE i # at
      <4>1. at < i BY <1>4, <2>1, <3>2
      <4> QED BY <1>5, <2>1, <4>1 DEF Ordered
    <3> QED BY <3>1, <3>2
  <2>4. PICK a \in Nat, b \in Nat, c \in Nat :
           a = new.sernum /\ b = h[list[at]].sernum /\ c = h[list[i]].sernum
    BY <1>6, <2>2
  <2>5. b >= a /\ b <= c BY <2>1, <2>3, <2>4
  <2>6. c >= a BY <2>5
  <2> QED BY <2>4, <2>6
<1>8. x \notin 1 .. n /\ x \notin g /\ \A k \in 1 .. Len(w) : w[k] # x
  <2>1. \A k \in 1 .. Len(w) : w[k] \in 1 .. n BY <1>3, Elements
  <2>2. x \notin 1 .. n BY <1>0, <1>5
  <2> QED BY <1>3, <2>1, <2>2
<1> HIDE DEF n, list, x
<1>9. ls2 \in [Lists -> Seq(1 .. n + 1)] /\ ls2[l] = r /\ \A m \in Lists : m # l => ls2[m] = ls[m]
  <2>1. \A m \in Lists : ls[m] \in Seq(1 .. n + 1)
    <3> SUFFICES ASSUME NEW m \in Lists PROVE ls[m] \in Seq(1 .. n + 1) OBVIOUS
    <3>1. ls[m] \in Seq(1 .. n) BY <1>3
    <3>2. 1 .. n \subseteq 1 .. n + 1 BY <1>0
    <3> QED BY <3>1, <3>2, WiderSeq
  <2> QED BY <1>3, <1>5, <2>1
<1>10. w \in Seq(1 .. n + 1) /\ g \subseteq 1 .. n + 1
  <2>1. 1 .. n \subseteq 1 .. n + 1 BY <1>0
  <2>2. w \in Seq(1 .. n) /\ g \subseteq 1 .. n BY <1>3
  <2>3. w \in Seq(1 .. n + 1) BY <2>1, <2>2, WiderSeq
  <2> QED BY <2>1, <2>2, <2>3, Zenon
<1> DEFINE from(i) == IF i < at THEN i ELSE i - 1
<1>11. /\ \A i \in 1 .. Len(r) : i # at => from(i) \in 1 .. Len(list) /\ r[i] = list[from(i)] /\ r[i] # x
       /\ \A i, j \in 1 .. Len(r) : i # at /\ j # at /\ i < j => from(i) < from(j)
       /\ \A i \in 1 .. Len(r) : (i < at => from(i) < at) /\ (i > at => from(i) >= at)
       /\ at \in 1 .. Len(r) /\ r[at] = x
  <2>1. \A i \in 1 .. Len(r) : i # at => from(i) \in 1 .. Len(list) BY <1>4, <1>5
  <2>2. \A i \in 1 .. Len(r) : i # at => r[i] = list[from(i)] BY <1>4, <1>5
  <2>3. /\ \A i, j \in 1 .. Len(r) : i # at /\ j # at /\ i < j => from(i) < from(j)
        /\ \A i \in 1 .. Len(r) : (i < at => from(i) < at) /\ (i > at => from(i) >= at)
        /\ at \in 1 .. Len(r) /\ r[at] = x
    <3>1. at \in Nat /\ Len(r) \in Nat BY <1>4, <1>5
    <3>2. \A i, j \in 1 .. Len(r) : i # at /\ j # at /\ i < j => from(i) < from(j) BY <3>1
    <3>3. \A i \in 1 .. Len(r) : (i < at => from(i) < at) /\ (i > at => from(i) >= at) BY <3>1
    <3>4. at \in 1 .. Len(r) /\ r[at] = x BY <1>4, <1>5
    <3> HIDE DEF from
    <3> QED BY <3>2, <3>3, <3>4
  <2> HIDE DEF from
  <2> QED BY <1>4, <1>8, <2>1, <2>2, <2>3
<1>12. \A j \in 1 .. Len(list) : \E i \in 1 .. Len(r) : r[i] = list[j]
  <2> SUFFICES ASSUME NEW j \in 1 .. Len(list) PROVE \E i \in 1 .. Len(r) : r[i] = list[j] OBVIOUS
  <2>1. CASE j < at
    <3>1. j \in 1 .. Len(list) + 1 BY <1>4
    <3>2. r[j] = list[j] /\ j \in 1 .. Len(r) BY <1>5, <2>1, <3>1
    <3> QED BY <3>2
  <2>2. CASE j >= at
    <3>1. j + 1 \in 1 .. Len(list) + 1 /\ ~(j + 1 < at) /\ j + 1 # at /\ (j + 1) - 1 = j BY <1>4, <1>5, <2>2
    <3>2. r[j + 1] = list[j] /\ j + 1 \in 1 .. Len(r) BY <1>5, <3>1
    <3> QED BY <3>2
  <2>3. j < at \/ j >= at BY <1>4, <1>5
  <2> QED BY <2>1, <2>2, <2>3
<1> HIDE DEF from
<1>13. Once(r)
  <2>0. \A i, j \in 1 .. Len(r) : i = j \/ i < j \/ j < i BY <1>4, <1>5
  <2> SUFFICES ASSUME NEW i \in 1 .. Len(r), NEW j \in 1 .. Len(r), i < j PROVE r[i] # r[j]
    BY <2>0 DEF Once
  <2>1. CASE i = at BY <1>11, <2>1, SMTT(30)
  <2>2. CASE j = at BY <1>11, <2>2, SMTT(30)
  <2>3. CASE i # at /\ j # at
    <3>1. /\ from(i) \in 1 .. Len(list) /\ from(j) \in 1 .. Len(list) /\ from(i) < from(j)
          /\ r[i] = list[from(i)] /\ r[j] = list[from(j)]
      BY <1>11, <2>3
    <3>2. Once(list) /\ from(i) # from(j) BY <1>5, <3>1
    <3> QED BY <3>1, <3>2 DEF Once
  <2> QED BY <2>1, <2>2, <2>3
<1>14. Ordered(h2, r)
  <2> SUFFICES ASSUME NEW i \in 1 .. Len(r), NEW j \in 1 .. Len(r), i < j
               PROVE  h2[r[i]].sernum <= h2[r[j]].sernum
    BY DEF Ordered
  <2>0. \A k \in 1 .. Len(r) : k # at => from(k) \in 1 .. Len(list) /\ h2[r[k]] = h[list[from(k)]]
    <3> HIDE DEF h2
    <3> QED BY <1>1, <1>4, <1>11
  <2>1. h2[r[at]].sernum = new.sernum BY <1>1, <1>5, <1>11, SMTT(30)
  <2> HIDE DEF h2
  <2>2. CASE i = at
    <3>1. from(j) \in 1 .. Len(list) /\ from(j) >= at /\ h2[r[j]] = h[list[from(j)]] BY <1>11, <2>0, <2>2
    <3> QED BY <1>2, <1>4, <1>6, <1>7, <2>1, <2>2, <3>1
  <2>3. CASE j = at
    <3>1. from(i) \in 1 .. Len(list) /\ from(i) < at /\ h2[r[i]] = h[list[from(i)]] BY <1>11, <2>0, <2>3
    <3> QED BY <1>6, <2>1, <2>3, <3>1
  <2>4. CASE i # at /\ j # at
    <3>1. from(i) \in 1 .. Len(list) /\ from(j) \in 1 .. Len(list) /\ from(i) < from(j) BY <1>11, <2>4
    <3>2. h[list[from(i)]].sernum <= h[list[from(j)]].sernum BY <1>5, <3>1 DEF Ordered
    <3> QED BY <2>0, <2>4, <3>2
  <2> QED BY <2>2, <2>3, <2>4
<1> HIDE DEF ls2, h2
<1>15. \A m \in Lists : Ordered(h2, ls2[m])
  <2> SUFFICES ASSUME NEW m \in Lists, m # l PROVE Ordered(h2, ls2[m]) BY <1>9, <1>14
  <2>1. ls2[m] = ls[m] /\ Ordered(h, ls[m]) BY <1>3, <1>9
  <2>2. \A i \in 1 .. Len(ls[m]) : ls[m][i] \in 1 .. n BY <1>3, Elements
  <2>3. \A i \in 1 .. Len(ls[m]) : h2[ls[m][i]] = h[ls[m][i]] BY <1>1, <2>2
  <2> QED BY <2>1, <2>3, ZenonT(60) DEF Ordered
<1>16. \A m \in Lists : \A i \in 1 .. Len(ls2[m]) :
          (m = l /\ ls2[m][i] = x) \/ \E j \in 1 .. Len(ls[m]) : ls2[m][i] = ls[m][j]
  <2> SUFFICES ASSUME NEW m \in Lists, NEW i \in 1 .. Len(ls2[m])
               PROVE  (m = l /\ ls2[m][i] = x) \/ \E j \in 1 .. Len(ls[m]) : ls2[m][i] = ls[m][j]
    OBVIOUS
  <2>1. CASE m = l BY <1>5, <1>9, <1>11, <2>1
  <2>2. CASE m # l BY <1>9, <2>2
  <2> QED BY <2>1, <2>2
<1>17. \A m \in Lists : \A i \in 1 .. Len(ls2[m]) :
          ls2[m][i] \notin g /\ \A k \in 1 .. Len(w) : ls2[m][i] # w[k]
  <2> SUFFICES ASSUME NEW m \in Lists, NEW i \in 1 .. Len(ls2[m])
               PROVE  ls2[m][i] \notin g /\ \A k \in 1 .. Len(w) : ls2[m][i] # w[k]
    OBVIOUS
  <2>1. CASE ls2[m][i] = x BY <1>8, <2>1
  <2>2. CASE ls2[m][i] # x
    <3>1. PICK j \in 1 .. Len(ls[m]) : ls2[m][i] = ls[m][j] BY <1>16, <2>2
    <3>2. ls[m][j] \notin g /\ \A k \in 1 .. Len(w) : ls[m][j] # w[k] BY <1>3
    <3> QED BY <3>1, <3>2
  <2> QED BY <2>1, <2>2
<1>18. \A m, p \in Lists : \A i \in 1 .. Len(ls2[m]), j \in 1 .. Len(ls2[p]) : ls2[m][i] = ls2[p][j] => m = p
  <2> SUFFICES ASSUME NEW m \in Lists, NEW p \in Lists, NEW i \in 1 .. Len(ls2[m]), NEW j \in 1 .. Len(ls2[p]),
                      ls2[m][i] = ls2[p][j]
               PROVE  m = p
    OBVIOUS
  <2>0. \A q \in Lists : \A k \in 1 .. Len(ls[q]) : ls[q][k] # x
    <3>1. \A q \in Lists : \A k \in 1 .. Len(ls[q]) : ls[q][k] \in 1 .. n BY <1>3, Elements
    <3> QED BY <1>8, <3>1
  <2>1. CASE ls2[m][i] = x
    <3>1. m = l
      <4>1. ~\E a \in 1 .. Len(ls[m]) : ls2[m][i] = ls[m][a] BY <2>0, <2>1
      <4> QED BY <1>16, <4>1
    <3>2. p = l
      <4>1. ~\E a \in 1 .. Len(ls[p]) : ls2[p][j] = ls[p][a] BY <2>0, <2>1
      <4> QED BY <1>16, <4>1
    <3> QED BY <3>1, <3>2
  <2>2. CASE ls2[m][i] # x
    <3>1. PICK a \in 1 .. Len(ls[m]) : ls2[m][i] = ls[m][a] BY <1>16, <2>2
    <3>2. PICK b \in 1 .. Len(ls[p]) : ls2[p][j] = ls[p][b] BY <1>16, <2>2
    <3>3. ls[m][a] = ls[p][b] BY <3>1, <3>2
    <3> QED BY <1>3, <3>3
  <2> QED BY <2>1, <2>2
<1>19. Reached(h2, ls2)
  <2> SUFFICES ASSUME NEW id \in 1 .. Len(h2), ~h2[id].not
               PROVE  \E m \in Lists : \E k \in 1 .. Len(ls2[m]) : ls2[m][k] = id
    BY DEF Reached
  <2>1. CASE id = x BY <1>5, <1>9, <1>11, <2>1
  <2>2. CASE id # x
    <3>1. id \in 1 .. n BY <1>0, <1>1, <1>5, <2>2
    <3>2. h2[id] = h[id] BY <1>1, <3>1
    <3>3. ~h[id].not BY <3>2, Zenon
    <3>4. PICK m \in Lists : \E k \in 1 .. Len(ls[m]) : ls[m][k] = id
      <4>1. Reached(h, ls) /\ id \in 1 .. Len(h) BY <1>3, <3>1 DEF n
      <4> QED BY <3>3, <4>1, Zenon DEF Reached
    <3>5. PICK k \in 1 .. Len(ls[m]) : ls[m][k] = id BY <3>4
    <3>6. CASE m = l BY <1>5, <1>9, <1>12, <3>5, <3>6
    <3>7. CASE m # l BY <1>9, <3>5, <3>7
    <3> QED BY <3>6, <3>7
  <2> QED BY <2>1, <2>2
<1>20. \A m \in Lists : Once(ls2[m]) BY <1>3, <1>9, <1>13
<1>21. Placing(h2, ls2, w, g)
  <2>1. Len(h2) <= MaxHooks BY <1>0, <1>1
  <2> QED BY <1>1, <1>3, <1>9, <1>10, <1>17, <1>18, <1>20, <2>1 DEF Placing
<1>22. PlacesRight(h2, ls2, w, g) BY <1>15, <1>19, <1>21 DEF PlacesRight
<1> QED BY <1>22 DEF h2, ls2

\* ON list -: all of list l now wait.
LEMMA AllOut ==
    ASSUME NEW h, NEW ls, NEW w, NEW g, PlacesRight(h, ls, w, g), NEW l \in Lists
    PROVE  LET out == {ls[l][i] : i \in DOMAIN ls[l]} IN
           /\ PlacesRight(Removed(h, out), [ls EXCEPT ![l] = <<>>], w \o ls[l], g)
           /\ Len(w \o ls[l]) <= MaxHooks
<1> DEFINE list == ls[l]
           out == {list[i] : i \in DOMAIN list}
           ls2 == [ls EXCEPT ![l] = <<>>]
           w2 == w \o list
           h2 == Removed(h, out)
           n == Len(h)
<1>0. h \in Seq(Hook) /\ n \in Nat /\ n <= MaxHooks /\ MaxHooks \in Nat
  BY HooksAssumption DEF PlacesRight, Placing
<1>1. /\ h2 \in Seq(Hook) /\ Len(h2) = n
      /\ \A i \in 1 .. n : /\ h2[i].sernum = h[i].sernum
                           /\ i \in out => h2[i].not
                           /\ i \notin out => h2[i].not = h[i].not
  <2> HIDE DEF out
  <2> QED BY <1>0, RemovedIs
<1>3. /\ ls \in [Lists -> Seq(1 .. n)] /\ w \in Seq(1 .. n) /\ g \subseteq 1 .. n
      /\ Once(w) /\ \A k \in 1 .. Len(w) : w[k] \notin g
      /\ \A m \in Lists : /\ Once(ls[m])
                          /\ \A i \in 1 .. Len(ls[m]) :
                                ls[m][i] \notin g /\ \A k \in 1 .. Len(w) : ls[m][i] # w[k]
      /\ \A m, p \in Lists : \A i \in 1 .. Len(ls[m]), j \in 1 .. Len(ls[p]) : ls[m][i] = ls[p][j] => m = p
      /\ \A m \in Lists : Ordered(h, ls[m])
      /\ Reached(h, ls)
  BY DEF PlacesRight, Placing
<1>4. /\ list \in Seq(1 .. n) /\ Len(list) \in Nat /\ DOMAIN list = 1 .. Len(list)
      /\ \A i \in 1 .. Len(list) : list[i] \in 1 .. n
      /\ Once(list) /\ list = ls[l]
      /\ \A i \in 1 .. Len(list) : list[i] \notin g /\ \A k \in 1 .. Len(w) : list[i] # w[k]
  BY <1>3, Elements
<1>5. \A x : x \in out <=> \E i \in 1 .. Len(list) : x = list[i] BY <1>4
<1> HIDE DEF n, list, out
<1>6. Len(w) \in Nat BY <1>3
<1>7. /\ w2 \in Seq(1 .. n) /\ Len(w2) = Len(w) + Len(list)
      /\ \A k \in 1 .. Len(w) + Len(list) : w2[k] = IF k <= Len(w) THEN w[k] ELSE list[k - Len(w)]
  BY <1>3, <1>4, ConcatProperties
<1> HIDE DEF w2
<1>8. \A k \in 1 .. Len(w2) : \/ k \in 1 .. Len(w) /\ w2[k] = w[k]
                              \/ k - Len(w) \in 1 .. Len(list) /\ w2[k] = list[k - Len(w)]
  BY <1>4, <1>6, <1>7
<1>9. Once(w2)
  <2> SUFFICES ASSUME NEW j \in 1 .. Len(w2), NEW k \in 1 .. Len(w2), w2[j] = w2[k] PROVE j = k
    BY DEF Once
  <2>1. CASE j \in 1 .. Len(w) /\ w2[j] = w[j]
    <3>1. CASE k \in 1 .. Len(w) /\ w2[k] = w[k] BY <1>3, <2>1, <3>1 DEF Once
    <3>2. CASE k - Len(w) \in 1 .. Len(list) /\ w2[k] = list[k - Len(w)] BY <1>4, <2>1, <3>2
    <3> QED BY <1>8, <3>1, <3>2
  <2>2. CASE j - Len(w) \in 1 .. Len(list) /\ w2[j] = list[j - Len(w)]
    <3>1. CASE k \in 1 .. Len(w) /\ w2[k] = w[k] BY <1>4, <2>2, <3>1
    <3>2. CASE k - Len(w) \in 1 .. Len(list) /\ w2[k] = list[k - Len(w)]
      <4>1. j - Len(w) = k - Len(w) BY <1>4, <2>2, <3>2 DEF Once
      <4> QED BY <1>6, <4>1
    <3> QED BY <1>8, <3>1, <3>2
  <2> QED BY <1>8, <2>1, <2>2
<1>10. \A k \in 1 .. Len(w2) : w2[k] \notin g
  <2> SUFFICES ASSUME NEW k \in 1 .. Len(w2) PROVE w2[k] \notin g OBVIOUS
  <2>1. CASE k \in 1 .. Len(w) /\ w2[k] = w[k] BY <1>3, <2>1
  <2>2. CASE k - Len(w) \in 1 .. Len(list) /\ w2[k] = list[k - Len(w)] BY <1>4, <2>2
  <2> QED BY <1>8, <2>1, <2>2
<1>11. ls2 \in [Lists -> Seq(1 .. n)] /\ Len(ls2[l]) = 0 /\ \A m \in Lists : m # l => ls2[m] = ls[m]
  BY <1>3
<1> HIDE DEF ls2
<1>12. \A m \in Lists : \A i \in 1 .. Len(ls2[m]) : m # l /\ ls2[m] = ls[m] BY <1>11
<1>13. \A m \in Lists : Ordered(h2, ls2[m]) /\ Once(ls2[m])
  <2> SUFFICES ASSUME NEW m \in Lists PROVE Ordered(h2, ls2[m]) /\ Once(ls2[m]) OBVIOUS
  <2>1. CASE m = l BY <1>12, <2>1 DEF Ordered, Once
  <2>2. CASE m # l
    <3>1. ls2[m] = ls[m] /\ Ordered(h, ls[m]) /\ Once(ls[m]) BY <1>3, <1>11, <2>2
    <3>2. \A i \in 1 .. Len(ls[m]) : ls[m][i] \in 1 .. n BY <1>3, Elements
    <3> QED BY <1>1, <3>1, <3>2, SMTT(30) DEF Ordered
  <2> QED BY <2>1, <2>2
<1>14. \A m \in Lists : \A i \in 1 .. Len(ls2[m]) :
          ls2[m][i] \notin g /\ \A k \in 1 .. Len(w2) : ls2[m][i] # w2[k]
  <2>0. \A m \in Lists : \A i \in 1 .. Len(ls2[m]) : ls2[m][i] \notin g BY <1>3, <1>12
  <2> SUFFICES ASSUME NEW m \in Lists, NEW i \in 1 .. Len(ls2[m]), NEW k \in 1 .. Len(w2)
               PROVE  ls2[m][i] # w2[k]
    BY <2>0
  <2>1. m # l /\ ls2[m] = ls[m] /\ i \in 1 .. Len(ls[m]) BY <1>12
  <2>2. CASE k \in 1 .. Len(w) /\ w2[k] = w[k] BY <1>3, <2>1, <2>2
  <2>3. CASE k - Len(w) \in 1 .. Len(list) /\ w2[k] = list[k - Len(w)]
    <3>1. ls[m][i] # list[k - Len(w)]
      <4>1. k - Len(w) \in 1 .. Len(ls[l]) /\ list = ls[l] BY <1>4, <2>3
      <4> QED BY <1>3, <2>1, <4>1
    <3> QED BY <1>3, <2>1, <2>3, <3>1
  <2> QED BY <1>8, <2>2, <2>3
<1>15. \A m, p \in Lists : \A i \in 1 .. Len(ls2[m]), j \in 1 .. Len(ls2[p]) : ls2[m][i] = ls2[p][j] => m = p
  <2> SUFFICES ASSUME NEW m \in Lists, NEW p \in Lists, NEW i \in 1 .. Len(ls2[m]), NEW j \in 1 .. Len(ls2[p]),
                      ls2[m][i] = ls2[p][j]
               PROVE  m = p
    OBVIOUS
  <2>1. ls2[m] = ls[m] /\ ls2[p] = ls[p] BY <1>12
  <2> QED BY <1>3, <2>1
<1>16. Reached(h2, ls2)
  <2> SUFFICES ASSUME NEW id \in 1 .. Len(h2), ~h2[id].not
               PROVE  \E m \in Lists : \E k \in 1 .. Len(ls2[m]) : ls2[m][k] = id
    BY DEF Reached
  <2>1. id \in 1 .. n /\ id \notin out /\ h2[id].not = h[id].not BY <1>1
  <2>2. ~h[id].not BY <2>1, Zenon
  <2>3. PICK m \in Lists : \E k \in 1 .. Len(ls[m]) : ls[m][k] = id
    <3>1. Reached(h, ls) /\ id \in 1 .. Len(h) BY <1>3, <2>1 DEF n
    <3> QED BY <2>2, <3>1, Zenon DEF Reached
  <2>4. PICK k \in 1 .. Len(ls[m]) : ls[m][k] = id BY <2>3
  <2>5. m # l BY <1>4, <1>5, <2>1, <2>4
  <2> QED BY <1>11, <2>4, <2>5
<1>17. Placing(h2, ls2, w2, g)
  BY <1>0, <1>1, <1>3, <1>7, <1>9, <1>10, <1>11, <1>13, <1>14, <1>15 DEF Placing
<1>18. PlacesRight(h2, ls2, w2, g) BY <1>13, <1>16, <1>17 DEF PlacesRight
<1>19. Len(w2) <= MaxHooks
  <2>1. Len(w2) <= n BY <1>0, <1>7, <1>9, OnceIsShort
  <2>2. Len(w2) \in Nat BY <1>7
  <2> QED BY <1>0, <2>1, <2>2
<1> QED BY <1>18, <1>19 DEF h2, ls2, w2, out, list

-----------------------------------------------------------------------------
(* do_hook().                                                              *)

\* Of a list in order, the best matches: one of each serial number.
LEMMA HookArrayIs ==
    ASSUME PlacesRight(hook, hookList, waiting, gone), NEW l \in Lists, NEW topic, NEW fromServer
    PROVE  LET a == HookArray(l, topic, fromServer) IN
           /\ a \in Seq(1 .. Len(hook))
           /\ \A i \in 1 .. Len(a) : a[i] \notin gone
           /\ \A i, j \in 1 .. Len(a) : i < j => hook[a[i]].sernum < hook[a[j]].sernum
<1> DEFINE list == hookList[l]
           sernums == {hook[list[i]].sernum : i \in DOMAIN list}
           best == UNION {BestMatch(list, s, topic, fromServer) : s \in sernums}
           at(k) == CHOOSE i \in best : Cardinality({j \in best : j <= i}) = k
           n == Len(hook)
           c == Cardinality(best)
<1>1. /\ list \in Seq(1 .. n) /\ Len(list) \in Nat /\ DOMAIN list = 1 .. Len(list)
      /\ \A i \in 1 .. Len(list) : list[i] \in 1 .. n /\ list[i] \notin gone
      /\ Ordered(hook, list)
  <2>1. list \in Seq(1 .. n) BY DEF PlacesRight, Placing
  <2>2. Ordered(hook, list) BY DEF PlacesRight
  <2>3. \A i \in 1 .. Len(list) : list[i] \notin gone BY DEF PlacesRight, Placing
  <2> HIDE DEF list
  <2> QED BY <2>1, <2>2, <2>3, Elements
<1>2. \A i \in 1 .. Len(list) : hook[list[i]].sernum \in Nat
  <2>1. hook \in Seq(Hook) BY DEF PlacesRight, Placing
  <2>2. \A i \in 1 .. n : hook[i] \in Hook BY <2>1, Elements
  <2> QED BY <1>1, <2>2 DEF Hook
<1>3. \A i \in best : i \in 1 .. Len(list) /\ i \in BestMatch(list, hook[list[i]].sernum, topic, fromServer)
  <2> SUFFICES ASSUME NEW i \in best
               PROVE  i \in 1 .. Len(list) /\ i \in BestMatch(list, hook[list[i]].sernum, topic, fromServer)
    OBVIOUS
  <2>1. PICK s : i \in BestMatch(list, s, topic, fromServer) OBVIOUS
  <2>2. i \in LookedAt(list, s) BY <2>1 DEF BestMatch
  <2>3. i \in 1 .. Len(list) /\ hook[list[i]].sernum = s BY <1>1, <2>2 DEF LookedAt
  <2> QED BY <2>1, <2>3
<1>4. best \in SUBSET Nat /\ IsFiniteSet(best)
  <2>1. best \subseteq 1 .. Len(list) BY <1>3
  <2> HIDE DEF best, list
  <2>2. IsFiniteSet(1 .. Len(list)) BY <1>1, FS_Interval
  <2>3. IsFiniteSet(best) BY <2>1, <2>2, FS_Subset
  <2> QED BY <2>1, <2>3
<1>5. \A i, j \in best : i < j => hook[list[i]].sernum < hook[list[j]].sernum
  <2> SUFFICES ASSUME NEW i \in best, NEW j \in best, i < j
               PROVE  hook[list[i]].sernum < hook[list[j]].sernum
    OBVIOUS
  <2>1. hook[list[i]].sernum <= hook[list[j]].sernum BY <1>1, <1>3 DEF Ordered
  <2>2. hook[list[i]].sernum # hook[list[j]].sernum
    <3> SUFFICES ASSUME hook[list[i]].sernum = hook[list[j]].sernum PROVE FALSE OBVIOUS
    <3> DEFINE s == hook[list[i]].sernum
               v(k) == WildMatch(hook[list[k]].nick, topic)
    <3>1. i \in BestMatch(list, s, topic, fromServer) /\ j \in BestMatch(list, s, topic, fromServer) BY <1>3
    <3>2. i \in LookedAt(list, s) /\ j \in LookedAt(list, s) BY <3>1 DEF BestMatch
    <3>3. /\ v(j) < v(i) \/ (v(j) = v(i) /\ i <= j)
          /\ v(i) < v(j) \/ (v(i) = v(j) /\ j <= i)
      BY <3>1, <3>2 DEF BestMatch
    <3>4. v(i) \in Nat /\ v(j) \in Nat BY DEF WildMatch
    <3>5. i \in Nat /\ j \in Nat BY <1>4
    <3> HIDE DEF v, best, s
    <3> QED BY <3>3, <3>4, <3>5
  <2>3. hook[list[i]].sernum \in Nat /\ hook[list[j]].sernum \in Nat BY <1>2, <1>3
  <2> QED BY <2>1, <2>2, <2>3
<1>6. HookArray(l, topic, fromServer) = [k \in 1 .. c |-> list[at(k)]]
  BY DEF HookArray
<1> HIDE DEF best, list, n
<1>7. c \in Nat BY <1>4, FS_CardinalityType
<1>8. \A k \in 1 .. c : at(k) \in best /\ Rank(best, at(k)) = k
  <2> SUFFICES ASSUME NEW k \in 1 .. c PROVE at(k) \in best /\ Rank(best, at(k)) = k OBVIOUS
  <2>1. \E i \in best : Rank(best, i) = k BY <1>4, RankFinds
  <2>2. \E i \in best : Cardinality({j \in best : j <= i}) = k BY <2>1 DEF Rank
  <2> QED BY <2>2 DEF Rank
<1> HIDE DEF at, c
<1>9. \A i, j \in 1 .. c : i < j => at(i) < at(j)
  <2> SUFFICES ASSUME NEW i \in 1 .. c, NEW j \in 1 .. c, i < j PROVE at(i) < at(j) OBVIOUS
  <2>1. at(i) \in best /\ at(j) \in best /\ Rank(best, at(i)) = i /\ Rank(best, at(j)) = j BY <1>8
  <2>2. at(i) \in Nat /\ at(j) \in Nat BY <1>4, <2>1
  <2>3. CASE at(j) < at(i)
    <3>1. Rank(best, at(j)) < Rank(best, at(i)) BY <1>4, <2>1, <2>3, RankRises
    <3> QED BY <1>7, <2>1, <3>1
  <2>4. CASE at(j) = at(i) BY <1>7, <2>1, <2>4
  <2> QED BY <2>2, <2>3, <2>4
<1> DEFINE a == [k \in 1 .. c |-> list[at(k)]]
<1>10. \A k \in 1 .. c : list[at(k)] \in 1 .. n /\ list[at(k)] \notin gone BY <1>1, <1>3, <1>8
<1>11. a \in Seq(1 .. n) /\ Len(a) = c BY <1>7, <1>10
<1>12. \A i \in 1 .. c : a[i] = list[at(i)] OBVIOUS
<1>13. \A i, j \in 1 .. c : i < j => hook[list[at(i)]].sernum < hook[list[at(j)]].sernum BY <1>5, <1>8, <1>9
<1> HIDE DEF a
<1>14. HookArray(l, topic, fromServer) = a BY <1>6 DEF a
<1> QED BY <1>10, <1>11, <1>12, <1>13, <1>14, ZenonT(60) DEF n

\* A call keeps to what it has when hooks are made and marked.
LEMMA FrameKeeps ==
    ASSUME NEW h, NEW h2, NEW g, NEW f \in Frame, FrameRight(h, g, f),
           Len(h) \in Nat, Len(h2) \in Nat, Len(h) <= Len(h2),
           \A i \in 1 .. Len(h) : h2[i].sernum = h[i].sernum
    PROVE  FrameRight(h2, g, f)
<1>1. f.array \in Seq(HookIds) BY DEF Frame
<1>2. Len(f.array) \in Nat BY <1>1
<1>3. \A i \in 1 .. Len(f.array) : /\ f.array[i] \in 1 .. Len(h) /\ f.array[i] \in 1 .. Len(h2)
                                   /\ f.array[i] \notin g
                                   /\ h2[f.array[i]].sernum = h[f.array[i]].sernum
  BY DEF FrameRight
<1>4. \A i, j \in 1 .. Len(f.array) : i < j => h2[f.array[i]].sernum < h2[f.array[j]].sernum
  BY <1>3 DEF FrameRight
<1> QED BY <1>3, <1>4 DEF FrameRight

LEMMA OfFinite ==
    ASSUME NEW fr, Len(fr) \in Nat, NEW l
    PROVE  IsFiniteSet(Of(fr, l)) /\ Cardinality(Of(fr, l)) \in Nat
<1>1. IsFiniteSet(1 .. Len(fr)) BY FS_Interval
<1>2. Of(fr, l) \subseteq 1 .. Len(fr) BY DEF Of
<1>3. IsFiniteSet(Of(fr, l)) BY <1>1, <1>2, FS_Subset
<1> QED BY <1>3, FS_CardinalityType

LEMMA OfAppend ==
    ASSUME NEW fr \in Seq(Frame), NEW f \in Frame, NEW l
    PROVE  Of(Append(fr, f), l) = IF f.which = l THEN Of(fr, l) \cup {Len(fr) + 1} ELSE Of(fr, l)
<1>1. /\ Len(fr) \in Nat /\ Len(Append(fr, f)) = Len(fr) + 1
      /\ \A i \in 1 .. Len(fr) : Append(fr, f)[i] = fr[i]
      /\ Append(fr, f)[Len(fr) + 1] = f
  BY AppendProperties
<1> HIDE DEF Frame
<1> QED BY <1>1 DEF Of

LEMMA FrontIs ==
    ASSUME NEW S, NEW fr \in Seq(S), fr # <<>>
    PROVE  LET s == SubSeq(fr, 1, Len(fr) - 1) IN
           s \in Seq(S) /\ Len(s) = Len(fr) - 1 /\ \A i \in 1 .. Len(fr) - 1 : s[i] = fr[i]
<1>1. Len(fr) \in Nat /\ Len(fr) # 0 /\ \A i \in 1 .. Len(fr) : fr[i] \in S BY Elements, EmptySeq
<1> DEFINE m == Len(fr) - 1
           s == SubSeq(fr, 1, m)
<1>2. m \in Nat /\ \A i \in 1 .. m : fr[i] \in S BY <1>1
<1> HIDE DEF m
<1>3. /\ s \in Seq(S) /\ Len(s) = IF 1 <= m THEN m - 1 + 1 ELSE 0
      /\ \A i \in 1 .. m - 1 + 1 : s[i] = fr[1 + i - 1]
  BY <1>2, SubSeqProperties, 1 \in Int, m \in Int
<1> HIDE DEF s
<1>4. s \in Seq(S) /\ Len(s) = m /\ \A i \in 1 .. m : s[i] = fr[i] BY <1>2, <1>3
<1> QED BY <1>4 DEF s, m

LEMMA OfFront ==
    ASSUME NEW fr \in Seq(Frame), fr # <<>>, NEW l
    PROVE  Of(SubSeq(fr, 1, Len(fr) - 1), l) = Of(fr, l) \ {Len(fr)}
<1> DEFINE s == SubSeq(fr, 1, Len(fr) - 1)
<1>1. Len(fr) \in Nat /\ Len(s) = Len(fr) - 1 /\ \A i \in 1 .. Len(fr) - 1 : s[i] = fr[i] BY FrontIs
<1> HIDE DEF s
<1>2. 1 .. Len(s) = (1 .. Len(fr)) \ {Len(fr)} BY <1>1
<1>3. Of(s, l) = Of(fr, l) \ {Len(fr)} BY <1>1, <1>2 DEF Of
<1> QED BY <1>3 DEF s

\* The innermost call goes on: it is of the same list and has the same array.
LEMMA InnermostGoesOn ==
    ASSUME HooksRight, frames # <<>>, NEW fr \in Seq(Frame), Len(fr) = Len(frames),
           \A k \in 1 .. Len(frames) : k # Len(frames) => fr[k] = frames[k],
           fr[Len(frames)].which = Innermost.which, fr[Len(frames)].array = Innermost.array,
           fr[Len(frames)].next >= 1
    PROVE  /\ \A k \in 1 .. Len(fr) : FrameRight(hook, gone, fr[k])
           /\ MarksRight(fr, marks)
<1> DEFINE n == Len(frames)
<1>1. frames \in Seq(Frame) /\ n \in Nat /\ n # 0 BY EmptySeq DEF HooksRight
<1>2. Len(fr) = n /\ \A k \in 1 .. n : k # n => fr[k] = frames[k] OBVIOUS
<1>3. \A k \in 1 .. n : FrameRight(hook, gone, frames[k]) BY DEF HooksRight
<1>4. /\ fr[n].which = frames[n].which /\ fr[n].array = frames[n].array /\ n \in 1 .. n
      /\ fr[n].next >= 1
  BY <1>1 DEF Innermost
<1> HIDE DEF n
<1>5. FrameRight(hook, gone, fr[n]) BY <1>3, <1>4 DEF FrameRight
<1>6. \A k \in 1 .. Len(fr) : FrameRight(hook, gone, fr[k]) BY <1>2, <1>3, <1>5
<1>7. \A l : Of(fr, l) = Of(frames, l)
  <2> SUFFICES ASSUME NEW l PROVE Of(fr, l) = Of(frames, l) OBVIOUS
  <2>1. \A k \in 1 .. n : fr[k].which = frames[k].which BY <1>2, <1>4
  <2> QED BY <1>2, <2>1 DEF Of, n
<1>8. MarksRight(fr, marks) BY <1>7 DEF MarksRight, HooksRight
<1> QED BY <1>6, <1>8

\* The ring of wait_new_free() does not go round in this step: what it keeps is enough for all
\* the hooks that may be made, or what is freed is freed by really_free(), which leaves none.
RingLasts == MaxHooks <= WaitBuffer \/ gone' = gone \/ waiting' = <<>>

\* wait_new_free() of one entry.
LEMMA WaitIs ==
    ASSUME RingLasts, NEW n \in Nat, waiting \in Seq(1 .. n), \A k \in 1 .. Len(waiting) : waiting[k] \notin gone,
           NEW x \in 1 .. n, Len(waiting) < MaxHooks, SetToWait({x})
    PROVE  waiting' = Append(waiting, x) /\ gone' = gone
<1>1. Len(waiting) \in Nat /\ WaitBuffer \in Nat \ {0} /\ MaxHooks \in Nat BY HooksAssumption
<1>2. {x} # {} /\ (CHOOSE i \in {x} : TRUE) = x OBVIOUS
<1>3. /\ waiting' = Append(IF Len(waiting) = WaitBuffer THEN Tail(waiting) ELSE waiting, x)
      /\ gone' = IF Len(waiting) = WaitBuffer THEN gone \cup {Head(waiting)} ELSE gone
  BY <1>2 DEF SetToWait
<1>4. Len(waiting) # WaitBuffer
  <2> SUFFICES ASSUME Len(waiting) = WaitBuffer PROVE FALSE OBVIOUS
  <2>1. waiting # <<>> /\ 1 \in 1 .. Len(waiting) /\ Head(waiting) = waiting[1] BY <1>1, EmptySeq
  <2>2. gone' # gone BY <1>3, <2>1
  <2>3. Tail(waiting) \in Seq(1 .. n) BY <2>1, HeadTailProperties
  <2>4. waiting' = Append(Tail(waiting), x) BY <1>3
  <2>5. waiting' # <<>> BY <2>3, <2>4, AppendProperties
  <2> QED BY <1>1, <2>2, <2>5 DEF RingLasts
<1> QED BY <1>3, <1>4

\* Taking entries out of a list, of which remove_from_list_ext() finds the first.
LEMMA DropKeeps ==
    ASSUME RingLasts, HooksRight, NEW l \in Lists, NEW ids,
           SetToWait(Dropped(hookList[l], ids).out)
    PROVE  LET d == Dropped(hookList[l], ids) IN
           PlacesRight(Removed(hook, d.out), [hookList EXCEPT ![l] = d.list], waiting', gone) /\ gone' = gone
<1> DEFINE d == Dropped(hookList[l], ids)
           list == hookList[l]
           n == Len(hook)
<1>0. PlacesRight(hook, hookList, waiting, gone) BY DEF HooksRight
<1>1. /\ hook \in Seq(Hook) /\ n \in Nat /\ hookList \in [Lists -> Seq(1 .. n)]
      /\ waiting \in Seq(1 .. n) /\ Len(waiting) \in Nat
  BY <1>0 DEF PlacesRight, Placing
<1>2. list \in Seq(1 .. n) BY <1>1
<1>3. CASE d.out = {} /\ d.list = list
  <2>1. Removed(hook, d.out) = hook BY <1>1, <1>3 DEF Removed
  <2>2. [hookList EXCEPT ![l] = d.list] = hookList BY <1>1, <1>3
  <2>3. waiting' = waiting /\ gone' = gone BY <1>3 DEF SetToWait
  <2> HIDE DEF d
  <2> QED BY <1>0, <2>1, <2>2, <2>3 DEF d
<1>4. CASE \E at \in 1 .. Len(list) :
              /\ d.out = {list[at]}
              /\ d.list \in Seq(1 .. n) /\ Len(d.list) = Len(list) - 1
              /\ \A i \in 1 .. Len(list) - 1 : d.list[i] = IF i < at THEN list[i] ELSE list[i + 1]
  <2>1. PICK at \in 1 .. Len(list) :
              /\ d.out = {list[at]}
              /\ d.list \in Seq(1 .. n) /\ Len(d.list) = Len(list) - 1
              /\ \A i \in 1 .. Len(list) - 1 : d.list[i] = IF i < at THEN list[i] ELSE list[i + 1]
    BY <1>4
  <2> HIDE DEF d
  <2>2. /\ PlacesRight(Removed(hook, {list[at]}), [hookList EXCEPT ![l] = d.list], Append(waiting, list[at]), gone)
        /\ Len(waiting) < MaxHooks
    BY <1>0, <2>1, OneOut, ZenonT(60)
  <2>3. SetToWait({list[at]}) BY <2>1 DEF d
  <2>4. list[at] \in 1 .. n /\ \A k \in 1 .. Len(waiting) : waiting[k] \notin gone
    <3>1. list[at] \in 1 .. n BY <1>2, <2>1, Elements
    <3> QED BY <1>0, <3>1 DEF PlacesRight, Placing
  <2>5. waiting' = Append(waiting, list[at]) /\ gone' = gone
    <3> HIDE DEF list, n
    <3> QED BY <1>1, <2>2, <2>3, <2>4, WaitIs
  <2>6. PlacesRight(Removed(hook, d.out), [hookList EXCEPT ![l] = d.list], waiting', gone) BY <2>1, <2>2, <2>5
  <2> QED BY <2>5, <2>6 DEF d
<1>5. NoneOrOneOut(n, list, d)
  <2> HIDE DEF list, n
  <2>1. NoneOrOneOut(n, list, Dropped(list, ids)) BY <1>1, <1>2, DroppedIs
  <2> QED BY <2>1 DEF list
<1> HIDE DEF d
<1> QED BY <1>3, <1>4, <1>5 DEF NoneOrOneOut, d

LEMMA HooksStart == HooksInit => HooksRight
<1> SUFFICES ASSUME HooksInit PROVE HooksRight OBVIOUS
<1>1. Len(hook) = 0 /\ Len(waiting) = 0 /\ Len(frames) = 0 /\ \A l \in Lists : Len(hookList[l]) = 0
  BY DEF HooksInit
<1>2. PlacesRight(hook, hookList, waiting, gone)
  <2>1. Placing(hook, hookList, waiting, gone)
    <3>1. hook \in Seq(Hook) /\ Len(hook) <= MaxHooks BY HooksAssumption DEF HooksInit
    <3>2. hookList \in [Lists -> Seq(1 .. Len(hook))] /\ waiting \in Seq(1 .. Len(hook)) BY DEF HooksInit
    <3> QED BY <1>1, <3>1, <3>2 DEF Placing, Once, HooksInit
  <2>2. \A l \in Lists : Ordered(hook, hookList[l]) BY <1>1 DEF Ordered
  <2>3. Reached(hook, hookList) BY <1>1 DEF Reached
  <2> QED BY <2>1, <2>2, <2>3 DEF PlacesRight
<1>3. MarksRight(frames, marks)
  <2>1. \A l : Of(frames, l) = {} BY <1>1 DEF Of
  <2>2. \A l : Cardinality(Of(frames, l)) = 0 BY <2>1, FS_EmptySet
  <2>3. \A l \in Lists : marks[l] = 0 BY DEF HooksInit
  <2> QED BY <2>2, <2>3 DEF MarksRight, NoRecurse
<1>4. frames \in Seq(Frame) /\ marks \in [Lists -> Nat] /\ ran \in Seq(SUBSET HookIds) /\ hookEnv \in HookSettings
  BY DEF HooksInit
<1> QED BY <1>1, <1>2, <1>3, <1>4 DEF HooksRight

\* Commands of hooks make and mark hooks, and the calls stay as they are.
LEMMA CallsKeep ==
    ASSUME HooksRight, PlacesRight(hook', hookList', waiting', gone), gone' = gone,
           Len(hook) <= Len(hook'),
           \A i \in 1 .. Len(hook) : hook'[i].sernum = hook[i].sernum,
           UNCHANGED <<frames, marks, ran, hookEnv>>
    PROVE  HooksRight'
<1>1. Len(hook) \in Nat /\ Len(hook') \in Nat BY DEF HooksRight, PlacesRight, Placing
<1>2. \A f \in 1 .. Len(frames) : FrameRight(hook', gone, frames[f])
  <2> SUFFICES ASSUME NEW f \in 1 .. Len(frames) PROVE FrameRight(hook', gone, frames[f]) OBVIOUS
  <2>1. frames[f] \in Frame BY Elements DEF HooksRight
  <2>2. FrameRight(hook, gone, frames[f]) BY DEF HooksRight
  <2> QED BY <1>1, <2>1, <2>2, FrameKeeps
<1> QED BY <1>2 DEF HooksRight

LEMMA OnAddKeeps == ASSUME RingLasts, HooksRight, OnAdd PROVE HooksRight'
<1>1. PICK l \in hookEnv.lists, nick \in HookNicks, sernum \in hookEnv.serials,
           server \in hookEnv.servers, not \in hookEnv.nots :
        LET new == [nick |-> nick, sernum |-> sernum, server |-> server, not |-> not]
            old == Dropped(hookList[l], Named(l, nick, sernum, server))
        IN
        /\ hook' = Append([i \in DOMAIN hook |->
                              IF i \in old.out THEN [hook[i] EXCEPT !.not = TRUE] ELSE hook[i]], new)
        /\ hookList' = [hookList EXCEPT ![l] = Placed(old.list, Len(hook) + 1, new)]
        /\ SetToWait(old.out)
  BY DEF OnAdd
<1>2. /\ hookEnv \in HookSetting
      /\ l \in Lists /\ sernum \in Nat /\ server \in ServersOf /\ not \in BOOLEAN /\ hookEnv.hooks <= MaxHooks
  BY HooksAssumption DEF HooksRight, HookSetting
<1> DEFINE new == [nick |-> nick, sernum |-> sernum, server |-> server, not |-> not]
           d == Dropped(hookList[l], Named(l, nick, sernum, server))
           h == Removed(hook, d.out)
           ls == [hookList EXCEPT ![l] = d.list]
           placed == Placed(d.list, Len(hook) + 1, new)
<1>3. new \in Hook /\ new.sernum = sernum BY <1>2 DEF Hook
<1>4. hook' = Append(h, new) /\ hookList' = [hookList EXCEPT ![l] = placed] BY <1>1 DEF Removed
<1>5. PlacesRight(h, ls, waiting', gone) /\ gone' = gone BY <1>1, <1>2, DropKeeps
<1>6. hook \in Seq(Hook) /\ Len(hook) \in Nat /\ hookList \in [Lists -> Seq(1 .. Len(hook))]
  BY DEF HooksRight, PlacesRight, Placing
<1>7. /\ h \in Seq(Hook) /\ Len(h) = Len(hook)
      /\ \A i \in 1 .. Len(hook) : h[i].sernum = hook[i].sernum
  <2> HIDE DEF d
  <2> QED BY <1>6, RemovedIs
<1> HIDE DEF new, d
<1>8. ls[l] = d.list /\ d.list \in Seq(1 .. Len(hook))
  <2>1. ls[l] = d.list BY <1>2, <1>6
  <2>2. ls \in [Lists -> Seq(1 .. Len(h))] BY <1>5 DEF PlacesRight, Placing
  <2> HIDE DEF ls, h
  <2> QED BY <1>2, <1>7, <2>1, <2>2
<1>9. \A i \in 1 .. Len(d.list) : d.list[i] \in 1 .. Len(hook) BY <1>8, Elements
<1>10. Len(h) < MaxHooks
  <2>1. Len(hook) < hookEnv.hooks /\ hookEnv.hooks \in Nat /\ MaxHooks \in Nat
    BY <1>2, HooksAssumption DEF OnAdd, HookSetting
  <2> HIDE DEF h
  <2> QED BY <1>2, <1>6, <1>7, <2>1
<1>11. PICK at \in 1 .. Len(d.list) + 1 :
          /\ placed \in Seq(1 .. Len(hook) + 1) /\ Len(placed) = Len(d.list) + 1
          /\ \A i \in 1 .. Len(d.list) + 1 : placed[i] =
                IF i < at THEN d.list[i] ELSE IF i = at THEN Len(hook) + 1 ELSE d.list[i - 1]
          /\ \A i \in 1 .. Len(d.list) : i < at => ~LaterThan(hook[d.list[i]], new)
          /\ at <= Len(d.list) => LaterThan(hook[d.list[at]], new)
  <2>1. Len(hook) + 1 \in Nat /\ Len(hook) + 1 \in 1 .. Len(hook) + 1 /\ Len(hook) <= Len(hook) + 1 BY <1>6
  <2>2. InItsPlace(Len(hook) + 1, d.list, Len(hook) + 1, new, placed) BY <1>6, <1>8, <2>1, PlacedIs
  <2> HIDE DEF placed
  <2> QED BY <2>2 DEF InItsPlace
<1>12. \A i \in 1 .. Len(hook) : hook[i].sernum \in Nat
  <2>1. \A i \in 1 .. Len(hook) : hook[i] \in Hook BY <1>6, Elements
  <2> QED BY <2>1 DEF Hook
<1>13. \A i \in 1 .. Len(d.list) : i < at => h[d.list[i]].sernum <= sernum
  <2> SUFFICES ASSUME NEW i \in 1 .. Len(d.list), i < at PROVE h[d.list[i]].sernum <= sernum OBVIOUS
  <2>1. ~LaterThan(hook[d.list[i]], new) BY <1>11
  <2>2. ~(hook[d.list[i]].sernum > sernum) BY <1>3, <2>1 DEF LaterThan
  <2> HIDE DEF h
  <2> QED BY <1>2, <1>7, <1>9, <1>12, <2>2
<1>14. at <= Len(d.list) => h[d.list[at]].sernum >= sernum
  <2> SUFFICES ASSUME at <= Len(d.list) PROVE h[d.list[at]].sernum >= sernum OBVIOUS
  <2>1. LaterThan(hook[d.list[at]], new) BY <1>11
  <2>2. hook[d.list[at]].sernum > sernum \/ hook[d.list[at]].sernum = sernum BY <1>3, <2>1 DEF LaterThan
  <2>3. at \in 1 .. Len(d.list) BY <1>8, <1>11
  <2> HIDE DEF h
  <2> QED BY <1>2, <1>7, <1>9, <1>12, <2>2, <2>3
<1> HIDE DEF h, ls, placed
<1>15. PlacesRight(Append(h, new), [ls EXCEPT ![l] = placed], waiting', gone)
  BY <1>2, <1>3, <1>5, <1>7, <1>8, <1>10, <1>11, <1>13, <1>14, OneIn, ZenonT(60)
<1>16. hookList' = [ls EXCEPT ![l] = placed] BY <1>2, <1>4, <1>6 DEF ls
<1>17. PlacesRight(hook', hookList', waiting', gone) BY <1>4, <1>15, <1>16
<1>18. Len(hook) <= Len(hook') /\ \A i \in 1 .. Len(hook) : hook'[i].sernum = hook[i].sernum
  BY <1>3, <1>4, <1>6, <1>7, AppendProperties
<1> QED BY <1>5, <1>17, <1>18, CallsKeep DEF OnAdd

LEMMA OnRemoveKeeps == ASSUME RingLasts, HooksRight, OnRemove PROVE HooksRight'
<1>1. PICK l \in hookEnv.lists, nick \in HookNicks, sernum \in hookEnv.serials, server \in hookEnv.servers :
        LET old == Dropped(hookList[l], NamedToRemove(l, nick, sernum, server)) IN
        /\ hook' = [i \in DOMAIN hook |-> IF i \in old.out THEN [hook[i] EXCEPT !.not = TRUE] ELSE hook[i]]
        /\ hookList' = [hookList EXCEPT ![l] = old.list]
        /\ SetToWait(old.out)
  BY ZenonT(60) DEF OnRemove
<1>2. l \in Lists BY HooksAssumption DEF HooksRight, HookSetting
<1> DEFINE d == Dropped(hookList[l], NamedToRemove(l, nick, sernum, server))
<1>3. hook' = Removed(hook, d.out) /\ hookList' = [hookList EXCEPT ![l] = d.list] BY <1>1 DEF Removed
<1>4. PlacesRight(Removed(hook, d.out), [hookList EXCEPT ![l] = d.list], waiting', gone) /\ gone' = gone
  BY <1>1, <1>2, DropKeeps
<1> HIDE DEF d
<1>5. hook \in Seq(Hook) /\ Len(hook) \in Nat BY DEF HooksRight, PlacesRight, Placing
<1>6. Len(hook) <= Len(hook') /\ \A i \in 1 .. Len(hook) : hook'[i].sernum = hook[i].sernum
  BY <1>3, <1>5, RemovedIs
<1>7. PlacesRight(hook', hookList', waiting', gone) BY <1>3, <1>4
<1> QED BY <1>4, <1>6, <1>7, CallsKeep DEF OnRemove

LEMMA OnRemoveAllKeeps == ASSUME RingLasts, HooksRight, OnRemoveAll PROVE HooksRight'
<1>1. PICK l \in hookEnv.lists :
        LET out == {hookList[l][i] : i \in DOMAIN hookList[l]}
            all == waiting \o hookList[l]
            kept == IF Len(all) > WaitBuffer THEN SubSeq(all, Len(all) - WaitBuffer + 1, Len(all)) ELSE all
        IN
        /\ hook' = [i \in DOMAIN hook |-> IF i \in out THEN [hook[i] EXCEPT !.not = TRUE] ELSE hook[i]]
        /\ hookList' = [hookList EXCEPT ![l] = <<>>]
        /\ waiting' = kept
        /\ gone' = gone \cup ({all[i] : i \in DOMAIN all} \ {kept[i] : i \in DOMAIN kept})
  BY DEF OnRemoveAll
<1>2. l \in Lists BY HooksAssumption DEF HooksRight, HookSetting
<1> DEFINE out == {hookList[l][i] : i \in DOMAIN hookList[l]}
           all == waiting \o hookList[l]
<1>3. /\ PlacesRight(Removed(hook, out), [hookList EXCEPT ![l] = <<>>], all, gone)
      /\ Len(all) <= MaxHooks
  BY <1>2, AllOut DEF HooksRight
<1>4. /\ all \in Seq(1 .. Len(hook)) /\ Len(all) \in Nat /\ Once(all)
      /\ \A k \in 1 .. Len(all) : all[k] \notin gone
  <2>1. hook \in Seq(Hook) BY DEF HooksRight, PlacesRight, Placing
  <2>2. Len(Removed(hook, out)) = Len(hook) BY <2>1, RemovedIs
  <2> HIDE DEF all, out
  <2> QED BY <1>3, <2>2 DEF PlacesRight, Placing
<1>5. ~(Len(all) > WaitBuffer)
  <2> SUFFICES ASSUME Len(all) > WaitBuffer PROVE FALSE OBVIOUS
  <2> DEFINE from == Len(all) - WaitBuffer + 1
             kept == SubSeq(all, from, Len(all))
  <2>0. waiting' = kept /\ gone' = gone \cup ({all[i] : i \in DOMAIN all} \ {kept[i] : i \in DOMAIN kept})
    BY <1>1
  <2> HIDE DEF all
  <2>1. /\ WaitBuffer \in Nat \ {0} /\ from \in Int /\ from >= 2 /\ from <= Len(all)
        /\ Len(all) - from + 1 = WaitBuffer
        /\ \A i \in from .. Len(all) : all[i] \in 1 .. Len(hook)
    BY <1>4, HooksAssumption, Elements, SMTT(30)
  <2>2. ~(MaxHooks <= WaitBuffer) BY <1>3, <1>4, HooksAssumption
  <2> HIDE DEF from
  <2>3. /\ kept \in Seq(1 .. Len(hook)) /\ Len(kept) = WaitBuffer
        /\ \A i \in 1 .. WaitBuffer : kept[i] = all[from + i - 1]
    <3>1. Len(all) \in Int BY <1>4
    <3> QED BY <2>1, <3>1, SubSeqProperties
  <2> HIDE DEF kept
  <2>4. 1 \in DOMAIN all /\ DOMAIN kept = 1 .. WaitBuffer BY <1>4, <2>1, <2>3
  <2>5. \A i \in DOMAIN kept : kept[i] # all[1]
    <3> SUFFICES ASSUME NEW i \in 1 .. WaitBuffer PROVE kept[i] # all[1] BY <2>4
    <3>1. from + i - 1 \in 1 .. Len(all) /\ from + i - 1 # 1 /\ 1 \in 1 .. Len(all) BY <1>4, <2>1
    <3> QED BY <1>4, <2>3, <3>1 DEF Once
  <2>6. gone' # gone
    <3>1. all[1] \in gone' BY <2>0, <2>4, <2>5
    <3>2. all[1] \notin gone BY <1>4, <2>1
    <3> QED BY <3>1, <3>2
  <2>7. waiting' # <<>> BY <2>0, <2>1, <2>3
  <2> QED BY <2>2, <2>6, <2>7 DEF RingLasts
<1>6. waiting' = all /\ gone' = gone BY <1>1, <1>5
<1>7. hook' = Removed(hook, out) /\ hookList' = [hookList EXCEPT ![l] = <<>>] BY <1>1 DEF Removed
<1> HIDE DEF out, all
<1>8. hook \in Seq(Hook) /\ Len(hook) \in Nat BY DEF HooksRight, PlacesRight, Placing
<1>9. Len(hook) <= Len(hook') /\ \A i \in 1 .. Len(hook) : hook'[i].sernum = hook[i].sernum
  BY <1>7, <1>8, RemovedIs
<1>10. PlacesRight(hook', hookList', waiting', gone) BY <1>3, <1>6, <1>7
<1> QED BY <1>6, <1>9, <1>10, CallsKeep DEF OnRemoveAll

LEMMA DoHookKeeps == ASSUME HooksRight, DoHook PROVE HooksRight'
<1>1. PICK l \in hookEnv.lists, topic \in Topics, fromServer \in HookServers :
        LET array == HookArray(l, topic, fromServer) IN
        /\ ~(l \in NoRecurse /\ marks[l] > 0)
        /\ frames' = Append(frames, [which |-> l, array |-> array, next |-> 1, running |-> FALSE])
        /\ marks' = [marks EXCEPT ![l] = IF l = "numeric" THEN @ ELSE @ + 1]
  BY DEF DoHook
<1>2. l \in Lists BY HooksAssumption DEF HooksRight, HookSetting
<1> DEFINE array == HookArray(l, topic, fromServer)
           f == [which |-> l, array |-> array, next |-> 1, running |-> FALSE]
           n == Len(frames)
<1>3. /\ array \in Seq(1 .. Len(hook))
      /\ \A i \in 1 .. Len(array) : array[i] \notin gone
      /\ \A i, j \in 1 .. Len(array) : i < j => hook[array[i]].sernum < hook[array[j]].sernum
  BY <1>2, HookArrayIs DEF HooksRight
<1>4. /\ ~(l \in NoRecurse /\ marks[l] > 0)
      /\ frames' = Append(frames, f)
      /\ marks' = [marks EXCEPT ![l] = IF l = "numeric" THEN @ ELSE @ + 1]
  BY <1>1
<1>5. PlacesRight(hook, hookList, waiting, gone) /\ frames \in Seq(Frame) /\ n \in Nat /\ marks \in [Lists -> Nat]
  BY DEF HooksRight
<1>6. Len(hook) \in Nat /\ Len(hook) <= MaxHooks /\ MaxHooks \in Nat
  BY <1>5, HooksAssumption DEF PlacesRight, Placing
<1> HIDE DEF array, n
<1>7. f \in Frame
  <2>1. 1 .. Len(hook) \subseteq HookIds BY <1>6 DEF HookIds
  <2>2. array \in Seq(HookIds) BY <1>3, <2>1, WiderSeq
  <2> QED BY <1>2, <2>2 DEF Frame
<1>8. FrameRight(hook, gone, f)
  <2>1. \A i \in 1 .. Len(array) : array[i] \in 1 .. Len(hook) BY <1>3, Elements
  <2> QED BY <1>3, <2>1 DEF FrameRight
<1>9. f.which = l OBVIOUS
<1> HIDE DEF f
<1>10. /\ frames' \in Seq(Frame) /\ Len(frames') = n + 1
       /\ \A i \in 1 .. n : frames'[i] = frames[i]
       /\ frames'[n + 1] = f
  <2> HIDE DEF Frame
  <2> QED BY <1>4, <1>5, <1>7, AppendProperties DEF n
<1>11. \A k \in 1 .. Len(frames') : FrameRight(hook, gone, frames'[k])
  <2>1. \A k \in 1 .. n : FrameRight(hook, gone, frames[k]) BY DEF HooksRight, n
  <2> QED BY <1>5, <1>8, <1>10, <2>1
<1>12. MarksRight(frames', marks')
  <2>1. \A m : Of(frames', m) = IF m = l THEN Of(frames, m) \cup {n + 1} ELSE Of(frames, m)
    <3> SUFFICES ASSUME NEW m
                 PROVE  Of(frames', m) = IF m = l THEN Of(frames, m) \cup {n + 1} ELSE Of(frames, m)
      OBVIOUS
    <3>1. Of(Append(frames, f), m) = IF f.which = m THEN Of(frames, m) \cup {n + 1} ELSE Of(frames, m)
      BY <1>5, <1>7, OfAppend DEF n
    <3> QED BY <1>4, <1>9, <3>1
  <2>2. \A m : IsFiniteSet(Of(frames, m)) /\ Cardinality(Of(frames, m)) \in Nat BY <1>5, OfFinite DEF n
  <2>3. n + 1 \notin Of(frames, l) BY <1>5 DEF Of, n
  <2>4. Cardinality(Of(frames', l)) = Cardinality(Of(frames, l)) + 1 BY <2>1, <2>2, <2>3, FS_AddElement
  <2>5. \A m : m # l => Cardinality(Of(frames', m)) = Cardinality(Of(frames, m)) BY <2>1
  <2>6. /\ \A m \in Lists \ {"numeric"} : marks[m] = Cardinality(Of(frames, m))
        /\ \A m \in NoRecurse : Cardinality(Of(frames, m)) <= 1
    BY DEF HooksRight, MarksRight
  <2>7. ASSUME NEW m \in Lists \ {"numeric"} PROVE marks'[m] = Cardinality(Of(frames', m))
    <3>1. CASE m = l BY <1>4, <1>5, <2>4, <2>6, <3>1
    <3>2. CASE m # l BY <1>4, <1>5, <2>5, <2>6, <3>2
    <3> QED BY <3>1, <3>2
  <2>8. ASSUME NEW m \in NoRecurse PROVE Cardinality(Of(frames', m)) <= 1
    <3>1. CASE m = l
      <4>1. m \in Lists \ {"numeric"} BY DEF NoRecurse, Lists
      <4>2. marks[m] = 0 BY <1>4, <1>5, <3>1, <4>1
      <4> QED BY <2>4, <2>6, <3>1, <4>1, <4>2
    <3>2. CASE m # l BY <2>5, <2>6, <3>2
    <3> QED BY <3>1, <3>2
  <2> QED BY <2>7, <2>8 DEF MarksRight
<1>13. marks' \in [Lists -> Nat] BY <1>2, <1>4, <1>5
<1>14. ran' \in Seq(SUBSET HookIds) BY DEF DoHook, HooksRight
<1>15. UNCHANGED <<hook, hookList, waiting, gone, hookEnv>> BY DEF DoHook
<1> QED BY <1>5, <1>10, <1>11, <1>12, <1>13, <1>14, <1>15 DEF HooksRight

\* The innermost call, and the entry it looks at.
LEMMA InnermostIs ==
    ASSUME HooksRight, frames # <<>>
    PROVE  /\ Len(frames) \in Nat \ {0} /\ Innermost \in Frame /\ FrameRight(hook, gone, Innermost)
           /\ Innermost.next <= Len(Innermost.array) => HookEntry \in HookIds
<1>1. frames \in Seq(Frame) /\ Len(frames) \in Nat \ {0} BY EmptySeq DEF HooksRight
<1>2. Innermost \in Frame BY <1>1, Elements DEF Innermost
<1>3. FrameRight(hook, gone, Innermost) BY <1>1 DEF HooksRight, Innermost
<1>4. ASSUME Innermost.next <= Len(Innermost.array) PROVE HookEntry \in HookIds
  <2>1. Innermost.next \in Nat /\ Innermost.array \in Seq(HookIds) BY <1>2 DEF Frame
  <2>2. Innermost.next \in 1 .. Len(Innermost.array) BY <1>3, <1>4, <2>1 DEF FrameRight
  <2> QED BY <2>1, <2>2, Elements DEF HookEntry
<1> QED BY <1>1, <1>2, <1>3, <1>4

\* A field of one call set.
LEMMA NextSet ==
    ASSUME NEW fr \in Seq(Frame), NEW n \in 1 .. Len(fr)
    PROVE  LET s == [fr EXCEPT ![n].next = @ + 1] IN
           /\ s \in Seq(Frame) /\ Len(s) = Len(fr) /\ \A k \in 1 .. Len(fr) : k # n => s[k] = fr[k]
           /\ s[n].which = fr[n].which /\ s[n].array = fr[n].array /\ s[n].next = fr[n].next + 1
<1>1. fr[n] \in Frame /\ fr[n].next \in Nat
  <2>1. fr[n] \in Frame BY Elements
  <2> QED BY <2>1 DEF Frame
<1> DEFINE e == [fr[n] EXCEPT !.next = @ + 1]
<1>2. e \in Frame /\ e.which = fr[n].which /\ e.array = fr[n].array /\ e.next = fr[n].next + 1
  <2>1. PICK q \in Frame : q = fr[n] /\ q.next \in Nat BY <1>1
  <2>2. PICK x \in Nat : x = q.next + 1 BY <2>1
  <2>3. e = [q EXCEPT !.next = x] BY <2>1, <2>2
  <2>4. [q EXCEPT !.next = x] \in Frame BY DEF Frame
  <2>5. [q EXCEPT !.next = x].which = q.which /\ [q EXCEPT !.next = x].array = q.array BY DEF Frame
  <2>6. [q EXCEPT !.next = x].next = x BY DEF Frame
  <2> HIDE DEF e
  <2> QED BY <2>1, <2>2, <2>3, <2>4, <2>5, <2>6
<1>3. [fr EXCEPT ![n].next = @ + 1] = [fr EXCEPT ![n] = e] OBVIOUS
<1> HIDE DEF e
<1> HIDE DEF Frame
<1>4. /\ [fr EXCEPT ![n] = e] \in Seq(Frame) /\ Len([fr EXCEPT ![n] = e]) = Len(fr)
      /\ [fr EXCEPT ![n] = e][n] = e
      /\ \A k \in 1 .. Len(fr) : k # n => [fr EXCEPT ![n] = e][k] = fr[k]
  BY <1>2
<1> QED BY <1>2, <1>3, <1>4

SameCall(fr, n, s) ==
    /\ s \in Seq(Frame) /\ Len(s) = Len(fr) /\ \A k \in 1 .. Len(fr) : k # n => s[k] = fr[k]
    /\ s[n].which = fr[n].which /\ s[n].array = fr[n].array /\ s[n].next = fr[n].next

LEMMA RunningSet ==
    ASSUME NEW fr \in Seq(Frame), NEW n \in 1 .. Len(fr), NEW b \in BOOLEAN
    PROVE  SameCall(fr, n, [fr EXCEPT ![n].running = b])
<1>1. fr[n] \in Frame BY Elements
<1> DEFINE e == [fr[n] EXCEPT !.running = b]
<1>2. e \in Frame /\ e.which = fr[n].which /\ e.array = fr[n].array /\ e.next = fr[n].next
  BY <1>1 DEF Frame
<1>3. [fr EXCEPT ![n].running = b] = [fr EXCEPT ![n] = e] OBVIOUS
<1> HIDE DEF e
<1> HIDE DEF Frame
<1>4. /\ [fr EXCEPT ![n] = e] \in Seq(Frame) /\ Len([fr EXCEPT ![n] = e]) = Len(fr)
      /\ [fr EXCEPT ![n] = e][n] = e
      /\ \A k \in 1 .. Len(fr) : k # n => [fr EXCEPT ![n] = e][k] = fr[k]
  BY <1>2
<1> QED BY <1>2, <1>3, <1>4 DEF SameCall

LEMMA HookRunsKeeps == ASSUME HooksRight, HookRuns PROVE HooksRight'
<1> DEFINE n == Len(frames)
           one == [frames EXCEPT ![n].next = @ + 1]
           two == [frames EXCEPT ![n].running = TRUE]
<1>1. frames # <<>> /\ Innermost.next <= Len(Innermost.array) BY DEF HookRuns
<1>2. /\ n \in Nat \ {0} /\ Innermost \in Frame /\ FrameRight(hook, gone, Innermost)
      /\ HookEntry \in HookIds
  BY <1>1, InnermostIs
<1>3. Innermost.next \in Nat /\ Innermost.next >= 1 BY <1>2 DEF Frame, FrameRight
<1>4. frames \in Seq(Frame) /\ ran \in Seq(SUBSET HookIds) BY DEF HooksRight
<1>5. n \in 1 .. Len(frames) /\ frames[n] = Innermost BY <1>2 DEF Innermost
<1>6. \/ frames' = one /\ ran' = ran
      \/ frames' = two /\ ran' = [ran EXCEPT ![Len(ran)] = @ \cup {HookEntry}]
  BY DEF HookRuns
<1> HIDE DEF n
<1>7. /\ one \in Seq(Frame) /\ Len(one) = Len(frames) /\ \A k \in 1 .. Len(frames) : k # n => one[k] = frames[k]
      /\ one[n].which = Innermost.which /\ one[n].array = Innermost.array /\ one[n].next = Innermost.next + 1
  BY <1>4, <1>5, NextSet
<1>8. /\ two \in Seq(Frame) /\ Len(two) = Len(frames) /\ \A k \in 1 .. Len(frames) : k # n => two[k] = frames[k]
      /\ two[n].which = Innermost.which /\ two[n].array = Innermost.array /\ two[n].next = Innermost.next
  <2>1. SameCall(frames, n, two) BY <1>4, <1>5, RunningSet, Zenon
  <2> QED BY <1>5, <2>1 DEF SameCall
<1> HIDE DEF one, two
<1>9. \/ /\ \A k \in 1 .. Len(one) : FrameRight(hook, gone, one[k])
         /\ MarksRight(one, marks)
         /\ frames' = one
      \/ /\ \A k \in 1 .. Len(two) : FrameRight(hook, gone, two[k])
         /\ MarksRight(two, marks)
         /\ frames' = two
  <2>1. CASE frames' = one
    <3>1. one[n].next >= 1 BY <1>3, <1>7
    <3> QED BY <1>1, <1>7, <2>1, <3>1, InnermostGoesOn DEF n
  <2>2. CASE frames' = two
    <3>1. two[n].next >= 1 BY <1>3, <1>8
    <3> QED BY <1>1, <1>8, <2>2, <3>1, InnermostGoesOn DEF n
  <2> QED BY <1>6, <2>1, <2>2
<1>10. /\ frames' \in Seq(Frame)
       /\ \A k \in 1 .. Len(frames') : FrameRight(hook, gone, frames'[k])
       /\ MarksRight(frames', marks)
  BY <1>7, <1>8, <1>9
<1>11. ran' \in Seq(SUBSET HookIds) BY <1>2, <1>4, <1>6
<1>12. UNCHANGED <<hook, hookList, waiting, gone, marks, hookEnv>> BY DEF HookRuns
<1> QED BY <1>10, <1>11, <1>12 DEF HooksRight

LEMMA HookRanKeeps == ASSUME HooksRight, HookRan PROVE HooksRight'
<1> DEFINE n == Len(frames)
           one == [frames EXCEPT ![n].running = FALSE]
           two == [one EXCEPT ![n].next = @ + 1]
<1>1. frames # <<>> BY DEF HookRan
<1>2. n \in Nat \ {0} /\ Innermost \in Frame /\ FrameRight(hook, gone, Innermost)
  BY <1>1, InnermostIs
<1>3. Innermost.next \in Nat /\ Innermost.next >= 1 BY <1>2 DEF Frame, FrameRight
<1>4. frames \in Seq(Frame) BY DEF HooksRight
<1>5. n \in 1 .. Len(frames) /\ frames[n] = Innermost BY <1>2 DEF Innermost
<1>6. frames' = two BY DEF HookRan
<1> HIDE DEF n
<1>7. /\ one \in Seq(Frame) /\ Len(one) = Len(frames) /\ \A k \in 1 .. Len(frames) : k # n => one[k] = frames[k]
      /\ one[n].which = Innermost.which /\ one[n].array = Innermost.array /\ one[n].next = Innermost.next
  <2>1. SameCall(frames, n, one) BY <1>4, <1>5, RunningSet, Zenon
  <2> QED BY <1>5, <2>1 DEF SameCall
<1> HIDE DEF one
<1>8. /\ two \in Seq(Frame) /\ Len(two) = Len(one) /\ \A k \in 1 .. Len(one) : k # n => two[k] = one[k]
      /\ two[n].which = one[n].which /\ two[n].array = one[n].array /\ two[n].next = one[n].next + 1
  BY <1>5, <1>7, NextSet
<1> HIDE DEF two
<1>9. /\ two \in Seq(Frame) /\ Len(two) = Len(frames) /\ \A k \in 1 .. Len(frames) : k # n => two[k] = frames[k]
      /\ two[n].which = Innermost.which /\ two[n].array = Innermost.array /\ two[n].next >= 1
  BY <1>3, <1>7, <1>8
<1>10. /\ \A k \in 1 .. Len(two) : FrameRight(hook, gone, two[k])
       /\ MarksRight(two, marks)
  BY <1>1, <1>9, InnermostGoesOn DEF n
<1>11. UNCHANGED <<hook, hookList, waiting, gone, marks, ran, hookEnv>> BY DEF HookRan
<1> QED BY <1>6, <1>9, <1>10, <1>11 DEF HooksRight

\* really_free(): only when no call is left.
LEMMA HookDoneKeeps == ASSUME HooksRight, HookDone PROVE HooksRight'
<1> DEFINE n == Len(frames)
           l == Innermost.which
           fr == SubSeq(frames, 1, n - 1)
<1>1. /\ frames # <<>>
      /\ frames' = fr
      /\ ran' = SubSeq(ran, 1, Len(ran) - 1)
      /\ marks' = [marks EXCEPT ![l] = IF l = "numeric" THEN @ ELSE @ - 1]
      /\ IF n = 1
         THEN waiting' = <<>> /\ gone' = gone \cup {waiting[i] : i \in DOMAIN waiting}
         ELSE UNCHANGED <<waiting, gone>>
      /\ UNCHANGED <<hook, hookList, hookEnv>>
  BY DEF HookDone
<1>2. n \in Nat \ {0} /\ Innermost \in Frame BY <1>1, InnermostIs
<1>3. l \in Lists BY <1>2 DEF Frame
<1>4. frames \in Seq(Frame) /\ marks \in [Lists -> Nat] /\ PlacesRight(hook, hookList, waiting, gone)
  BY DEF HooksRight
<1>5. fr \in Seq(Frame) /\ Len(fr) = n - 1 /\ \A i \in 1 .. n - 1 : fr[i] = frames[i]
  BY <1>1, <1>4, FrontIs
<1>6. \A m : Of(fr, m) = Of(frames, m) \ {n} BY <1>1, <1>4, OfFront
<1>7. n \in 1 .. n /\ frames[n].which = l BY <1>2 DEF Innermost
<1>8. \A m : IsFiniteSet(Of(frames, m)) /\ Cardinality(Of(frames, m)) \in Nat BY <1>2, OfFinite
<1>9. \A m : n \in Of(frames, m) <=> m = l BY <1>7 DEF Of
<1> HIDE DEF fr, n, l
<1>10. /\ Cardinality(Of(fr, l)) = Cardinality(Of(frames, l)) - 1
       /\ \A m : m # l => Cardinality(Of(fr, m)) = Cardinality(Of(frames, m))
  BY <1>6, <1>8, <1>9, FS_RemoveElement
<1>11. /\ \A m \in Lists \ {"numeric"} : marks[m] = Cardinality(Of(frames, m))
       /\ \A m \in NoRecurse : Cardinality(Of(frames, m)) <= 1
  BY DEF HooksRight, MarksRight
<1>12. \A m : Cardinality(Of(fr, m)) \in Nat
  <2>1. Len(fr) \in Nat BY <1>2, <1>5
  <2> QED BY <2>1, OfFinite
<1>13. MarksRight(fr, marks')
  <2>1. ASSUME NEW m \in Lists \ {"numeric"} PROVE marks'[m] = Cardinality(Of(fr, m))
    <3>1. CASE m = l BY <1>1, <1>4, <1>10, <1>11, <3>1
    <3>2. CASE m # l BY <1>1, <1>4, <1>10, <1>11, <3>2
    <3> QED BY <3>1, <3>2
  <2>2. ASSUME NEW m \in NoRecurse PROVE Cardinality(Of(fr, m)) <= 1
    <3>1. CASE m = l BY <1>8, <1>10, <1>11, <3>1
    <3>2. CASE m # l BY <1>10, <1>11, <3>2
    <3> QED BY <3>1, <3>2
  <2> QED BY <2>1, <2>2 DEF MarksRight
<1>14. marks' \in [Lists -> Nat]
  <2>1. CASE l = "numeric" BY <1>1, <1>3, <1>4, <2>1
  <2>2. CASE l # "numeric"
    <3>1. marks[l] - 1 \in Nat
      <4>1. marks[l] - 1 = Cardinality(Of(fr, l)) BY <1>3, <1>10, <1>11, <2>2
      <4> QED BY <1>12, <4>1
    <3> QED BY <1>1, <1>3, <1>4, <2>2, <3>1
  <2> QED BY <2>1, <2>2
<1>15. ran' \in Seq(SUBSET HookIds)
  <2>1. ran \in Seq(SUBSET HookIds) BY DEF HooksRight
  <2>2. CASE ran = <<>>
    <3>1. Len(ran) = 0 BY <2>2
    <3>2. SubSeq(ran, 1, Len(ran) - 1) = <<>>
      <4>1. Len(ran) - 1 \in Int /\ Len(ran) - 1 < 1 BY <3>1
      <4> QED BY <4>1, 1 \in Int, SubSeqEmpty
    <3>3. ran' = <<>> BY <1>1, <3>2
    <3>4. <<>> \in Seq(SUBSET HookIds) OBVIOUS
    <3> QED BY <3>3, <3>4, Zenon
  <2>3. CASE ran # <<>> BY <1>1, <2>1, <2>3, FrontIs
  <2> QED BY <2>2, <2>3
<1>16. CASE n = 1
  <2>1. waiting' = <<>> /\ gone' = gone \cup {waiting[i] : i \in DOMAIN waiting} BY <1>1, <1>16
  <2>2. Len(fr) = 0 BY <1>5, <1>16
  <2>3. /\ hook \in Seq(Hook) /\ Len(hook) <= MaxHooks
        /\ hookList \in [Lists -> Seq(1 .. Len(hook))]
        /\ waiting \in Seq(1 .. Len(hook)) /\ gone \subseteq 1 .. Len(hook)
        /\ \A m \in Lists : /\ Once(hookList[m])
                            /\ \A i \in 1 .. Len(hookList[m]) :
                                  /\ hookList[m][i] \notin gone
                                  /\ \A k \in 1 .. Len(waiting) : hookList[m][i] # waiting[k]
        /\ \A m, p \in Lists : \A i \in 1 .. Len(hookList[m]), j \in 1 .. Len(hookList[p]) :
              hookList[m][i] = hookList[p][j] => m = p
    BY <1>4 DEF PlacesRight, Placing
  <2>4. DOMAIN waiting = 1 .. Len(waiting) /\ \A i \in 1 .. Len(waiting) : waiting[i] \in 1 .. Len(hook)
    BY <2>3, Elements
  <2>5. waiting' \in Seq(1 .. Len(hook)) /\ Len(waiting') = 0
    <3>1. waiting' = <<>> BY <2>1
    <3>2. waiting' \in Seq(1 .. Len(hook))
      <4>1. <<>> \in Seq(1 .. Len(hook)) OBVIOUS
      <4> QED BY <3>1, <4>1, Zenon
    <3>3. Len(waiting') = 0
      <4>1. Len(<<>>) = 0 OBVIOUS
      <4> QED BY <3>1, <4>1, Zenon
    <3> QED BY <3>2, <3>3
  <2>6. gone' \subseteq 1 .. Len(hook)
    <3>1. \A x \in gone' : x \in gone \/ \E i \in 1 .. Len(waiting) : x = waiting[i] BY <2>1, <2>4
    <3> SUFFICES ASSUME NEW x \in gone' PROVE x \in 1 .. Len(hook) OBVIOUS
    <3>2. CASE x \in gone
      <4>1. gone \subseteq 1 .. Len(hook) BY <2>3
      <4> QED BY <3>2, <4>1, Zenon
    <3>3. CASE \E i \in 1 .. Len(waiting) : x = waiting[i] BY <2>4, <3>3, Zenon
    <3> QED BY <3>1, <3>2, <3>3
  <2>7. \A m \in Lists : \A i \in 1 .. Len(hookList[m]) : hookList[m][i] \notin gone' BY <2>1, <2>3, <2>4
  <2>8. Once(waiting') BY <2>5 DEF Once
  <2>9. Placing(hook, hookList, waiting', gone') BY <2>3, <2>5, <2>6, <2>7, <2>8 DEF Placing
  <2>10. PlacesRight(hook, hookList, waiting', gone') BY <1>4, <2>9 DEF PlacesRight
  <2>11. \A k \in 1 .. Len(fr) : FrameRight(hook, gone', fr[k]) BY <2>2
  <2> QED BY <1>1, <1>5, <1>13, <1>14, <1>15, <2>10, <2>11 DEF HooksRight
<1>17. CASE n # 1
  <2>1. waiting' = waiting /\ gone' = gone BY <1>1, <1>17
  <2>2. \A k \in 1 .. Len(fr) : FrameRight(hook, gone, fr[k])
    <3>1. \A k \in 1 .. n : FrameRight(hook, gone, frames[k]) BY DEF HooksRight, n
    <3> QED BY <1>2, <1>5, <3>1
  <2> QED BY <1>1, <1>4, <1>5, <1>13, <1>14, <1>15, <2>1, <2>2 DEF HooksRight
<1> QED BY <1>16, <1>17

LEMMA HooksStep ==
    ASSUME RingLasts, HooksRight, [HooksNext]_hooksVars PROVE HooksRight'
<1>1. CASE UNCHANGED hooksVars
  BY <1>1 DEF hooksVars, HooksRight
<1>2. CASE HooksNext
  BY <1>2, OnAddKeeps, OnRemoveKeeps, OnRemoveAllKeeps, DoHookKeeps, HookRunsKeeps, HookRanKeeps, HookDoneKeeps
     DEF HooksNext
<1> QED BY <1>1, <1>2

LEMMA RightHolds == HooksRight => HooksHold
<1> SUFFICES ASSUME HooksRight PROVE HooksHold OBVIOUS
<1>1. /\ hook \in Seq(Hook) /\ Len(hook) \in Nat /\ Len(hook) <= MaxHooks /\ MaxHooks \in Nat
      /\ hookList \in [Lists -> Seq(1 .. Len(hook))]
      /\ \A l \in Lists : Once(hookList[l])
      /\ Reached(hook, hookList)
  BY HooksAssumption DEF HooksRight, PlacesRight, Placing
<1>2. frames \in Seq(Frame) /\ DOMAIN frames = 1 .. Len(frames) BY DEF HooksRight
<1>3. ASSUME NEW f \in DOMAIN frames
      PROVE  /\ frames[f].next \in Nat /\ frames[f].next >= 1
             /\ Len(frames[f].array) \in Nat /\ DOMAIN frames[f].array = 1 .. Len(frames[f].array)
             /\ FrameRight(hook, gone, frames[f])
  <2>1. frames[f] \in Frame BY <1>2, Elements
  <2>2. FrameRight(hook, gone, frames[f]) BY <1>2 DEF HooksRight
  <2>3. frames[f].array \in Seq(HookIds) /\ frames[f].next \in Nat BY <2>1 DEF Frame
  <2> QED BY <2>2, <2>3 DEF FrameRight
<1>4. RemovedNeverRun
  <2> SUFFICES ASSUME NEW f \in DOMAIN frames, NEW i \in frames[f].next .. Len(frames[f].array)
               PROVE  LET id == frames[f].array[i] IN
                      /\ id \notin gone
                      /\ ~hook[id].not => \E l \in Lists, k \in 1 .. MaxHooks :
                             k \in DOMAIN hookList[l] /\ hookList[l][k] = id
    BY DEF RemovedNeverRun
  <2> DEFINE id == frames[f].array[i]
  <2>1. i \in 1 .. Len(frames[f].array) BY <1>3
  <2>2. id \in 1 .. Len(hook) /\ id \notin gone BY <1>3, <2>1 DEF FrameRight
  <2> HIDE DEF id
  <2>3. ASSUME ~hook[id].not
        PROVE  \E l \in Lists, k \in 1 .. MaxHooks : k \in DOMAIN hookList[l] /\ hookList[l][k] = id
    <3>1. PICK l \in Lists : \E k \in 1 .. Len(hookList[l]) : hookList[l][k] = id
      <4>1. Reached(hook, hookList) BY <1>1
      <4> QED BY <2>2, <2>3, <4>1, Zenon DEF Reached
    <3>2. PICK k \in 1 .. Len(hookList[l]) : hookList[l][k] = id BY <3>1
    <3>3. hookList[l] \in Seq(1 .. Len(hook)) /\ Once(hookList[l]) BY <1>1
    <3>4. Len(hookList[l]) <= Len(hook) BY <1>1, <3>3, OnceIsShort
    <3>5. Len(hookList[l]) \in Nat /\ DOMAIN hookList[l] = 1 .. Len(hookList[l]) BY <3>3
    <3>6. k \in 1 .. MaxHooks BY <1>1, <3>4, <3>5
    <3> QED BY <3>2, <3>5, <3>6
  <2> QED BY <2>2, <2>3 DEF id
<1>5. OneOfEachSerial
  <2>1. \A f \in DOMAIN frames : \A i, j \in DOMAIN frames[f].array :
           i < j => hook[frames[f].array[i]].sernum < hook[frames[f].array[j]].sernum
    BY <1>3 DEF FrameRight
  <2>2. \A l : Of(frames, l) = {f \in DOMAIN frames : frames[f].which = l} BY <1>2 DEF Of
  <2>3. MarksRight(frames, marks) BY DEF HooksRight
  <2> QED BY <2>1, <2>2, <2>3 DEF OneOfEachSerial, MarksRight
<1> QED BY <1>4, <1>5 DEF HooksHold

\* Nothing that was removed or replaced runs, and of each event one hook of each serial number,
\* in the order of the numbers: for any hooks, any servers and calls within calls of any depth.
\* The ring of wait_new_free() must not go round (WAIT_BUFFER): with more hooks removed in one
\* event than it keeps, the oldest would be freed while a call may still look at it.
THEOREM HooksAreRight == HooksSpec /\ [][RingLasts]_hooksVars => []HooksHold
<1>1. HooksRight /\ [HooksNext /\ RingLasts]_hooksVars => HooksRight'
  BY HooksStep DEF HooksRight, hooksVars
<1>2. QED BY <1>1, HooksStart, RightHolds, PTL DEF HooksSpec

\* It does not go round if no more hooks are ever made than it keeps.
COROLLARY FewHooksAreRight ==
    ASSUME MaxHooks <= WaitBuffer
    PROVE  HooksSpec => []HooksHold
<1>1. [RingLasts]_hooksVars BY DEF RingLasts
<1>2. QED BY <1>1, HooksAreRight, PTL

-----------------------------------------------------------------------------
(* /WHO.  The entry of a server holds what the last command said           *)
(* (InStepWith), and of a command that is sent every word was taken, each  *)
(* switch once: so what each test looks at is the one word that it is for. *)
(* The server was asked for the last pattern, which is one of the words.   *)

\* A set of numbers with a bound has a greatest one.
LEMMA GreatestOf ==
    ASSUME NEW n \in Nat, NEW T \in SUBSET (0 .. n), T # {}
    PROVE  \E x \in T : \A y \in T : y <= x
<1> DEFINE rest == {n - k : k \in T}
<1>1. rest \in SUBSET Nat /\ rest # {}
    <2>1. \A k \in T : k \in 0 .. n /\ n - k \in Nat
        OBVIOUS
    <2>2. QED BY <2>1
<1>2. PICK x \in rest : \A y \in rest : x <= y
    BY ONLY <1>1, SomeLeast
<1>3. PICK k \in T : x = n - k
    OBVIOUS
<1>4. \A y \in T : n - k <= n - y
    BY <1>2, <1>3
<1>5. QED BY <1>4

\* The words of a request that was sent.
Sent(e, words) ==
    /\ words \in Seq(Word) /\ words # <<>> /\ WellFormed(words)
    /\ \A i \in DOMAIN words : ~Refused(e, words[i])

\* What a request of a careful user has been answered is what was wanted.
InStepWith(e, info, asked) ==
    /\ Sent(e, asked.words) /\ Sensible(asked.words) /\ info = Parsed(e, asked.words)
    /\ asked.came \subseteq e.people
    /\ asked.due \subseteq Answer(e, AskedFor(e, asked.words), "operators" \in info.mask)
    /\ \A r \in e.people : Wanted(e, asked.words, r) => r \in asked.came \cup asked.due
    /\ asked.shown = {r \in asked.came : Wanted(e, asked.words, r)}

WhoInv ==
    /\ whoEnv \in WhoSettings
    /\ requests \in [WhoServers -> Seq(Request)]
    /\ whoInfo = [s \in WhoServers |-> whoInfo[s]]
    /\ whoEnv.careful =>
          \A s \in WhoServers :
              /\ Len(requests[s]) <= 1
              /\ requests[s] # <<>> => InStepWith(whoEnv, whoInfo[s], requests[s][1])

\* What the marks of somebody say at their places is what they say anywhere.
LEMMA MarksInPlace ==
    ASSUME NEW st \in Marks
    PROVE  /\ MarkAt(st, 1) = "H" <=> st[1] = "H"
           /\ MarkAt(st, 1) = "G" <=> st[1] = "G"
           /\ MarkAt(st, 2) = "*" <=> \E i \in DOMAIN st : st[i] = "*"
           /\ "@" \in {MarkAt(st, 2), MarkAt(st, 3)} <=> \E i \in DOMAIN st : st[i] = "@"
<1>1. PICK h \in {"H", "G"} : st \in {<<h>>, <<h, "*">>, <<h, "@">>, <<h, "*", "@">>}
    BY DEF Marks
<1>2. CASE st = <<h>>
    <2>1. DOMAIN st = {1} /\ st[1] = h
        BY <1>2
    <2>2. MarkAt(st, 1) = h /\ MarkAt(st, 2) = "" /\ MarkAt(st, 3) = ""
        BY <2>1 DEF MarkAt
    <2>3. QED BY ONLY <2>1, <2>2, h \in {"H", "G"}
<1>3. CASE st = <<h, "*">>
    <2>1. DOMAIN st = {1, 2} /\ st[1] = h /\ st[2] = "*"
        BY <1>3
    <2>2. MarkAt(st, 1) = h /\ MarkAt(st, 2) = "*" /\ MarkAt(st, 3) = ""
        BY <2>1 DEF MarkAt
    <2>3. QED BY ONLY <2>1, <2>2, h \in {"H", "G"}
<1>4. CASE st = <<h, "@">>
    <2>1. DOMAIN st = {1, 2} /\ st[1] = h /\ st[2] = "@"
        BY <1>4
    <2>2. MarkAt(st, 1) = h /\ MarkAt(st, 2) = "@" /\ MarkAt(st, 3) = ""
        BY <2>1 DEF MarkAt
    <2>3. QED BY ONLY <2>1, <2>2, h \in {"H", "G"}
<1>5. CASE st = <<h, "*", "@">>
    <2>1. DOMAIN st = {1, 2, 3} /\ st[1] = h /\ st[2] = "*" /\ st[3] = "@"
        BY <1>5
    <2>2. MarkAt(st, 1) = h /\ MarkAt(st, 2) = "*" /\ MarkAt(st, 3) = "@"
        BY <2>1 DEF MarkAt
    <2>3. QED BY ONLY <2>1, <2>2, h \in {"H", "G"}
<1>6. QED BY <1>1, <1>2, <1>3, <1>4, <1>5

\* All the words of what was sent have been taken.
LEMMA SentIsTaken ==
    ASSUME NEW e, NEW words, Sent(e, words)
    PROVE  ComesTo(e, words) = DOMAIN words /\ TakenWords(e, words) = DOMAIN words
<1>1. \A i \in DOMAIN words : i \in Nat /\ \A j \in 1 .. i - 1 : j \in DOMAIN words
    BY DEF Sent
<1>2. QED BY <1>1 DEF Sent, ComesTo, TakenWords

LEMMA TakenIsSent ==
    ASSUME NEW e, NEW words \in Seq(Word), WellFormed(words), words # <<>>, TakenWords(e, words) = DOMAIN words
    PROVE  Sent(e, words)
BY DEF Sent, TakenWords

\* Of each switch there is one word.
OneEach(words) == \A i, j \in DOMAIN words : words[i].switch = words[j].switch => i = j

LEMMA OneWord ==
    ASSUME NEW e, NEW words, Sent(e, words)
    PROVE  OneEach(words)
<1> SUFFICES ASSUME NEW i \in DOMAIN words, NEW j \in DOMAIN words, words[i].switch = words[j].switch
             PROVE  i = j
    BY DEF OneEach
<1>1. i \in Nat /\ j \in Nat
    BY DEF Sent
<1>2. ~(i < j) /\ ~(j < i)
    BY DEF Sent, WellFormed
<1>3. QED BY <1>1, <1>2

\* The mask has what was given, and the patterns are their arguments.
SaysWords(e, words) ==
    \A i \in DOMAIN words : words[i].switch # "" =>
        /\ words[i].switch \in Parsed(e, words).mask
        /\ words[i].switch \in PatternFields => Parsed(e, words).pattern[words[i].switch] = words[i].arg
        /\ words[i].switch = "file" => Parsed(e, words).file = words[i].arg

LEMMA ParsedSays ==
    ASSUME NEW e, NEW words, Sent(e, words)
    PROVE  SaysWords(e, words)
<1> SUFFICES ASSUME NEW i \in DOMAIN words, words[i].switch # ""
             PROVE  /\ words[i].switch \in Parsed(e, words).mask
                    /\ words[i].switch \in PatternFields => Parsed(e, words).pattern[words[i].switch] = words[i].arg
                    /\ words[i].switch = "file" => Parsed(e, words).file = words[i].arg
    BY DEF SaysWords
<1>0. i \in Nat
    BY ONLY Sent(e, words), i \in DOMAIN words DEF Sent
<1> DEFINE of(f) == {k \in TakenWords(e, words) : words[k].switch = f}
           last(set) == CHOOSE k \in set : \A j \in set : j <= k
<1>1. of(words[i].switch) = {i}
    <2>1. \A k \in DOMAIN words : words[k].switch = words[i].switch => k = i
        BY OneWord DEF OneEach
    <2>2. TakenWords(e, words) = DOMAIN words
        BY SentIsTaken
    <2>3. QED BY ONLY <2>1, <2>2, i \in DOMAIN words DEF of
<1>2. last({i}) = i
    <2>1. i <= i
        BY ONLY <1>0
    <2>2. QED BY <2>1
<1>3. Parsed(e, words).mask = {words[k].switch : k \in {j \in TakenWords(e, words) : words[j].switch # ""}}
                    \cup {f \in {"file"} : \E k \in ComesTo(e, words) : words[k].switch = f}
    BY DEF Parsed
<1>4. Parsed(e, words).pattern = [f \in PatternFields |-> IF of(f) = {} THEN NULL ELSE words[last(of(f))].arg]
    BY DEF Parsed
<1>5. Parsed(e, words).file = IF of("file") = {} THEN NULL ELSE words[last(of("file"))].arg
    BY DEF Parsed
<1>6. words[i].switch \in Parsed(e, words).mask
    BY <1>3, SentIsTaken
<1>7. DOMAIN Parsed(e, words).pattern = PatternFields
    BY <1>4
<1> HIDE DEF of, last
<1>8. words[i].switch \in PatternFields => Parsed(e, words).pattern[words[i].switch] = words[i].arg
    <2> SUFFICES ASSUME words[i].switch \in PatternFields
                 PROVE  Parsed(e, words).pattern[words[i].switch] = words[i].arg
        OBVIOUS
    <2>1. Parsed(e, words).pattern[words[i].switch] =
            IF of(words[i].switch) = {} THEN NULL ELSE words[last(of(words[i].switch))].arg
        BY <1>4
    <2>2. QED BY <1>1, <1>2, <2>1
<1>9. words[i].switch = "file" => Parsed(e, words).file = words[i].arg
    BY <1>1, <1>2, <1>5
<1>10. QED BY <1>6, <1>8, <1>9

GivenOnly(e, words) ==
    \A f \in Parsed(e, words).mask : f # "" /\ \E i \in DOMAIN words : words[i].switch = f

LEMMA MaskIsGiven ==
    ASSUME NEW e, NEW words, Sent(e, words)
    PROVE  GivenOnly(e, words)
BY SentIsTaken DEF Parsed, GivenOnly

\* With a patterned switch, whether its pattern is matched is what whoreply_check() looks at.
LEMMA PatternsAsWanted ==
    ASSUME NEW e, NEW words, Sent(e, words), Sensible(words), NEW f \in PatternFields, NEW r
    PROVE  (f \in Parsed(e, words).mask
              => IF f = "realname" THEN Parsed(e, words).pattern[f] = "*" ELSE Match(Parsed(e, words).pattern[f], r.of[f]))
           <=> \A i \in DOMAIN words : words[i].switch = f => Match(words[i].arg, r.of[f])
<1>1. \A i \in DOMAIN words : words[i].switch = f => Parsed(e, words).pattern[f] = words[i].arg /\ f \in Parsed(e, words).mask
    <2>1. f # ""
        BY DEF PatternFields
    <2>2. SaysWords(e, words)
        BY ParsedSays
    <2>3. QED BY <2>1, <2>2 DEF SaysWords
<1>2. f \in Parsed(e, words).mask => \E i \in DOMAIN words : words[i].switch = f
    <2>1. GivenOnly(e, words)
        BY MaskIsGiven
    <2>2. QED BY <2>1 DEF GivenOnly
<1>3. \A i \in DOMAIN words : words[i].switch = f => words[i].arg # NULL
    BY DEF Sent, Refused, Missing, TakesArgument
<1>4. ASSUME f = "realname", NEW i \in DOMAIN words, words[i].switch = f PROVE words[i].arg = "*"
    BY <1>3, <1>4 DEF Sensible
<1>5. OneEach(words)
    BY OneWord
<1>6. QED BY <1>1, <1>2, <1>4, <1>5 DEF Match, OneEach

\* whoreply_check() looks at what was wanted.
LEMMA CheckIsWanted ==
    ASSUME NEW e, NEW words, Sent(e, words), Sensible(words), NEW r, r.status \in Marks,
           \E f \in DOMAIN r.of : TRUE,
           \A i \in DOMAIN words : words[i].switch = "" => Fits(e, words[i], r)
    PROVE  WhoreplyCheck(e, Parsed(e, words), r) <=> Wanted(e, words, r)
<1> DEFINE info == Parsed(e, words)
           given(switch) == \E i \in DOMAIN words : words[i].switch = switch
           operator == \E i \in DOMAIN r.status : r.status[i] = "*"
           friend == \E line \in e.listed : Match(line, r.of["nick"])
<1>0. SaysWords(e, words) /\ GivenOnly(e, words) /\ OneEach(words)
    BY ParsedSays, MaskIsGiven, OneWord
<1>1. \A switch \in Switches : switch \in info.mask <=> given(switch)
    <2> SUFFICES ASSUME NEW switch \in Switches PROVE switch \in info.mask <=> given(switch)
        OBVIOUS
    <2>1. switch # ""
        BY DEF Switches, PatternFields, Flags
    <2>2. QED BY <1>0, <2>1 DEF SaysWords, GivenOnly
<1>2. ASSUME NEW i \in DOMAIN words PROVE words[i].switch \in Switches \cup {""}
    <2>1. words[i] \in Word /\ ~Refused(e, words[i])
        BY ONLY Sent(e, words), i \in DOMAIN words DEF Sent
    <2>2. QED BY <2>1 DEF Refused, Word
<1>3. CASE given("file")
    <2>1. PICK i \in DOMAIN words : words[i].switch = "file"
        BY <1>3
    <2>2. info.file = words[i].arg
        BY <1>0, <2>1 DEF SaysWords
    <2>3. \A j \in DOMAIN words : j # i => words[j].switch = ""
        BY <1>0, <2>1 DEF Sensible, OneEach
    <2>4. Fits(e, words[i], r) <=> words[i].arg = "friends" /\ friend
        BY <2>1 DEF Fits, PatternFields
    <2>5. Wanted(e, words, r) <=> words[i].arg = "friends" /\ friend
        BY <2>3, <2>4 DEF Wanted
    <2>6. "file" \in info.mask
        BY <1>1, <1>3 DEF Switches
    <2>7. QED BY <2>2, <2>5, <2>6 DEF WhoreplyCheck
<1>4. CASE ~given("file")
    <2>1. "file" \notin info.mask
        BY <1>1, <1>4 DEF Switches
    <2> DEFINE patterns == \A f \in PatternFields : \A i \in DOMAIN words :
                             words[i].switch = f => Match(words[i].arg, r.of[f])
               flags == /\ given("here") => r.status[1] = "H"
                        /\ given("away") => r.status[1] = "G"
                        /\ given("operators") => operator
                        /\ given("lusers") => ~operator
                        /\ given("chops") => \E i \in DOMAIN r.status : r.status[i] = "@"
    <2>2. WhoreplyCheck(e, info, r) <=> flags /\ patterns
        <3>1. \A f \in PatternFields :
                (f \in info.mask => IF f = "realname" THEN info.pattern[f] = "*" ELSE Match(info.pattern[f], r.of[f]))
                <=> \A i \in DOMAIN words : words[i].switch = f => Match(words[i].arg, r.of[f])
            BY PatternsAsWanted
        <3>2. WhoreplyCheck(e, info, r) <=>
                /\ "here" \in info.mask => MarkAt(r.status, 1) = "H"
                /\ "away" \in info.mask => MarkAt(r.status, 1) = "G"
                /\ "operators" \in info.mask => MarkAt(r.status, 2) = "*"
                /\ "lusers" \in info.mask => MarkAt(r.status, 2) # "*"
                /\ "chops" \in info.mask => "@" \in {MarkAt(r.status, 2), MarkAt(r.status, 3)}
                /\ \A f \in PatternFields :
                      f \in info.mask => IF f = "realname" THEN info.pattern[f] = "*" ELSE Match(info.pattern[f], r.of[f])
            BY <2>1 DEF WhoreplyCheck
        <3>3. {"here", "away", "operators", "lusers", "chops"} \subseteq Switches
            BY DEF Switches, Flags
        <3> HIDE DEF info
        <3>4. flags <=>
                /\ "here" \in info.mask => MarkAt(r.status, 1) = "H"
                /\ "away" \in info.mask => MarkAt(r.status, 1) = "G"
                /\ "operators" \in info.mask => MarkAt(r.status, 2) = "*"
                /\ "lusers" \in info.mask => MarkAt(r.status, 2) # "*"
                /\ "chops" \in info.mask => "@" \in {MarkAt(r.status, 2), MarkAt(r.status, 3)}
            <4>1. \A switch \in {"here", "away", "operators", "lusers", "chops"} : switch \in info.mask <=> given(switch)
                BY <1>1, <3>3
            <4> HIDE DEF given
            <4>2. QED BY <4>1, MarksInPlace
        <3> HIDE DEF flags
        <3>5. QED BY <3>1, <3>2, <3>4
    <2>3. Wanted(e, words, r) => flags /\ patterns
        <3>1. \A f \in PatternFields : f # "file" /\ f # "operators" /\ f # "lusers" /\ f # "chops" /\ f # "here" /\ f # "away" /\ f # ""
            BY DEF PatternFields
        <3>2. {"here", "away", "operators", "lusers", "chops"} \cap PatternFields = {}
            BY <3>1
        <3>3. QED BY <3>1, <3>2 DEF Wanted, Fits
    <2>4. flags /\ patterns => Wanted(e, words, r)
        <3> SUFFICES ASSUME flags, patterns, NEW i \in DOMAIN words PROVE Fits(e, words[i], r)
            BY DEF Wanted
        <3>1. words[i].switch \in PatternFields \cup Flags \cup {""}
            BY <1>2, <1>4 DEF Switches
        <3>2. CASE words[i].switch \in PatternFields
            <4>1. Match(words[i].arg, r.of[words[i].switch])
                BY <3>2
            <4>2. QED BY <3>2, <4>1 DEF Fits, PatternFields
        <3>3. CASE words[i].switch \in Flags
            BY <3>3 DEF Fits, Flags, PatternFields
        <3>4. QED BY <3>1, <3>2, <3>3
    <2>5. QED BY <2>2, <2>3, <2>4
<1>5. QED BY <1>3, <1>4

\* Who a server is asked for are those of whom the word before which it is put says so.
LEMMA AskedForLast ==
    ASSUME NEW e, NEW words, Sent(e, words)
    PROVE  \/ /\ \A i \in DOMAIN words : words[i].switch \notin PatternFields \cup {""}
              /\ AskedFor(e, words) \in {"*", NULL}
           \/ \E last \in DOMAIN words :
                  /\ words[last].switch \in PatternFields \cup {""}
                  /\ \A i \in DOMAIN words : words[i].switch = "" => i = last
                  /\ AskedFor(e, words) = IF words[last].switch = "" /\ words[last].arg = "*" THEN e.current
                                       ELSE words[last].arg
<1> DEFINE names == {i \in DOMAIN words : words[i].switch \in PatternFields \cup {""}}
           last == CHOOSE i \in names : \A j \in names : j <= i
<1>1. Len(words) \in Nat /\ DOMAIN words = 1 .. Len(words)
    BY DEF Sent
<1>2. AskedFor(e, words) =
        IF names = {} THEN (IF \E i \in DOMAIN words : words[i].switch = "operators" THEN "*" ELSE NULL)
        ELSE IF words[last].switch = "" /\ words[last].arg = "*" THEN e.current
        ELSE words[last].arg
    BY DEF AskedFor
<1>3. CASE names = {}
    BY <1>2, <1>3
<1>4. CASE names # {}
    <2>1. \E i \in names : \A j \in names : j <= i
        <3>1. names \in SUBSET (0 .. Len(words))
            <4>1. \A i \in DOMAIN words : i \in 0 .. Len(words)
                BY <1>1
            <4>2. QED BY ONLY <4>1
        <3> HIDE DEF names
        <3>2. QED BY <1>1, <1>4, <3>1, GreatestOf
    <2>2. last \in names /\ \A j \in names : j <= last
        BY <2>1
    <2> HIDE DEF last
    <2>3. \A i \in DOMAIN words : words[i].switch = "" => i = last
        <3>1. ASSUME NEW i \in DOMAIN words, words[i].switch = "" PROVE i = last
            <4>1. i = Len(words) /\ i <= last /\ last \in 1 .. Len(words)
                <5>1. i = Len(words)
                    BY <3>1 DEF Sent, WellFormed
                <5>2. i \in names /\ last \in DOMAIN words
                    BY <2>2, <3>1
                <5>3. i <= last
                    BY <2>2, <5>2
                <5>4. QED BY ONLY <1>1, <5>1, <5>2, <5>3
            <4>2. \A n \in Nat : \A l \in 1 .. n : n <= l => n = l
                OBVIOUS
            <4>3. QED BY ONLY <1>1, <4>1, <4>2
        <3>2. QED BY <3>1, ZenonT(60)
    <2>4. QED BY <1>2, <1>4, <2>2, <2>3
<1>5. QED BY <1>3, <1>4

\* Those who are wanted are in the answer, and of those in it the name that was asked for is true.
LEMMA AnswerHasWanted ==
    ASSUME NEW e, NEW words, Sent(e, words), NEW r \in e.people, r \in Reply
    PROVE  /\ Wanted(e, words, r) => r \in Answer(e, AskedFor(e, words), "operators" \in Parsed(e, words).mask)
           /\ r \in Answer(e, AskedFor(e, words), "operators" \in Parsed(e, words).mask) =>
                 \A i \in DOMAIN words : words[i].switch = "" => Fits(e, words[i], r)
<1> DEFINE name == AskedFor(e, words)
           only == "operators" \in Parsed(e, words).mask
<1>1. r \in Answer(e, name, only) <=>
        /\ name = NULL \/ \E f \in DOMAIN r.of : Match(name, r.of[f])
        /\ only => \E i \in DOMAIN r.status : r.status[i] = "*"
    BY DEF Answer
<1>2. DOMAIN r.of = PatternFields \cup {"channel"}
    BY DEF Reply, Person
<1>3. only => \E i \in DOMAIN words : words[i].switch = "operators"
    <2>1. GivenOnly(e, words)
        BY MaskIsGiven
    <2>2. QED BY <2>1 DEF GivenOnly
<1>4. ASSUME Wanted(e, words, r), only PROVE \E i \in DOMAIN r.status : r.status[i] = "*"
    <2>1. PICK i \in DOMAIN words : words[i].switch = "operators"
        BY <1>3, <1>4
    <2>2. Fits(e, words[i], r) BY <1>4 DEF Wanted
    <2>3. QED BY <2>1, <2>2 DEF Fits, PatternFields
<1> HIDE DEF name, only
<1>5. ASSUME \A i \in DOMAIN words : words[i].switch \notin PatternFields \cup {""}, name \in {"*", NULL}
      PROVE  /\ Wanted(e, words, r) => r \in Answer(e, name, only)
             /\ r \in Answer(e, name, only) =>
                   \A i \in DOMAIN words : words[i].switch = "" => Fits(e, words[i], r)
    <2>1. name = NULL \/ \E f \in DOMAIN r.of : Match(name, r.of[f])
        BY <1>2, <1>5 DEF Match
    <2>2. Wanted(e, words, r) => r \in Answer(e, name, only)
        BY <1>1, <1>4, <2>1
    <2>3. \A i \in DOMAIN words : words[i].switch # ""
        BY <1>5
    <2>4. QED BY <2>2, <2>3
<1>6. ASSUME NEW last \in DOMAIN words, words[last].switch \in PatternFields \cup {""},
             \A i \in DOMAIN words : words[i].switch = "" => i = last,
             name = IF words[last].switch = "" /\ words[last].arg = "*" THEN e.current ELSE words[last].arg
      PROVE  /\ Wanted(e, words, r) => \E f \in DOMAIN r.of : Match(name, r.of[f])
             /\ r \in Answer(e, name, only) =>
                   \A i \in DOMAIN words : words[i].switch = "" => Fits(e, words[i], r)
    <2>1. CASE words[last].switch = ""
        <3>1. name = IF words[last].arg = "*" THEN e.current ELSE words[last].arg
            BY <1>6, <2>1
        <3>2. Fits(e, words[last], r) <=> \E f \in DOMAIN r.of : Match(name, r.of[f])
            BY <2>1, <3>1 DEF Fits, PatternFields
        <3>3. name # NULL
            <4>1. ~Refused(e, words[last]) /\ words[last].arg # NULL
                BY <2>1 DEF Sent, WellFormed
            <4>2. QED BY <2>1, <3>1, <4>1 DEF Refused
        <3>4. QED BY <1>1, <1>6, <3>2, <3>3 DEF Wanted
    <2>2. CASE words[last].switch \in PatternFields
        <3>1. words[last].switch # "" /\ name = words[last].arg
            BY <1>6, <2>2 DEF PatternFields
        <3>2. Fits(e, words[last], r) => Match(name, r.of[words[last].switch])
            BY <2>2, <3>1 DEF Fits, PatternFields
        <3>3. QED BY <1>2, <1>6, <2>2, <3>1, <3>2 DEF Wanted
    <2>3. QED BY <1>6, <2>1, <2>2
<1>7. \/ /\ \A i \in DOMAIN words : words[i].switch \notin PatternFields \cup {""}
         /\ name \in {"*", NULL}
      \/ \E last \in DOMAIN words :
             /\ words[last].switch \in PatternFields \cup {""}
             /\ \A i \in DOMAIN words : words[i].switch = "" => i = last
             /\ name = IF words[last].switch = "" /\ words[last].arg = "*" THEN e.current ELSE words[last].arg
    BY AskedForLast DEF name
<1>8. /\ Wanted(e, words, r) => r \in Answer(e, name, only)
      /\ r \in Answer(e, name, only) =>
            \A i \in DOMAIN words : words[i].switch = "" => Fits(e, words[i], r)
    <2>1. CASE \E last \in DOMAIN words :
                 /\ words[last].switch \in PatternFields \cup {""}
                 /\ \A i \in DOMAIN words : words[i].switch = "" => i = last
                 /\ name = IF words[last].switch = "" /\ words[last].arg = "*" THEN e.current ELSE words[last].arg
        <3>1. /\ Wanted(e, words, r) => \E f \in DOMAIN r.of : Match(name, r.of[f])
              /\ r \in Answer(e, name, only) =>
                    \A i \in DOMAIN words : words[i].switch = "" => Fits(e, words[i], r)
            BY <1>6, <2>1
        <3>2. QED BY <1>1, <1>4, <3>1
    <2>2. QED BY <1>5, <1>7, <2>1
<1>9. QED BY <1>8 DEF name, only

-----------------------------------------------------------------------------
(* WHO: each step.                                                         *)

\* What a server answers to a request that is sent is what was wanted, of which nobody came yet.
LEMMA AskedInStep ==
    ASSUME NEW e \in WhoSettings, NEW words, Sent(e, words), Sensible(words)
    PROVE  InStepWith(e, Parsed(e, words), [words |-> words, due |-> Answer(e, AskedFor(e, words), "operators" \in Parsed(e, words).mask),
                                      came |-> {}, shown |-> {}])
<1> DEFINE answer == Answer(e, AskedFor(e, words), "operators" \in Parsed(e, words).mask)
           asked == [words |-> words, due |-> answer, came |-> {}, shown |-> {}]
<1>1. e.people \subseteq Reply
    BY WhoAssumption DEF WhoSetting
<1>2. \A r \in e.people : Wanted(e, words, r) => r \in answer
    BY <1>1, AnswerHasWanted
<1>3. answer \subseteq e.people
    BY DEF Answer
<1> HIDE DEF answer
<1>4. asked.words = words /\ asked.due = answer /\ asked.came = {} /\ asked.shown = {}
    OBVIOUS
<1> HIDE DEF asked
<1>5. InStepWith(e, Parsed(e, words), asked)
    BY <1>2, <1>3, <1>4 DEF InStepWith, answer
<1>6. QED BY <1>5 DEF asked, answer

\* One more reply is shown if and only if it was wanted.
LEMMA ReplyInStep ==
    ASSUME NEW e \in WhoSettings, NEW info, NEW asked \in Request, InStepWith(e, info, asked), NEW r \in asked.due
    PROVE  InStepWith(e, info, Replied(e, info, asked, r))
<1> DEFINE next == Replied(e, info, asked, r)
           words == asked.words
<1>1. Sent(e, words) /\ Sensible(words) /\ info = Parsed(e, words)
    BY DEF InStepWith
<1>2. r \in Answer(e, AskedFor(e, words), "operators" \in Parsed(e, words).mask) /\ r \in e.people
    BY DEF InStepWith, Answer
<1>3. r \in Reply
    BY <1>2, WhoAssumption DEF WhoSetting
<1>4. r.status \in Marks /\ DOMAIN r.of = PatternFields \cup {"channel"}
    BY <1>3 DEF Reply, Person
<1>5. \A i \in DOMAIN words : words[i].switch = "" => Fits(e, words[i], r)
    BY ONLY <1>1, <1>2, <1>3, AnswerHasWanted
<1>6. \E f \in DOMAIN r.of : TRUE
    BY <1>4
<1> HIDE DEF words
<1>7. WhoreplyCheck(e, info, r) <=> Wanted(e, words, r)
    BY ONLY <1>1, <1>4, <1>5, <1>6, CheckIsWanted
<1>8. /\ next.words = asked.words /\ next.due = asked.due \ {r} /\ next.came = asked.came \cup {r}
      /\ next.shown = IF WhoreplyCheck(e, info, r) THEN asked.shown \cup {r} ELSE asked.shown
    BY DEF Request, Replied
<1> HIDE DEF next
<1>9. next.shown = {p \in next.came : Wanted(e, words, p)}
    BY <1>7, <1>8 DEF InStepWith, words
<1>10. \A p \in e.people : Wanted(e, words, p) => p \in next.came \cup next.due
    BY <1>8 DEF InStepWith, words
<1>11. InStepWith(e, info, next)
    BY <1>1, <1>2, <1>8, <1>9, <1>10 DEF InStepWith, words
<1>12. QED BY <1>11 DEF next

LEMMA WhoStepHolds ==
    WhoInv /\ [WhoNext]_whoVars => WhoInv'
<1> SUFFICES ASSUME WhoInv, [WhoNext]_whoVars PROVE WhoInv'
    OBVIOUS
<1>1. CASE UNCHANGED whoVars
    BY <1>1 DEF whoVars, WhoInv
<1>2. ASSUME NEW s \in WhoServers,
             \/ Len(requests[s]) < MaxRequests /\ Who(s)
             \/ Whoreply(s) \/ EndOfWho(s) \/ LostWho(s)
      PROVE  WhoInv'
    <2>1. /\ whoEnv' = whoEnv /\ whoEnv \in WhoSettings
          /\ requests \in [WhoServers -> Seq(Request)] /\ requests[s] \in Seq(Request)
          /\ whoInfo = [t \in WhoServers |-> whoInfo[t]]
        BY <1>2 DEF Who, Whoreply, EndOfWho, LostWho, WhoInv
    <2>2. ASSUME NEW info, NEW asked \in Seq(Request),
                 whoInfo' = [whoInfo EXCEPT ![s] = info], requests' = [requests EXCEPT ![s] = asked],
                 whoEnv.careful => Len(asked) <= 1 /\ (asked # <<>> => InStepWith(whoEnv, info, asked[1]))
          PROVE  WhoInv'
        <3>1. requests' \in [WhoServers -> Seq(Request)] /\ requests'[s] = asked /\ whoInfo'[s] = info
            BY <2>1, <2>2
        <3>2. \A t \in WhoServers : t # s => requests'[t] = requests[t] /\ whoInfo'[t] = whoInfo[t]
            BY <2>1, <2>2
        <3>3. whoInfo' = [t \in WhoServers |-> whoInfo'[t]]
            BY <2>1, <2>2
        <3>4. whoEnv.careful =>
                \A t \in WhoServers :
                    Len(requests'[t]) <= 1 /\ (requests'[t] # <<>> => InStepWith(whoEnv, whoInfo'[t], requests'[t][1]))
            BY <2>2, <3>1, <3>2 DEF WhoInv
        <3>5. QED BY <2>1, <3>1, <3>3, <3>4 DEF WhoInv
    <2>3. /\ whoEnv.careful => Len(requests[s]) <= 1
          /\ whoEnv.careful /\ requests[s] # <<>> => InStepWith(whoEnv, whoInfo[s], requests[s][1])
        BY <2>1 DEF WhoInv
    <2>4. CASE Who(s)
        <3>1. PICK words \in whoEnv.commands :
                /\ whoEnv.careful => Sensible(words) /\ requests[s] = <<>>
                /\ whoInfo' = [whoInfo EXCEPT ![s] = Parsed(whoEnv, words)]
                /\ requests' =
                      IF words = <<>> \/ TakenWords(whoEnv, words) # DOMAIN words THEN requests
                      ELSE [requests EXCEPT ![s] = Append(@,
                              [words |-> words, due |-> Answer(whoEnv, AskedFor(whoEnv, words), "operators" \in Parsed(whoEnv, words).mask),
                               came |-> {}, shown |-> {}])]
            BY <2>4 DEF Who
        <3>2. words \in Seq(Word) /\ WellFormed(words) /\ whoEnv.people \subseteq Reply
            BY <2>1, WhoAssumption DEF WhoSetting
        <3>3. CASE words = <<>> \/ TakenWords(whoEnv, words) # DOMAIN words
            <4>1. requests' = [requests EXCEPT ![s] = requests[s]]
                BY <2>1, <3>1, <3>3
            <4>2. QED BY <2>1, <2>2, <2>3, <3>1, <4>1
        <3>4. CASE words # <<>> /\ TakenWords(whoEnv, words) = DOMAIN words
            <4> DEFINE asked == [words |-> words, due |-> Answer(whoEnv, AskedFor(whoEnv, words), "operators" \in Parsed(whoEnv, words).mask),
                                 came |-> {}, shown |-> {}]
            <4>1. Sent(whoEnv, words)
                BY <3>2, <3>4, TakenIsSent
            <4>2. whoEnv.careful => InStepWith(whoEnv, Parsed(whoEnv, words), asked)
                BY <2>1, <3>1, <4>1, AskedInStep
            <4>3. asked \in Request
                BY <3>2 DEF Request, Answer
            <4> HIDE DEF asked
            <4>4. requests' = [requests EXCEPT ![s] = Append(requests[s], asked)]
                BY <3>1, <3>4 DEF asked
            <4>5. Append(requests[s], asked) \in Seq(Request)
                BY <2>1, <4>3
            <4>6. requests[s] = <<>> => Append(requests[s], asked)[1] = asked /\ Len(Append(requests[s], asked)) = 1
                BY <2>1
            <4>7. whoEnv.careful => /\ Len(Append(requests[s], asked)) <= 1
                                    /\ InStepWith(whoEnv, Parsed(whoEnv, words), Append(requests[s], asked)[1])
                BY <3>1, <4>2, <4>6
            <4>8. QED BY <2>2, <3>1, <4>4, <4>5, <4>7
        <3>5. QED BY <3>3, <3>4
    <2>5. CASE Whoreply(s)
        <3>1. whoInfo' = whoInfo /\ requests[s] # <<>>
            BY <2>5 DEF Whoreply
        <3> DEFINE asked == requests[s][1]
        <3>2. asked = Head(requests[s]) /\ asked \in Request
            BY <2>1, <3>1
        <3>3. PICK r \in asked.due :
                requests' = [requests EXCEPT ![s] = <<Replied(whoEnv, whoInfo[s], asked, r)>> \o Tail(requests[s])]
            BY <2>1, <2>5, <3>1, <3>2 DEF Whoreply
        <3> DEFINE next == Replied(whoEnv, whoInfo[s], asked, r)
        <3>4. whoEnv.careful => InStepWith(whoEnv, whoInfo[s], next)
            BY <2>1, <2>3, <3>1, <3>2, <3>3, ReplyInStep
        <3>5. next \in Request
            BY <3>2, <3>3 DEF Request, Replied
        <3>6. requests' = [requests EXCEPT ![s] = <<next>> \o Tail(requests[s])]
            BY <3>3
        <3> HIDE DEF next, asked
        <3>7. /\ <<next>> \o Tail(requests[s]) \in Seq(Request) /\ Len(<<next>> \o Tail(requests[s])) = Len(requests[s])
              /\ (<<next>> \o Tail(requests[s]))[1] = next
            BY <2>1, <3>1, <3>5
        <3>8. whoInfo' = [whoInfo EXCEPT ![s] = whoInfo[s]]
            BY <2>1, <3>1
        <3>9. QED BY <2>2, <2>3, <3>4, <3>6, <3>7, <3>8
    <2>6. CASE EndOfWho(s) \/ LostWho(s)
        <3>0. whoInfo' = whoInfo /\ requests[s] # <<>>
            BY <2>6 DEF EndOfWho, LostWho
        <3>1. whoInfo' = [whoInfo EXCEPT ![s] = whoInfo[s]] /\ requests[s] # <<>>
            BY ONLY <2>1, <3>0
        <3>2. PICK asked \in {Tail(requests[s]), <<>>} : requests' = [requests EXCEPT ![s] = asked]
            BY <2>6 DEF EndOfWho, LostWho
        <3>3. asked \in Seq(Request) /\ Len(asked) <= Len(requests[s]) /\ (Len(requests[s]) <= 1 => asked = <<>>)
            <4>1. CASE asked = <<>>
                BY <2>1, <4>1
            <4>2. CASE asked = Tail(requests[s])
                <5>1. \A q \in Seq(Request) : q # <<>> => Tail(q) \in Seq(Request) /\ Len(Tail(q)) = Len(q) - 1 /\ Len(q) \in Nat \ {0}
                    OBVIOUS
                <5>2. /\ asked \in Seq(Request) /\ Len(asked) = Len(requests[s]) - 1 /\ Len(requests[s]) \in Nat \ {0}
                    BY ONLY <2>1, <3>1, <4>2, <5>1
                <5>3. \A m, n \in Nat : n # 0 /\ m = n - 1 => m <= n /\ (n <= 1 => m = 0)
                    OBVIOUS
                <5>4. Len(asked) \in Nat /\ (Len(asked) = 0 => asked = <<>>)
                    BY <5>2
                <5>5. QED BY <5>2, <5>3, <5>4
            <4>3. QED BY <3>2, <4>1, <4>2
        <3>4. whoEnv.careful => asked = <<>> /\ Len(asked) <= 1
            BY <2>3, <3>3
        <3>5. QED BY <2>2, <3>1, <3>2, <3>3, <3>4
    <2>7. QED BY <1>2, <2>4, <2>5, <2>6
<1>3. QED BY <1>1, <1>2 DEF WhoNext

\* For any servers, people and commands of a user who waits for the end of a list: what is shown
\* of it is what the command says.
THEOREM WhoIsAsAsked ==
    WhoSpec => []WhoAsAsked
<1>1. WhoInit => WhoInv
    BY DEF WhoInit, WhoInv
<1>2. WhoInv => WhoAsAsked
    <2> SUFFICES ASSUME WhoInv, whoEnv.careful, NEW s \in WhoServers, requests[s] # <<>>
                 PROVE  /\ Head(requests[s]).shown = {r \in Head(requests[s]).came : Wanted(whoEnv, Head(requests[s]).words, r)}
                        /\ \A r \in whoEnv.people : Wanted(whoEnv, Head(requests[s]).words, r)
                              => r \in Head(requests[s]).came \cup Head(requests[s]).due
        BY DEF WhoAsAsked
    <2>1. InStepWith(whoEnv, whoInfo[s], requests[s][1]) /\ Head(requests[s]) = requests[s][1]
        BY DEF WhoInv
    <2>2. QED BY <2>1 DEF InStepWith
<1>3. QED BY <1>1, <1>2, WhoStepHolds, PTL DEF WhoSpec

=============================================================================
