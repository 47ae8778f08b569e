-------------------------- MODULE PartsLiveProofs --------------------------
(***************************************************************************)
(* /TIMER and DCC.                                                         *)
(*                                                                         *)
(* For any clock, number of timers and waits: the list of edit.c keeps the *)
(* promise of Alarms.  Every timer runs once, not before its time, the     *)
(* earliest first, unless it is deleted.                                   *)
(*                                                                         *)
(* For files of any size, any blocks and any number of listeners: what a   *)
(* DCC transfer delivers is the file, and no descriptor is lost.           *)
(***************************************************************************)
EXTENDS Timers, Dcc, FiniteSetTheorems, SequenceTheorems, WellFoundedInduction, TLAPS


Timer == [id: Nat, time: Nat, ref: Refs]

Earlier(p, q) == p.time < q.time \/ (p.time = q.time /\ p.id < q.id)

\* The list is in order, of timers that were set, with references of their own.
InOrder(s) == \A i, j \in 1 .. Len(s) : i < j => Earlier(s[i], s[j])
OwnRefs(s) == \A i, j \in 1 .. Len(s) : i # j => s[i].ref # s[j].ref
OldIds(s, n) == \A i \in 1 .. Len(s) : s[i].id < n

\* What runs is the first of the list, which is due, until it is removed: what its command
\* sets comes after it.
RunsFirst ==
    /\ timerLoop = "running" =>
          /\ pendingTimers # <<>> /\ currentExecTimer # NoTimer
          /\ pendingTimers[1].ref = currentExecTimer
          /\ pendingTimers[1].time <= now
    /\ timerLoop \notin {"running", "gone"} => currentExecTimer = NoTimer

TimersInv ==
    /\ TimersTypeOK
    /\ InOrder(pendingTimers) /\ OwnRefs(pendingTimers) /\ OldIds(pendingTimers, nextTimer)
    /\ RunsFirst
    /\ looked <= now

-----------------------------------------------------------------------------
(* Numbers.                                                                *)

Less == {ss \in Nat \X Nat : ss[1] < ss[2]}

\* The library's theorem for the order of the numbers, as a set of pairs.
LEMMA LessIsWellFounded == IsWellFoundedOn(Less, Nat)
BY NatLessThanWellFounded DEF OpToRel, Less

\* A set of numbers has a least one.
LEMMA LeastOf ==
    ASSUME NEW T \in SUBSET Nat, T # {}
    PROVE  \E x \in T : \A y \in T : x <= y
<1>1. PICK x \in T : \A y \in T : ~ (<<y, x>> \in Less)
    BY LessIsWellFounded, WFMin
<1>2. \A y \in T : ~(y < x)
    BY <1>1 DEF Less
<1>3. QED BY <1>2

\* Seconds and parts of them make up the time.
LEMMA SecAndPart ==
    ASSUME NEW P \in Nat \ {0}, NEW a \in Nat
    PROVE  /\ a \div P \in Nat /\ a % P \in 0 .. P - 1
           /\ a = P * (a \div P) + (a % P)
OBVIOUS

\* Less seconds are less time, whatever the parts are.
LEMMA LessSeconds ==
    ASSUME NEW P \in Nat \ {0}, NEW a \in Nat, NEW b \in Nat, a \div P < b \div P
    PROVE  a < b
<1>1. PICK q \in Nat, r \in 0 .. P - 1 : a = P * q + r /\ q = a \div P
    BY SecAndPart
<1>2. PICK k \in Nat, s \in 0 .. P - 1 : b = P * k + s /\ k = b \div P
    BY SecAndPart
<1>3. P * q + P <= P * k
    <2>1. k - q - 1 \in Nat
        BY <1>1, <1>2
    <2>2. P * (k - q - 1) \in Nat
        BY <2>1
    <2>3. P * (k - q - 1) = P * k - P * q - P
        BY <1>1, <1>2
    <2>4. P * k \in Nat /\ P * q \in Nat
        OBVIOUS
    <2>5. QED BY <2>2, <2>3, <2>4
<1>4. P * k \in Nat /\ P * q \in Nat
    OBVIOUS
<1>5. QED BY <1>1, <1>2, <1>3, <1>4

\* A timer's parts.
LEMMA TimerParts ==
    ASSUME NEW x \in Timer PROVE x.id \in Nat /\ x.time \in Nat /\ x.ref \in Refs
BY DEF Timer

\* What a sequence is made of.
LEMMA Elements ==
    ASSUME NEW S, NEW s \in Seq(S)
    PROVE  /\ Len(s) \in Nat /\ \A i \in 1 .. Len(s) : s[i] \in S
           /\ s # <<>> => 1 \in 1 .. Len(s)
OBVIOUS

\* What the list is made of.
LEMMA Listed ==
    ASSUME TimersTypeOK
    PROVE  /\ pendingTimers \in Seq(Timer) /\ Len(pendingTimers) \in Nat
           /\ pendingTimers # <<>> => 1 \in 1 .. Len(pendingTimers)
           /\ \A i \in 1 .. Len(pendingTimers) :
                 /\ pendingTimers[i] \in Timer /\ pendingTimers[i].id \in Nat
                 /\ pendingTimers[i].time \in Nat /\ pendingTimers[i].ref \in Refs
<1>1. pendingTimers \in Seq(Timer)
    BY DEF TimersTypeOK, Timer
<1>2. QED BY <1>1, Elements, TimerParts

\* execute_timer() takes a timer for due only when its time has come.
LEMMA DueIsDue ==
    ASSUME TimersInv, FirstIsDue PROVE pendingTimers[1].time <= looked
<1> DEFINE t == pendingTimers[1].time
<1>1. t \in Nat /\ looked \in Nat
    BY Listed DEF TimersInv, TimersTypeOK, FirstIsDue
<1>2. PerSecond \in Nat \ {0}
    BY TimersAssumption
<1>3. CASE t \div PerSecond < looked \div PerSecond
    BY <1>1, <1>2, <1>3, LessSeconds
<1>4. CASE t \div PerSecond = looked \div PerSecond /\ t % PerSecond <= looked % PerSecond
    <2> DEFINE q == t \div PerSecond
    <2>1. /\ q \in Nat /\ t = PerSecond * q + (t % PerSecond)
          /\ looked = PerSecond * q + (looked % PerSecond)
          /\ t % PerSecond \in 0 .. PerSecond - 1 /\ looked % PerSecond \in 0 .. PerSecond - 1
        BY <1>1, <1>2, <1>4, SecAndPart
    <2>2. PerSecond * q \in Nat
        BY <2>1, <1>2
    <2> HIDE DEF q
    <2>3. QED BY <2>1, <2>2, <1>1, <1>2, <1>4
<1>5. QED BY <1>3, <1>4 DEF FirstIsDue, Sec, Part

-----------------------------------------------------------------------------
(* The list.                                                               *)

\* What InsertedAt() and RemovedFrom() make of it.
LEMMA Insertion ==
    ASSUME pendingTimers \in Seq(Timer), NEW i \in 1 .. Len(pendingTimers) + 1, NEW timer \in Timer
    PROVE  /\ InsertedAt(i, timer) \in Seq(Timer)
           /\ Len(InsertedAt(i, timer)) = Len(pendingTimers) + 1
           /\ \A j \in 1 .. Len(pendingTimers) + 1 : InsertedAt(i, timer)[j] =
                 IF j < i THEN pendingTimers[j] ELSE IF j = i THEN timer ELSE pendingTimers[j - 1]
<1> DEFINE n == Len(pendingTimers) + 1
<1>1. n \in Nat /\ \A j \in 1 .. Len(pendingTimers) : pendingTimers[j] \in Timer
    OBVIOUS
<1>2. InsertedAt(i, timer) \in [1 .. n -> Timer]
    BY <1>1 DEF InsertedAt
<1>3. QED BY <1>1, <1>2 DEF InsertedAt

\* What is left of the list when one timer is taken out (timercmd(), execute_timer()).
LEMMA Removal ==
    ASSUME pendingTimers \in Seq(Timer), NEW i \in 1 .. Len(pendingTimers)
    PROVE  /\ RemovedFrom(i) \in Seq(Timer)
           /\ Len(RemovedFrom(i)) = Len(pendingTimers) - 1
           /\ \A j \in 1 .. Len(pendingTimers) - 1 :
                 RemovedFrom(i)[j] = IF j < i THEN pendingTimers[j] ELSE pendingTimers[j + 1]
<1> DEFINE n == Len(pendingTimers) - 1
<1>1. n \in Nat /\ \A j \in 1 .. Len(pendingTimers) : pendingTimers[j] \in Timer
    OBVIOUS
<1>2. RemovedFrom(i) \in [1 .. n -> Timer]
    BY <1>1 DEF RemovedFrom
<1>3. QED BY <1>1, <1>2 DEF RemovedFrom

\* timercmd() finds a place: after all that are not later, before the first that is.
LEMMA SlotIsPlace ==
    ASSUME pendingTimers \in Seq(Timer), NEW t \in Nat
    PROVE  /\ Slot(t) \in 1 .. Len(pendingTimers) + 1
           /\ Slot(t) <= Len(pendingTimers) => pendingTimers[Slot(t)].time > t
           /\ \A j \in 1 .. Slot(t) - 1 : pendingTimers[j].time <= t
<1> DEFINE n == Len(pendingTimers)
           T == {i \in 1 .. n + 1 : i <= n => pendingTimers[i].time > t}
<1>1. n \in Nat /\ \A j \in 1 .. n : pendingTimers[j].time \in Nat
    BY Elements, TimerParts
<1>2. n + 1 \in T /\ T \in SUBSET Nat
    BY <1>1
<1>3. PICK i \in T : \A j \in T : i <= j
    BY <1>2, LeastOf
<1>4. \A j \in 1 .. i - 1 : pendingTimers[j].time <= t
    <2> SUFFICES ASSUME NEW j \in 1 .. i - 1 PROVE pendingTimers[j].time <= t
        OBVIOUS
    <2>1. j \in 1 .. n /\ j \notin T
        BY <1>1, <1>3
    <2>2. QED BY <2>1, <1>1
<1>5. \E k \in 1 .. n + 1 : /\ k <= n => pendingTimers[k].time > t
                            /\ \A j \in 1 .. k - 1 : pendingTimers[j].time <= t
    BY <1>3, <1>4
<1>6. QED BY <1>5 DEF Slot

\* How long select() sleeps is a number: timer_timeout() never comes to less than nothing,
\* because a timer that is not yet due has more whole seconds when it borrows one.
LEMMA SleepsType ==
    ASSUME TimersInv, NEW most \in {1, ClockSeconds}, NEW heldOver \in BOOLEAN
    PROVE  now + Sleeps(most, heldOver) \in Nat
<1> DEFINE first == pendingTimers[1].time
<1>1. /\ PerSecond \in Nat \ {0} /\ ClockSeconds \in Nat /\ now \in Nat
      /\ most \in Nat
    BY TimersAssumption DEF TimersInv, TimersTypeOK
<1>2. \A a, b \in Nat : a * b \in Nat
    OBVIOUS
<1>3. TimerTimeout.sec \in Nat /\ TimerTimeout.part \in Nat
    <2>1. CASE pendingTimers = <<>>
        BY <2>1, <1>1 DEF TimerTimeout
    <2>2. CASE pendingTimers # <<>> /\ first < now
        BY <2>2, <1>1 DEF TimerTimeout
    <2>3. CASE pendingTimers # <<>> /\ ~(first < now)
        <3>1. first \in Nat
            BY <2>3, Listed DEF TimersInv
        <3> HIDE DEF first
        <3>2. /\ Sec(first) \in Nat /\ Sec(now) \in Nat /\ Part(first) \in Nat /\ Part(now) \in Nat
              /\ first = PerSecond * Sec(first) + Part(first) /\ now = PerSecond * Sec(now) + Part(now)
            BY <1>1, <3>1, SecAndPart DEF Sec, Part
        <3>3. Sec(first) >= Sec(now)
            <4> SUFFICES ASSUME Sec(first) < Sec(now) PROVE FALSE
                BY <3>2
            <4>1. first < now
                BY <3>1, <1>1, LessSeconds DEF Sec
            <4>2. QED BY <4>1, <2>3
        <3>4. Part(first) < Part(now) => Sec(first) # Sec(now)
            <4> SUFFICES ASSUME Part(first) < Part(now), Sec(first) = Sec(now) PROVE FALSE
                OBVIOUS
            <4>1. PerSecond * Sec(now) \in Nat
                BY <3>2, <1>1, <1>2
            <4>2. QED BY <4>1, <3>2, <2>3
        <3>5. QED BY <2>3, <3>2, <3>3, <3>4 DEF TimerTimeout, first
    <2>4. QED BY <2>1, <2>2, <2>3
<1>4. TimerTimeout.sec * PerSecond \in Nat /\ most * PerSecond \in Nat
    BY <1>1, <1>2, <1>3
<1>5. QED BY <1>1, <1>3, <1>4 DEF Sleeps

-----------------------------------------------------------------------------
(* The invariant.                                                          *)

\* What TIMER does to the list: a timer with a reference of its own comes after all that are
\* not later and before all that are.
LEMMA Put ==
    ASSUME TimersInv, TimerCmd
    PROVE  \E k \in 1 .. Len(pendingTimers) + 1, new \in Timer :
              /\ new.id = nextTimer /\ now <= new.time
              /\ \A j \in 1 .. Len(pendingTimers) : pendingTimers[j].ref # new.ref
              /\ k <= Len(pendingTimers) => pendingTimers[k].time > new.time
              /\ \A j \in 1 .. k - 1 : pendingTimers[j].time <= new.time
              /\ pendingTimers' \in Seq(Timer) /\ Len(pendingTimers') = Len(pendingTimers) + 1
              /\ \A j \in 1 .. Len(pendingTimers) + 1 : pendingTimers'[j] =
                    IF j < k THEN pendingTimers[j] ELSE IF j = k THEN new ELSE pendingTimers[j - 1]
<1>1. PICK wait \in Waits, want \in Refs \cup {NoTimer}, ref \in Refs :
         /\ now + wait <= MaxNow /\ TimerRef(ref, want)
         /\ pendingTimers' = InsertedAt(Slot(now + wait),
                                        [id |-> nextTimer, time |-> now + wait, ref |-> ref])
    BY DEF TimerCmd
<1> DEFINE t == now + wait
           new == [id |-> nextTimer, time |-> t, ref |-> ref]
           k == Slot(t)
<1>2. t \in Nat /\ now <= t /\ new \in Timer
    BY TimersAssumption DEF TimersInv, TimersTypeOK, Timer
<1>3. new.id = nextTimer /\ new.time = t /\ new.ref = ref
    OBVIOUS
<1>4. pendingTimers \in Seq(Timer) /\ Len(pendingTimers) \in Nat
    BY Listed DEF TimersInv
<1>5. /\ k \in 1 .. Len(pendingTimers) + 1
      /\ k <= Len(pendingTimers) => pendingTimers[k].time > t
      /\ \A j \in 1 .. k - 1 : pendingTimers[j].time <= t
    BY <1>2, <1>4, SlotIsPlace
<1>6. \A j \in 1 .. Len(pendingTimers) : pendingTimers[j].ref # ref
    BY <1>1 DEF TimerRef, RefsInUse
<1>7. pendingTimers' = InsertedAt(k, new)
    BY <1>1
<1> HIDE DEF new, k
<1>8. /\ InsertedAt(k, new) \in Seq(Timer) /\ Len(InsertedAt(k, new)) = Len(pendingTimers) + 1
      /\ \A j \in 1 .. Len(pendingTimers) + 1 : InsertedAt(k, new)[j] =
            IF j < k THEN pendingTimers[j] ELSE IF j = k THEN new ELSE pendingTimers[j - 1]
    <2>1. k \in 1 .. Len(pendingTimers) + 1 /\ new \in Timer
        BY <1>2, <1>5
    <2>2. QED BY ONLY <1>4, <2>1, Insertion, ZenonT(60)
<1>9. /\ new.id = nextTimer /\ now <= new.time
      /\ \A j \in 1 .. Len(pendingTimers) : pendingTimers[j].ref # new.ref
      /\ k <= Len(pendingTimers) => pendingTimers[k].time > new.time
      /\ \A j \in 1 .. k - 1 : pendingTimers[j].time <= new.time
    BY <1>2, <1>3, <1>5, <1>6
<1>10. /\ pendingTimers' \in Seq(Timer) /\ Len(pendingTimers') = Len(pendingTimers) + 1
       /\ \A j \in 1 .. Len(pendingTimers) + 1 : pendingTimers'[j] =
             IF j < k THEN pendingTimers[j] ELSE IF j = k THEN new ELSE pendingTimers[j - 1]
    BY <1>7, <1>8
<1>11. QED BY <1>2, <1>5, <1>9, <1>10

\* A new timer takes its place in the list (timercmd()).
LEMMA TimerCmdInv ==
    ASSUME TimersInv, TimerCmd PROVE TimersInv'
<1> DEFINE n == Len(pendingTimers)
<1>1. PICK k \in 1 .. n + 1, new \in Timer :
         /\ new.id = nextTimer /\ now <= new.time
         /\ \A j \in 1 .. n : pendingTimers[j].ref # new.ref
         /\ k <= n => pendingTimers[k].time > new.time
         /\ \A j \in 1 .. k - 1 : pendingTimers[j].time <= new.time
         /\ pendingTimers' \in Seq(Timer) /\ Len(pendingTimers') = n + 1
         /\ \A j \in 1 .. n + 1 : pendingTimers'[j] =
               IF j < k THEN pendingTimers[j] ELSE IF j = k THEN new ELSE pendingTimers[j - 1]
    BY Put
<1>2. new.time \in Nat /\ nextTimer \in Nat /\ now \in Nat
    BY TimerParts DEF TimersInv, TimersTypeOK
<1>3. pendingTimers \in Seq(Timer) /\ n \in Nat
    BY Listed DEF TimersInv
<1>4. /\ k \in 1 .. n + 1
      /\ k <= n => pendingTimers[k].time > new.time
      /\ \A j \in 1 .. k - 1 : pendingTimers[j].time <= new.time
    BY <1>1
<1>5. /\ pendingTimers' \in Seq(Timer) /\ Len(pendingTimers') = n + 1
      /\ \A j \in 1 .. n + 1 : pendingTimers'[j] =
            IF j < k THEN pendingTimers[j] ELSE IF j = k THEN new ELSE pendingTimers[j - 1]
    BY <1>1
<1>6. new.id = nextTimer
    BY <1>1
<1>7. \A j \in 1 .. n : /\ pendingTimers[j].id \in Nat /\ pendingTimers[j].time \in Nat
                        /\ pendingTimers[j].id < nextTimer /\ pendingTimers[j].ref # new.ref
    BY <1>1, Listed DEF TimersInv, OldIds
<1>8. \A j \in 1 .. k - 1 : Earlier(pendingTimers[j], new)
    BY <1>2, <1>4, <1>6, <1>7 DEF Earlier
<1>9. \A j \in k .. n : Earlier(new, pendingTimers[j])
    <2> SUFFICES ASSUME NEW j \in k .. n PROVE Earlier(new, pendingTimers[j])
        OBVIOUS
    <2>1. k \in 1 .. n /\ j \in 1 .. n
        BY <1>4, <1>3
    <2>2. pendingTimers[k].time > new.time
        BY <2>1, <1>4
    <2>3. pendingTimers[j].time >= pendingTimers[k].time
        <3>1. k < j => Earlier(pendingTimers[k], pendingTimers[j])
            BY <2>1 DEF TimersInv, InOrder
        <3>2. k = j \/ k < j
            BY <2>1
        <3>3. QED BY ONLY <1>7, <2>1, <3>1, <3>2 DEF Earlier
    <2>4. QED BY <2>1, <2>2, <2>3, <1>2, <1>6, <1>7, SMTT(30) DEF Earlier
<1>10. InOrder(pendingTimers')
    <2> SUFFICES ASSUME NEW i \in 1 .. n + 1, NEW j \in 1 .. n + 1, i < j
                 PROVE  Earlier(pendingTimers'[i], pendingTimers'[j])
        BY <1>5 DEF InOrder
    <2>1. \A a, b \in 1 .. n : a < b => Earlier(pendingTimers[a], pendingTimers[b])
        BY DEF TimersInv, InOrder
    <2>2. CASE j < k
        <3>1. pendingTimers'[i] = pendingTimers[i] /\ pendingTimers'[j] = pendingTimers[j]
            BY <2>2, <1>3, <1>4, <1>5
        <3>2. i \in 1 .. n /\ j \in 1 .. n
            BY <2>2, <1>3, <1>4
        <3>3. QED BY <3>1, <3>2, <2>1
    <2>3. CASE j = k
        <3>1. i \in 1 .. k - 1
            BY <2>3, <1>3, <1>4
        <3>2. pendingTimers'[i] = pendingTimers[i]
            BY <3>1, <1>5
        <3>3. pendingTimers'[j] = new
            BY <2>3, <1>4, <1>5
        <3>4. Earlier(pendingTimers[i], new)
            BY <3>1, <1>8
        <3>5. QED BY <3>2, <3>3, <3>4
    <2>4. CASE j > k /\ i = k
        <3>1. j - 1 \in k .. n /\ pendingTimers'[i] = new
            BY <2>4, <1>3, <1>4, <1>5
        <3>2. pendingTimers'[j] = pendingTimers[j - 1]
            BY <2>4, <1>3, <1>4, <1>5
        <3>3. QED BY <3>1, <3>2, <1>9
    <2>5. CASE j > k /\ i < k
        <3>1. i \in 1 .. n /\ j - 1 \in 1 .. n /\ i < j - 1
            BY <2>5, <1>3, <1>4
        <3>2. pendingTimers'[i] = pendingTimers[i]
            BY <2>5, <1>5
        <3>3. pendingTimers'[j] = pendingTimers[j - 1]
            BY <2>5, <1>3, <1>4, <1>5
        <3>4. QED BY <3>1, <3>2, <3>3, <2>1
    <2>6. CASE j > k /\ i > k
        <3>1. i - 1 \in 1 .. n /\ j - 1 \in 1 .. n /\ i - 1 < j - 1
            BY <2>6, <1>3, <1>4
        <3>2. pendingTimers'[i] = pendingTimers[i - 1]
            BY <2>6, <1>3, <1>4, <1>5
        <3>3. pendingTimers'[j] = pendingTimers[j - 1]
            BY <2>6, <1>3, <1>4, <1>5
        <3>4. QED BY <3>1, <3>2, <3>3, <2>1
    <2>7. QED BY <2>2, <2>3, <2>4, <2>5, <2>6, <1>3, <1>4
<1>11. OwnRefs(pendingTimers')
    <2> SUFFICES ASSUME NEW i \in 1 .. n + 1, NEW j \in 1 .. n + 1, i < j
                 PROVE  pendingTimers'[i].ref # pendingTimers'[j].ref
        BY <1>5, <1>3 DEF OwnRefs
    <2>1. \A a, b \in 1 .. n : a # b => pendingTimers[a].ref # pendingTimers[b].ref
        BY DEF TimersInv, OwnRefs
    <2> DEFINE from(a) == IF a < k THEN a ELSE a - 1
    <2>2. CASE i # k /\ j # k
        <3>1. from(i) \in 1 .. n /\ from(j) \in 1 .. n /\ from(i) # from(j)
            BY <2>2, <1>3, <1>4
        <3>2. pendingTimers'[i] = pendingTimers[from(i)] /\ pendingTimers'[j] = pendingTimers[from(j)]
            BY <2>2, <1>5, <1>4
        <3>3. QED BY <3>1, <3>2, <2>1
    <2>3. CASE i = k
        <3>1. j - 1 \in 1 .. n /\ pendingTimers'[j] = pendingTimers[j - 1] /\ pendingTimers'[i] = new
            BY <2>3, <1>3, <1>4, <1>5
        <3>2. QED BY <3>1, <1>6, <1>7
    <2>4. CASE j = k
        <3>1. i \in 1 .. n /\ pendingTimers'[i] = pendingTimers[i] /\ pendingTimers'[j] = new
            BY <2>4, <1>3, <1>4, <1>5
        <3>2. QED BY <3>1, <1>6, <1>7
    <2>5. QED BY <2>2, <2>3, <2>4
<1>12. OldIds(pendingTimers', nextTimer')
    <2>1. nextTimer' = nextTimer + 1
        BY DEF TimerCmd
    <2> SUFFICES ASSUME NEW j \in 1 .. n + 1 PROVE pendingTimers'[j].id < nextTimer + 1
        BY <1>5, <2>1 DEF OldIds
    <2>2. CASE j = k
        BY <2>2, <1>2, <1>5, <1>6
    <2>3. CASE j < k
        <3>1. j \in 1 .. n /\ pendingTimers'[j] = pendingTimers[j]
            BY <2>3, <1>3, <1>4, <1>5
        <3>2. QED BY <3>1, <1>2, <1>7
    <2>4. CASE j > k
        <3>1. j - 1 \in 1 .. n /\ pendingTimers'[j] = pendingTimers[j - 1]
            BY <2>4, <1>3, <1>4, <1>5
        <3>2. QED BY <3>1, <1>2, <1>7
    <2>5. QED BY <2>2, <2>3, <2>4, <1>4, <1>3
<1>13. RunsFirst'
    <2>1. UNCHANGED <<timerLoop, currentExecTimer, now>>
        BY DEF TimerCmd
    <2>2. CASE timerLoop = "running"
        <3>1. n >= 1 /\ pendingTimers[1].time <= now /\ pendingTimers[1].ref = currentExecTimer
            BY <2>2, <1>3 DEF TimersInv, RunsFirst
        <3>2. k # 1
            BY <3>1, <1>1, <1>2, <1>4, <1>7
        <3>3. pendingTimers'[1] = pendingTimers[1] /\ pendingTimers' # <<>>
            BY <3>1, <3>2, <1>3, <1>4, <1>5
        <3>4. QED BY <2>1, <2>2, <3>1, <3>3 DEF TimersInv, RunsFirst
    <2>3. QED BY <2>1, <2>2 DEF TimersInv, RunsFirst
<1>14. TimersTypeOK'
    <2>1. /\ pendingTimers' \in Seq([id: Nat, time: Nat, ref: Refs])
          /\ nextTimer' \in Nat \ {0} /\ lastTimer' \in [what: LastWhat, id: Nat]
        BY <1>2, <1>5 DEF TimerCmd, Timer, LastWhat
    <2>2. QED BY <2>1 DEF TimerCmd, TimersInv, TimersTypeOK
<1>15. looked' <= now'
    BY DEF TimerCmd, TimersInv
<1>16. QED BY <1>10, <1>11, <1>12, <1>13, <1>14, <1>15 DEF TimersInv

\* Without one of its timers the list is as it should be.
LEMMA ShorterIsRight ==
    ASSUME TimersInv, NEW i \in 1 .. Len(pendingTimers), pendingTimers' = RemovedFrom(i),
           nextTimer' = nextTimer
    PROVE  /\ pendingTimers' \in Seq(Timer) /\ InOrder(pendingTimers') /\ OwnRefs(pendingTimers')
           /\ OldIds(pendingTimers', nextTimer')
<1> DEFINE n == Len(pendingTimers)
           from(j) == IF j < i THEN j ELSE j + 1
<1>1. pendingTimers \in Seq(Timer) /\ n \in Nat
    BY DEF TimersInv, TimersTypeOK, Timer
<1>2. /\ pendingTimers' \in Seq(Timer) /\ Len(pendingTimers') = n - 1
      /\ \A j \in 1 .. n - 1 : pendingTimers'[j] = pendingTimers[from(j)]
    BY <1>1, Removal
<1>3. \A j \in 1 .. n - 1 : from(j) \in 1 .. n
    BY <1>1
<1>4. \A j, k \in 1 .. n - 1 : j < k => from(j) < from(k)
    BY <1>1
<1>5. \A j, k \in 1 .. n - 1 : j # k => from(j) # from(k)
    BY <1>1
<1> HIDE DEF from
<1>6. InOrder(pendingTimers')
    <2> SUFFICES ASSUME NEW j \in 1 .. n - 1, NEW k \in 1 .. n - 1, j < k
                 PROVE  Earlier(pendingTimers'[j], pendingTimers'[k])
        BY <1>2 DEF InOrder
    <2>1. from(j) \in 1 .. n /\ from(k) \in 1 .. n /\ from(j) < from(k)
        BY <1>3, <1>4
    <2>2. Earlier(pendingTimers[from(j)], pendingTimers[from(k)])
        BY <2>1 DEF TimersInv, InOrder
    <2>3. pendingTimers'[j] = pendingTimers[from(j)] /\ pendingTimers'[k] = pendingTimers[from(k)]
        BY <1>2
    <2>4. QED BY <2>2, <2>3
<1>7. OwnRefs(pendingTimers')
    <2> SUFFICES ASSUME NEW j \in 1 .. n - 1, NEW k \in 1 .. n - 1, j # k
                 PROVE  pendingTimers'[j].ref # pendingTimers'[k].ref
        BY <1>2 DEF OwnRefs
    <2>1. from(j) \in 1 .. n /\ from(k) \in 1 .. n /\ from(j) # from(k)
        BY <1>3, <1>5
    <2>2. pendingTimers[from(j)].ref # pendingTimers[from(k)].ref
        BY <2>1 DEF TimersInv, OwnRefs
    <2>3. pendingTimers'[j] = pendingTimers[from(j)] /\ pendingTimers'[k] = pendingTimers[from(k)]
        BY <1>2
    <2>4. QED BY <2>2, <2>3
<1>8. OldIds(pendingTimers', nextTimer')
    BY <1>2, <1>3 DEF TimersInv, OldIds
<1>9. QED BY <1>2, <1>6, <1>7, <1>8

\* A timer is deleted (/TIMER -DELETE).
LEMMA TimerDeleteInv ==
    ASSUME TimersInv, TimerDelete PROVE TimersInv'
<1>1. PICK i \in 1 .. Len(pendingTimers) :
         /\ pendingTimers' = RemovedFrom(i)
         /\ lastTimer' = [what |-> "taken", id |-> pendingTimers[i].id]
    BY DEF TimerDelete
<1>2. pendingTimers[i].id \in Nat
    BY Listed DEF TimersInv
<1>3. /\ pendingTimers' \in Seq(Timer) /\ InOrder(pendingTimers') /\ OwnRefs(pendingTimers')
      /\ OldIds(pendingTimers', nextTimer')
    BY <1>1, ShorterIsRight DEF TimerDelete
<1>4. TimersTypeOK'
    BY <1>1, <1>2, <1>3 DEF TimerDelete, TimersInv, TimersTypeOK, Timer, LastWhat
<1>5. RunsFirst' /\ looked' <= now'
    BY DEF TimerDelete, TimersInv, RunsFirst
<1>6. QED BY <1>3, <1>4, <1>5 DEF TimersInv

\* The timer that ran leaves the list (execute_timer()).
LEMMA TimerRanInv ==
    ASSUME TimersInv, TimerRan PROVE TimersInv'
<1>1. 1 \in 1 .. Len(pendingTimers)
    BY DEF TimerRan, TimersInv, TimersTypeOK, RunsFirst
<1>2. /\ pendingTimers' \in Seq(Timer) /\ InOrder(pendingTimers') /\ OwnRefs(pendingTimers')
      /\ OldIds(pendingTimers', nextTimer')
    BY <1>1, ShorterIsRight DEF TimerRan
<1>3. TimersTypeOK'
    BY <1>2 DEF TimerRan, TimersInv, TimersTypeOK, Timer, LoopPlace, NoTimer
<1>4. RunsFirst' /\ looked' <= now'
    BY DEF TimerRan, TimersInv, RunsFirst
<1>5. QED BY <1>2, <1>3, <1>4 DEF TimersInv

\* The invariant holds in every state.
LEMMA TimersInvHolds == TimersSpec => []TimersInv
<1>1. TimersInit => TimersInv
    BY TimersAssumption DEF TimersInit, TimersInv, TimersTypeOK, InOrder, OwnRefs, OldIds, RunsFirst, LoopPlace,
       LastWhat, NoTimer
<1>2. TimersInv /\ [TimersNext]_timersVars => TimersInv'
    <2> SUFFICES ASSUME TimersInv, [TimersNext]_timersVars PROVE TimersInv'
        OBVIOUS
    <2>1. CASE Select
        <3>1. deadline' \in Nat
            BY <2>1, SleepsType DEF Select
        <3>2. QED BY <2>1, <3>1 DEF Select, TimersInv, TimersTypeOK, RunsFirst, LoopPlace
    <2>2. CASE \E b \in BOOLEAN : SelectEnds(b)
        BY <2>2 DEF SelectEnds, TimersInv, TimersTypeOK, RunsFirst, LoopPlace
    <2>3. CASE SelectReady
        BY <2>3 DEF SelectReady, TimersInv, TimersTypeOK, RunsFirst, LoopPlace
    <2>4. CASE Served
        BY <2>4 DEF Served, TimersInv, TimersTypeOK, RunsFirst, LoopPlace
    <2>5. CASE TimerRuns
        <3>1. pendingTimers # <<>> /\ pendingTimers[1].time <= looked
            BY <2>5, DueIsDue DEF TimerRuns, FirstIsDue
        <3>2. pendingTimers[1] \in Timer
            BY <3>1, Listed DEF TimersInv
        <3>3. TimersTypeOK'
            BY <2>5, <3>2 DEF TimerRuns, TimersInv, TimersTypeOK, Timer, LoopPlace, LastWhat
        <3>4. pendingTimers[1].time <= now
            BY <3>1, <3>2 DEF TimersInv, TimersTypeOK, Timer
        <3>5. RunsFirst'
            BY <2>5, <3>1, <3>2, <3>4 DEF TimerRuns, RunsFirst, Timer, Refs, NoTimer
        <3>6. QED BY <2>5, <3>3, <3>5 DEF TimerRuns, TimersInv
    <2>6. CASE TimerRan
        BY <2>6, TimerRanInv
    <2>7. CASE TimersDone
        BY <2>7 DEF TimersDone, TimersInv, TimersTypeOK, RunsFirst, LoopPlace
    <2>8. CASE TimerCmd
        BY <2>8, TimerCmdInv
    <2>9. CASE TimerDelete
        BY <2>9, TimerDeleteInv
    <2>10. CASE Quits
        BY <2>10 DEF Quits, TimersInv, TimersTypeOK, RunsFirst, LoopPlace
    <2>11. CASE Tick
        <3>1. now \in Nat /\ looked \in Nat /\ now' = now + 1
            BY <2>11 DEF Tick, TimersInv, TimersTypeOK
        <3>2. looked' <= now' /\ TimersTypeOK'
            BY <2>11, <3>1 DEF Tick, TimersInv, TimersTypeOK
        <3>3. RunsFirst'
            <4>1. pendingTimers # <<>> => pendingTimers[1].time \in Nat
                BY Listed DEF TimersInv
            <4>2. QED BY <2>11, <3>1, <4>1 DEF Tick, TimersInv, RunsFirst
        <3>4. QED BY <2>11, <3>2, <3>3 DEF Tick, TimersInv
    <2>12. CASE UNCHANGED timersVars
        BY <2>12 DEF timersVars, TimersInv, TimersTypeOK, RunsFirst, InOrder, OwnRefs, OldIds
    <2>13. QED BY <2>1, <2>2, <2>3, <2>4, <2>5, <2>6, <2>7, <2>8, <2>9, <2>10, <2>11, <2>12
               DEF TimersNext, LoopStep
<1>3. QED BY <1>1, <1>2, PTL DEF TimersSpec

-----------------------------------------------------------------------------
(* The promise.                                                            *)

Item(x) == [id |-> x.id, due |-> x.time]

\* What is put off is what is listed and does not run.
LEMMA ArmedIs ==
    \A a : a \in Armed <=> \E i \in 1 .. Len(pendingTimers) :
              pendingTimers[i].ref # currentExecTimer /\ a = Item(pendingTimers[i])
BY DEF Armed, Item

\* The same of the list that a step leaves.
LEMMA ArmedIsNext ==
    \A a : a \in Armed' <=> \E i \in 1 .. Len(pendingTimers') :
              pendingTimers'[i].ref # currentExecTimer' /\ a = Item(pendingTimers'[i])
BY DEF Armed, Item

\* No two timers of the list are the same thing put off.
LEMMA ItemsDiffer ==
    ASSUME TimersInv, NEW i \in 1 .. Len(pendingTimers), NEW j \in 1 .. Len(pendingTimers), i # j
    PROVE  Item(pendingTimers[i]) # Item(pendingTimers[j])
<1> DEFINE p == pendingTimers[i]
           q == pendingTimers[j]
<1>1. p.id \in Nat /\ p.time \in Nat /\ q.id \in Nat /\ q.time \in Nat
    BY Listed DEF TimersInv
<1>2. Earlier(p, q) \/ Earlier(q, p)
    BY DEF TimersInv, InOrder
<1> HIDE DEF p, q
<1>3. p.id # q.id \/ p.time # q.time
    BY <1>1, <1>2 DEF Earlier
<1>4. Item(p).id = p.id /\ Item(p).due = p.time /\ Item(q).id = q.id /\ Item(q).due = q.time
    BY DEF Item
<1>5. Item(p) # Item(q)
    BY <1>3, <1>4
<1>6. QED BY <1>5 DEF p, q

\* Without its i-th timer, and with none that runs, the list puts off one thing less.
LEMMA OneLess ==
    ASSUME TimersInv, NEW i \in 1 .. Len(pendingTimers),
           Len(pendingTimers') = Len(pendingTimers) - 1,
           \A j \in 1 .. Len(pendingTimers) - 1 :
              pendingTimers'[j] = IF j < i THEN pendingTimers[j] ELSE pendingTimers[j + 1],
           currentExecTimer = NoTimer, currentExecTimer' = NoTimer
    PROVE  Armed' = Armed \ {Item(pendingTimers[i])}
<1> DEFINE n == Len(pendingTimers)
<1>1. n \in Nat /\ \A j \in 1 .. n : pendingTimers[j].ref # NoTimer
    BY Listed DEF TimersInv, Refs, NoTimer
<1>2. \A a : a \in Armed' <=> a \in Armed /\ a # Item(pendingTimers[i])
    <2> SUFFICES ASSUME NEW a
                 PROVE  a \in Armed' <=> a \in Armed /\ a # Item(pendingTimers[i])
        OBVIOUS
    <2>1. ASSUME a \in Armed' PROVE a \in Armed /\ a # Item(pendingTimers[i])
        <3>1. PICK j \in 1 .. n - 1 : a = Item(pendingTimers'[j])
            BY <2>1, ArmedIsNext
        <3>2. \E m \in 1 .. n : m # i /\ a = Item(pendingTimers[m])
            BY <3>1, <1>1
        <3>3. QED BY <3>2, <1>1, ArmedIs, ItemsDiffer
    <2>2. ASSUME a \in Armed, a # Item(pendingTimers[i]) PROVE a \in Armed'
        <3>1. PICK m \in 1 .. n : a = Item(pendingTimers[m])
            BY <2>2, ArmedIs
        <3>2. m # i
            BY <3>1, <2>2
        <3>3. PICK j \in 1 .. n - 1 : pendingTimers'[j] = pendingTimers[m]
            <4>1. CASE m < i
                <5>1. m \in 1 .. n - 1
                    BY <4>1, <1>1
                <5>2. QED BY <4>1, <5>1
            <4>2. CASE m > i
                <5>1. m - 1 \in 1 .. n - 1 /\ ~(m - 1 < i) /\ (m - 1) + 1 = m
                    BY <4>2, <1>1
                <5>2. pendingTimers'[m - 1] = pendingTimers[m]
                    BY <5>1
                <5>3. QED BY <5>1, <5>2
            <4>3. QED BY <4>1, <4>2, <3>2, <1>1
        <3>4. pendingTimers'[j].ref # currentExecTimer' /\ a = Item(pendingTimers'[j])
            BY <3>1, <3>3, <1>1
        <3>5. QED BY <3>4, ArmedIsNext
    <2>3. QED BY <2>1, <2>2
<1>3. QED BY <1>2

\* TIMER puts off one thing more: the reference it gives is not that of what runs.
LEMMA CommandArms ==
    ASSUME TimersInv, TimerCmd PROVE Promise!Arm
<1> DEFINE n == Len(pendingTimers)
<1>1. PICK k \in 1 .. n + 1, new \in Timer :
         /\ new.id = nextTimer /\ now <= new.time
         /\ \A j \in 1 .. n : pendingTimers[j].ref # new.ref
         /\ Len(pendingTimers') = n + 1
         /\ \A j \in 1 .. n + 1 : pendingTimers'[j] =
               IF j < k THEN pendingTimers[j] ELSE IF j = k THEN new ELSE pendingTimers[j - 1]
    BY Put
<1>2. n \in Nat /\ currentExecTimer' = currentExecTimer /\ now' = now
    BY Listed DEF TimersInv, TimerCmd
<1>3. new.ref # currentExecTimer
    <2>1. CASE timerLoop = "ready"
        BY <2>1, TimerParts DEF TimersInv, RunsFirst, Refs, NoTimer
    <2>2. CASE timerLoop = "running"
        <3>1. 1 \in 1 .. n /\ pendingTimers[1].ref = currentExecTimer
            BY <2>2, Listed DEF TimersInv, RunsFirst
        <3>2. QED BY <3>1, <1>1
    <2>3. QED BY <2>1, <2>2 DEF TimerCmd
<1>4. \A a : a \in Armed' <=> a \in Armed \/ a = Item(new)
    <2> SUFFICES ASSUME NEW a PROVE a \in Armed' <=> a \in Armed \/ a = Item(new)
        OBVIOUS
    <2>1. ASSUME a \in Armed' PROVE a \in Armed \/ a = Item(new)
        <3>1. PICK i \in 1 .. n + 1 : /\ pendingTimers'[i].ref # currentExecTimer
                                     /\ a = Item(pendingTimers'[i])
            BY <2>1, <1>1, <1>2, ArmedIsNext
        <3>2. CASE i = k
            BY <3>1, <3>2, <1>1
        <3>3. CASE i < k
            <4>1. i \in 1 .. n /\ pendingTimers'[i] = pendingTimers[i]
                BY <3>3, <1>1, <1>2
            <4>2. QED BY <4>1, <3>1, ArmedIs
        <3>4. CASE i > k
            <4>1. i - 1 \in 1 .. n /\ pendingTimers'[i] = pendingTimers[i - 1]
                BY <3>4, <1>1, <1>2
            <4>2. QED BY <4>1, <3>1, ArmedIs
        <3>5. QED BY <3>2, <3>3, <3>4, <1>2
    <2>2. ASSUME a \in Armed PROVE a \in Armed'
        <3>1. PICK i \in 1 .. n : /\ pendingTimers[i].ref # currentExecTimer
                                 /\ a = Item(pendingTimers[i])
            BY <2>2, ArmedIs
        <3>2. \E j \in 1 .. n + 1 : pendingTimers'[j] = pendingTimers[i]
            <4>1. CASE i < k
                BY <4>1, <1>1, <1>2
            <4>2. CASE ~(i < k)
                <5>1. i + 1 \in 1 .. n + 1 /\ i + 1 > k /\ (i + 1) - 1 = i
                    BY <4>2, <1>2
                <5>2. pendingTimers'[i + 1] = pendingTimers[(i + 1) - 1]
                    BY <5>1, <1>1, <1>2
                <5>3. QED BY <5>1, <5>2
            <4>3. QED BY <4>1, <4>2
        <3>3. QED BY <3>1, <3>2, <1>1, <1>2, ArmedIsNext
    <2>3. ASSUME a = Item(new) PROVE a \in Armed'
        <3>1. k \in 1 .. n + 1 /\ pendingTimers'[k] = new
            BY <1>1, <1>2
        <3>2. QED BY <3>1, <2>3, <1>1, <1>2, <1>3, ArmedIsNext
    <2>4. QED BY <2>1, <2>2, <2>3
<1>5. Armed' = Armed \cup {Item(new)}
    BY <1>4
<1>6. Item(new).id = nextTimer /\ now <= Item(new).due
    BY <1>1 DEF Item
<1>7. QED BY <1>5, <1>6, <1>2 DEF Promise!Arm, TimerCmd

\* TIMER -DELETE takes back one thing: no timer runs.
LEMMA DeleteCancels ==
    ASSUME TimersInv, TimerDelete PROVE Promise!Cancel
<1> DEFINE n == Len(pendingTimers)
<1>1. PICK i \in 1 .. n :
         /\ pendingTimers' = RemovedFrom(i)
         /\ lastTimer' = [what |-> "taken", id |-> pendingTimers[i].id]
    BY DEF TimerDelete
<1>2. pendingTimers \in Seq(Timer) /\ n \in Nat
    BY Listed DEF TimersInv
<1>3. /\ Len(pendingTimers') = n - 1
      /\ \A j \in 1 .. n - 1 :
            pendingTimers'[j] = IF j < i THEN pendingTimers[j] ELSE pendingTimers[j + 1]
    BY <1>1, <1>2, Removal
<1>4. /\ currentExecTimer = NoTimer /\ currentExecTimer' = NoTimer
      /\ \A j \in 1 .. n : pendingTimers[j].ref # NoTimer
    BY Listed DEF TimerDelete, TimersInv, Refs, NoTimer
<1>5. Armed' = Armed \ {Item(pendingTimers[i])}
    BY <1>2, <1>3, <1>4, OneLess
<1>6. Item(pendingTimers[i]) \in Armed /\ Item(pendingTimers[i]).id = pendingTimers[i].id
    BY <1>4, ArmedIs DEF Item
<1>7. QED BY <1>1, <1>5, <1>6 DEF Promise!Cancel, TimerDelete

\* execute_timer() runs the first of the list, which is the earliest and due.
LEMMA RunFires ==
    ASSUME TimersInv, TimerRuns PROVE Promise!Fire
<1> DEFINE n == Len(pendingTimers)
           head == pendingTimers[1]
<1>1. n \in Nat /\ 1 \in 1 .. n /\ head.time \in Nat
    BY Listed DEF TimersInv, TimerRuns, FirstIsDue
<1>2. head.time <= now
    <2>1. head.time <= looked
        BY DueIsDue DEF TimerRuns
    <2>2. looked \in Nat /\ now \in Nat /\ looked <= now
        BY DEF TimersInv, TimersTypeOK
    <2>3. QED BY <2>1, <2>2, <1>1
<1>3. /\ currentExecTimer = NoTimer
      /\ \A j \in 1 .. n : pendingTimers[j].ref # NoTimer
    BY Listed DEF TimerRuns, TimersInv, RunsFirst, Refs, NoTimer
<1>4. currentExecTimer' = head.ref /\ pendingTimers' = pendingTimers
    BY DEF TimerRuns
<1>5. \A j \in 1 .. n : j # 1 => pendingTimers[j].ref # head.ref
    BY <1>1 DEF TimersInv, OwnRefs
<1>6. Item(head) \in Armed /\ Item(head).id = head.id /\ Item(head).due = head.time
    BY <1>1, <1>3, ArmedIs DEF Item
<1>7. \A b \in Armed \ {Item(head)} : Promise!Before(Item(head), b)
    <2> SUFFICES ASSUME NEW b \in Armed, b # Item(head) PROVE Promise!Before(Item(head), b)
        OBVIOUS
    <2>1. PICK j \in 1 .. n : b = Item(pendingTimers[j])
        BY ArmedIs
    <2>2. j # 1
        BY <2>1
    <2>3. Earlier(head, pendingTimers[j])
        BY <1>1, <2>2 DEF TimersInv, InOrder
    <2>4. b.id = pendingTimers[j].id /\ b.due = pendingTimers[j].time
        BY <2>1 DEF Item
    <2>5. QED BY <2>3, <2>4, <1>6 DEF Promise!Before, Earlier
<1>8. \A a : a \in Armed' <=> a \in Armed /\ a # Item(head)
    <2> SUFFICES ASSUME NEW a PROVE a \in Armed' <=> a \in Armed /\ a # Item(head)
        OBVIOUS
    <2>1. ASSUME a \in Armed' PROVE a \in Armed /\ a # Item(head)
        <3>1. PICK i \in 1 .. n : pendingTimers[i].ref # head.ref /\ a = Item(pendingTimers[i])
            BY <2>1, <1>4, ArmedIsNext
        <3>2. i # 1
            BY <3>1
        <3>3. QED BY <3>1, <3>2, <1>1, <1>3, ArmedIs, ItemsDiffer
    <2>2. ASSUME a \in Armed, a # Item(head) PROVE a \in Armed'
        <3>1. PICK i \in 1 .. n : a = Item(pendingTimers[i])
            BY <2>2, ArmedIs
        <3>2. i # 1
            BY <3>1, <2>2
        <3>3. QED BY <3>1, <3>2, <1>4, <1>5, ArmedIsNext
    <2>3. QED BY <2>1, <2>2
<1>9. Armed' = Armed \ {Item(head)}
    BY <1>8
<1>10. QED BY <1>2, <1>6, <1>7, <1>9 DEF Promise!Fire, TimerRuns

\* What has run is taken from the list: it was not put off any more.
LEMMA RanStutters ==
    ASSUME TimersInv, TimerRan PROVE UNCHANGED Promise!alarmVars
<1> DEFINE n == Len(pendingTimers)
<1>1. /\ pendingTimers \in Seq(Timer) /\ n \in Nat /\ 1 \in 1 .. n
      /\ \A j \in 1 .. n : pendingTimers[j].ref # NoTimer
    BY Listed DEF TimersInv, RunsFirst, TimerRan, Refs, NoTimer
<1>2. /\ Len(pendingTimers') = n - 1
      /\ \A j \in 1 .. n - 1 : pendingTimers'[j] = pendingTimers[j + 1]
  <2>1. /\ Len(RemovedFrom(1)) = n - 1
        /\ \A j \in 1 .. n - 1 :
              RemovedFrom(1)[j] = IF j < 1 THEN pendingTimers[j] ELSE pendingTimers[j + 1]
    BY <1>1, Removal
  <2>2. pendingTimers' = RemovedFrom(1) BY DEF TimerRan
  <2>3. \A j \in 1 .. n - 1 : ~(j < 1) OBVIOUS
  <2> QED BY <2>1, <2>2, <2>3
<1>3. \A j \in 1 .. n : pendingTimers[j].ref = currentExecTimer <=> j = 1
    BY <1>1 DEF TimersInv, RunsFirst, OwnRefs, TimerRan
<1>4. currentExecTimer' = NoTimer
    BY DEF TimerRan
<1>5. \A a : a \in Armed' <=> a \in Armed
    <2> SUFFICES ASSUME NEW a PROVE a \in Armed' <=> a \in Armed
        OBVIOUS
    <2>1. ASSUME a \in Armed' PROVE a \in Armed
        <3>1. PICK i \in 1 .. n - 1 : a = Item(pendingTimers'[i])
            BY <2>1, <1>2, ArmedIsNext
        <3>2. i + 1 \in 1 .. n /\ i + 1 # 1 /\ a = Item(pendingTimers[i + 1])
            BY <3>1, <1>1, <1>2
        <3>3. QED BY <3>2, <1>3, ArmedIs
    <2>2. ASSUME a \in Armed PROVE a \in Armed'
        <3>1. PICK i \in 1 .. n : /\ pendingTimers[i].ref # currentExecTimer
                                 /\ a = Item(pendingTimers[i])
            BY <2>2, ArmedIs
        <3>2. i # 1
            BY <3>1, <1>3
        <3>3. i - 1 \in 1 .. n - 1 /\ (i - 1) + 1 = i
            BY <3>2, <1>1
        <3>4. pendingTimers'[i - 1] = pendingTimers[i]
            BY <3>3, <1>2
        <3>5. pendingTimers'[i - 1].ref # currentExecTimer' /\ a = Item(pendingTimers'[i - 1])
            BY <3>1, <3>4, <1>1, <1>4
        <3>6. QED BY <3>3, <3>5, <1>2, ArmedIsNext
    <2>3. QED BY <2>1, <2>2
<1>6. Armed' = Armed
    BY <1>5
<1>7. QED BY <1>6 DEF TimerRan, Promise!alarmVars

\* Every timer runs once, not before its time, the earliest first, unless it is deleted
\* (edit.c, timercmd(), execute_timer(), delete_timer()): the list implements Alarms.
THEOREM TimersRefineAlarms == TimersSpec => TimersKeepPromise
<1>1. TimersInit => Promise!AlarmsInit
    <2> SUFFICES ASSUME TimersInit PROVE Promise!AlarmsInit
        OBVIOUS
    <2>1. Len(pendingTimers) = 0
        BY DEF TimersInit
    <2>2. Armed = {}
        BY <2>1 DEF Armed
    <2>3. QED BY <2>2 DEF TimersInit, Promise!AlarmsInit
<1>2. TimersInv /\ [TimersNext]_timersVars => [Promise!AlarmsNext]_(Promise!alarmVars)
    <2> SUFFICES ASSUME TimersInv, [TimersNext]_timersVars
                 PROVE  Promise!AlarmsNext \/ UNCHANGED Promise!alarmVars
        OBVIOUS
    <2>1. ASSUME UNCHANGED <<pendingTimers, currentExecTimer>> PROVE Armed' = Armed
        BY <2>1 DEF Armed
    <2>2. CASE Select
        BY <2>1, <2>2 DEF Select, Promise!alarmVars
    <2>3. CASE \E b \in BOOLEAN : SelectEnds(b)
        BY <2>1, <2>3 DEF SelectEnds, Promise!alarmVars
    <2>4. CASE SelectReady \/ Served
        BY <2>1, <2>4 DEF SelectReady, Served, Promise!alarmVars
    <2>5. CASE TimersDone \/ Quits
        BY <2>1, <2>5 DEF TimersDone, Quits, Promise!alarmVars
    <2>6. CASE TimerRuns
        BY <2>6, RunFires DEF Promise!AlarmsNext
    <2>7. CASE TimerRan
        BY <2>7, RanStutters
    <2>8. CASE TimerCmd
        BY <2>8, CommandArms DEF Promise!AlarmsNext
    <2>9. CASE TimerDelete
        BY <2>9, DeleteCancels DEF Promise!AlarmsNext
    <2>10. CASE Tick
        <3>1. now < now' /\ UNCHANGED <<pendingTimers, currentExecTimer, nextTimer, lastTimer>>
            BY <2>10 DEF Tick, TimersInv, TimersTypeOK
        <3>2. QED BY <3>1, <2>1 DEF Promise!Advance, Promise!AlarmsNext
    <2>11. CASE UNCHANGED timersVars
        BY <2>1, <2>11 DEF timersVars, Promise!alarmVars
    <2>12. QED BY <2>2, <2>3, <2>4, <2>5, <2>6, <2>7, <2>8, <2>9, <2>10, <2>11
               DEF TimersNext, LoopStep
<1>3. QED BY <1>1, <1>2, TimersInvHolds, PTL DEF TimersSpec, TimersKeepPromise, Promise!AlarmsSpec

-----------------------------------------------------------------------------
(* How long the loop sleeps.                                               *)

\* With a timer in the list select() gives up less than a second after it is due: when
\* timer_timeout() borrows a second it is late by twice what the parts differ, less a second.
LEMMA SleepBound ==
    ASSUME TimersInv, pendingTimers # <<>>,
           NEW most \in {1, ClockSeconds}, NEW heldOver \in BOOLEAN
    PROVE  \/ now + Sleeps(most, heldOver) < pendingTimers[1].time + PerSecond
           \/ now + Sleeps(most, heldOver) = now
<1> DEFINE first == pendingTimers[1].time
           P == PerSecond
           s0 == Sec(now)
           s1 == Sec(first)
           p0 == Part(now)
           p1 == Part(first)
<1>1. P \in Nat \ {0} /\ most \in Nat /\ now \in Nat /\ first \in Nat
    BY Listed, TimersAssumption DEF TimersInv, TimersTypeOK
<1>2. /\ s0 \in Nat /\ s1 \in Nat /\ p0 \in 0 .. P - 1 /\ p1 \in 0 .. P - 1
      /\ now = P * s0 + p0 /\ first = P * s1 + p1
    <2> HIDE DEF first
    <2>1. QED BY <1>1, SecAndPart DEF Sec, Part
<1>3. CASE heldOver \/ first < now
    <2>1. CASE heldOver
        BY <2>1, <1>1 DEF Sleeps
    <2>2. CASE first < now
        <3>1. TimerTimeout = [sec |-> 0, part |-> 0]
            BY <2>2 DEF TimerTimeout
        <3>2. TimerTimeout.sec * P + TimerTimeout.part = 0 /\ TimerTimeout.sec <= most
            BY <3>1, <1>1
        <3>3. QED BY <3>2, <1>1 DEF Sleeps
    <2>3. QED BY <1>3, <2>1, <2>2
<1>4. CASE ~heldOver /\ ~(first < now) /\ p1 >= p0
    <2>1. TimerTimeout.sec = s1 - s0 /\ TimerTimeout.part = p1 - p0
        BY <1>4 DEF TimerTimeout
    <2> HIDE DEF s0, s1, p0, p1, P, first
    <2>2. (s1 - s0) * P = P * s1 - P * s0 /\ P * s0 \in Nat /\ P * s1 \in Nat
        BY <1>1, <1>2
    <2>3. CASE s1 - s0 <= most
        <3>1. Sleeps(most, heldOver) = (s1 - s0) * P + (p1 - p0)
            BY <1>4, <2>1, <2>3 DEF Sleeps, P
        <3>2. now + Sleeps(most, heldOver) = first
            BY <3>1, <2>2, <1>1, <1>2
        <3>3. QED BY <3>2, <1>1 DEF first, P
    <2>4. CASE ~(s1 - s0 <= most)
        <3>1. Sleeps(most, heldOver) = most * P
            BY <1>4, <2>1, <2>4 DEF Sleeps, P
        <3>2. s1 - s0 - most \in Nat
            BY <2>4, <1>1, <1>2
        <3>3. P * (s1 - s0 - most) \in Nat
            BY <3>2, <1>1
        <3>4. P * (s1 - s0 - most) = P * s1 - P * s0 - most * P /\ most * P \in Nat
            BY <1>1, <1>2
        <3>5. now + most * P < first + P
            BY <3>3, <3>4, <2>2, <1>1, <1>2
        <3>6. QED BY <3>1, <3>5 DEF first, P
    <2>5. QED BY <2>3, <2>4
<1>5. CASE ~heldOver /\ ~(first < now) /\ ~(p1 >= p0)
    <2>1. TimerTimeout.sec = s1 - s0 - 1 /\ TimerTimeout.part = p0 - p1
        BY <1>5 DEF TimerTimeout
    <2> HIDE DEF s0, s1, p0, p1, P, first
    <2>2. (s1 - s0 - 1) * P = P * s1 - P * s0 - P /\ P * s0 \in Nat /\ P * s1 \in Nat
        BY <1>1, <1>2
    <2>3. CASE s1 - s0 - 1 <= most
        <3>1. Sleeps(most, heldOver) = (s1 - s0 - 1) * P + (p0 - p1)
            BY <1>5, <2>1, <2>3 DEF Sleeps, P
        <3>2. now + Sleeps(most, heldOver) = first + 2 * (p0 - p1) - P
            BY <3>1, <2>2, <1>1, <1>2
        <3>3. now + Sleeps(most, heldOver) < first + P
            BY <3>2, <1>1, <1>2
        <3>4. QED BY <3>3 DEF first, P
    <2>4. CASE ~(s1 - s0 - 1 <= most)
        <3>1. Sleeps(most, heldOver) = most * P
            BY <1>5, <2>1, <2>4 DEF Sleeps, P
        <3>2. s1 - s0 - 1 - most \in Nat
            BY <2>4, <1>1, <1>2
        <3>3. P * (s1 - s0 - 1 - most) \in Nat
            BY <3>2, <1>1
        <3>4. P * (s1 - s0 - 1 - most) = P * s1 - P * s0 - P - most * P /\ most * P \in Nat
            BY <1>1, <1>2
        <3>5. now + most * P < first + P
            BY <3>3, <3>4, <2>2, <1>1, <1>2
        <3>6. QED BY <3>1, <3>5 DEF first, P
    <2>5. QED BY <2>3, <2>4
<1>6. QED BY <1>3, <1>4, <1>5

\* When a timer is listed, select() is told to give up less than a second after it is due,
\* or at once (edit.c, timer_timeout(); irc.c, irc_io()), for every clock and every wait.
THEOREM SleepsAreShort == TimersSpec => SleepsLessThanASecondLate
<1>1. TimersInv /\ [TimersNext]_timersVars
          => (timerLoop = "top" /\ timerLoop' = "select" /\ pendingTimers # <<>>
                => deadline' < pendingTimers[1].time + PerSecond \/ deadline' = now)
    <2> SUFFICES ASSUME TimersInv, [TimersNext]_timersVars,
                        timerLoop = "top", timerLoop' = "select", pendingTimers # <<>>
                 PROVE  deadline' < pendingTimers[1].time + PerSecond \/ deadline' = now
        OBVIOUS
    <2>1. Select
        BY DEF TimersNext, LoopStep, SelectEnds, SelectReady, Served, TimerRuns, TimerRan, TimersDone,
           TimerCmd, TimerDelete, Quits, Tick, timersVars
    <2>2. PICK most \in {1, ClockSeconds}, heldOver \in BOOLEAN : deadline' = now + Sleeps(most, heldOver)
        BY <2>1 DEF Select
    <2>3. QED BY <2>2, SleepBound
<1>2. QED BY <1>1, TimersInvHolds, PTL DEF TimersSpec, SleepsLessThanASecondLate


-----------------------------------------------------------------------------
(* DCC: what two clients have of the sockets between them.                  *)
(* l, s, o, dk stand for list, sock, offers and disk, and z for the size of *)
(* the file.                                                                *)

Flags == {"WAIT", "ACTIVE", "OFFER", "PEND", "DELETE"}

\* The entry of the peer that an offer becomes, and back.
Partner(k) == CASE k = "chat" -> "chat" [] k = "send" -> "get" [] k = "get" -> "send"

Offered(e) == "OFFER" \in e.flags /\ "ACTIVE" \notin e.flags

Entry == [on: BOOLEAN, flags: SUBSET Flags, port: Nat, fd: Nat, pos: Nat, count: Nat, filesize: Nat]

Types(l, s, o, dk) ==
    /\ l \in [Clients -> [Kinds -> Entry]]
    /\ \E n \in Nat : s \in [1 .. n -> Socket]
    /\ o \in [Clients -> Seq([kind: Kinds, port: Nat, size: Nat])]
    /\ dk \in [Clients -> Seq(Nat)]

\* The descriptor of an entry is that of the socket's owner, or of who called connect().
Owns(c, k, e, t) ==
    /\ t.owner = c /\ t.kind = k /\ k # "get"
    /\ IF "WAIT" \in e.flags THEN "ACTIVE" \notin e.flags /\ t.listens /\ ~t.near
       ELSE "ACTIVE" \in e.flags /\ ~t.listens /\ t.near

Uses(c, k, e, t) ==
    /\ t.owner = Peer(c) /\ t.kind = Partner(k) /\ k # "send"
    /\ "WAIT" \notin e.flags /\ "ACTIVE" \in e.flags /\ t.far

Fits(c, k, e, s) ==
    /\ e.fd # 0 => /\ e.on /\ e.fd \in DOMAIN s
                   /\ Owns(c, k, e, s[e.fd]) \/ Uses(c, k, e, s[e.fd])
    /\ "OFFER" \in e.flags => /\ k # "send" /\ e.port \in DOMAIN s
                              /\ s[e.port].owner = Peer(c) /\ s[e.port].kind = Partner(k)
    /\ k = "get" => "WAIT" \notin e.flags

HasEntry(p, t, l) ==
    /\ t.listens \/ t.near => t.kind # "get" /\ l[t.owner][t.kind].fd = p
    /\ t.far => l[Peer(t.owner)][Partner(t.kind)].fd = p

\* One socket
Stream(t) ==
    /\ ~(t.listens /\ t.near)
    /\ ~t.far => t.toFar = <<>>
    /\ ~t.near => t.toNear = <<>>
    /\ t.kind # "send" => t.toFar = <<>> /\ t.toNear = <<>>
    /\ t.link # "up" => t.toFar = <<>> /\ t.toNear = <<>>
    /\ t.listens => t.toFar = <<>> /\ t.link # "dead" /\ ~t.err
    /\ t.link = "none" => ~t.near /\ ~t.far
    /\ t.near /\ t.kind = "send" => t.link \in {"up", "dead"} /\ (t.err => t.link = "dead")
    /\ Len(t.toFar) <= Block

Queued(d, s, o) ==
    \A i \in DOMAIN o[d] :
        /\ o[d][i].kind \in {"chat", "send"} /\ o[d][i].port \in DOMAIN s
        /\ s[o[d][i].port].owner = Peer(d) /\ s[o[d][i].port].kind = o[d][i].kind

NoFile(d, o) == \A i \in DOMAIN o[d] : o[d][i].kind # "send"

\* The offer of the file that c is sending is the last one, and taken once.
Once(c, l, s, o) ==
    LET p == l[c]["send"].fd
        d == Peer(c)
    IN  p # 0 =>
            /\ \A i, j \in DOMAIN o[d] : o[d][i].kind = "send" /\ o[d][i].port = p /\ j > i => o[d][j].kind # "send"
            /\ Offered(l[d]["get"]) /\ l[d]["get"].port = p => NoFile(d, o)
            /\ s[p].link # "none" => ~Offered(l[d]["get"]) /\ NoFile(d, o) /\ l[d]["get"].fd \in {0, p}

\* What is written, and what is on its way
Written(t, e, g, f) ==
    /\ Len(f) <= e.count /\ \A i \in 1 .. Len(f) : f[i] = i
    /\ t.far => /\ g.count = Len(f) /\ Len(t.toFar) = e.count - Len(f)
                /\ \A i \in 1 .. Len(t.toFar) : t.toFar[i] = Len(f) + i
    /\ \A i \in 1 .. Len(t.toNear) : \E v \in 0 .. Len(f) : t.toNear[i] = v % AckMod

Sent(t, e, g, f, z) ==
    IF "WAIT" \in e.flags
    THEN e.pos = 0 /\ (t.link # "none" => f = <<>> /\ (t.far => g.count = 0))
    ELSE e.pos = e.count /\ e.pos <= z /\ (t.link = "up" => Written(t, e, g, f))

Data(c, l, s, dk, z) ==
    LET e == l[c]["send"]
    IN  e.fd # 0 => Sent(s[e.fd], e, l[Peer(c)]["get"], dk[Peer(c)], z)

Right(l, s, o, dk, z) ==
    /\ Types(l, s, o, dk) /\ z \in Nat
    /\ \A c \in Clients, k \in Kinds : Fits(c, k, l[c][k], s)
    /\ \A p \in DOMAIN s : HasEntry(p, s[p], l) /\ Stream(s[p])
    /\ \A c \in Clients : Queued(c, s, o) /\ Once(c, l, s, o) /\ Data(c, l, s, dk, z)

DccRight == Right(list, sock, offers, disk, size)

-----------------------------------------------------------------------------
\* There are two clients, each the other's peer.
LEMMA TwoClients ==
    /\ \A c \in Clients : Peer(c) \in Clients /\ Peer(c) # c /\ Peer(Peer(c)) = c
    /\ \A c, d \in Clients : c # d => d = Peer(c)
<1>1. PICK a \in Clients : TRUE
  <2>1. Clients # {} BY ClientsAssumption, FS_EmptySet
  <2> QED BY <2>1
<1>2. IsFiniteSet(Clients \ {a}) /\ Cardinality(Clients \ {a}) = 1
  BY <1>1, ClientsAssumption, FS_RemoveElement
<1>3. PICK b \in Clients \ {a} : TRUE
  <2>1. Clients \ {a} # {} BY <1>2, FS_EmptySet
  <2> QED BY <2>1
<1>4. Clients \ {a} = {b}
  <2>1. IsFiniteSet((Clients \ {a}) \ {b}) /\ Cardinality((Clients \ {a}) \ {b}) = 0
    BY <1>2, <1>3, FS_RemoveElement
  <2>2. (Clients \ {a}) \ {b} = {} BY <2>1, FS_EmptySet
  <2> QED BY <1>3, <2>2
<1>5. Clients = {a, b} /\ a # b BY <1>1, <1>3, <1>4
<1>6. Peer(a) = b /\ Peer(b) = a BY <1>5 DEF Peer
<1> QED BY <1>5, <1>6

\* An entry and its offer are of kinds that belong together.
LEMMA Partners ==
    /\ Partner("chat") = "chat" /\ Partner("send") = "get" /\ Partner("get") = "send"
    /\ \A k \in Kinds : Partner(k) \in Kinds /\ Partner(Partner(k)) = k
BY DEF Partner, Kinds

-----------------------------------------------------------------------------
(* Closing.                                                                 *)

\* What a socket may be once c has closed its descriptor of it
Released(t, c, u) ==
    /\ u \in Socket /\ u.owner = t.owner /\ u.kind = t.kind
    /\ IF c = t.owner THEN ~u.listens /\ ~u.near /\ u.far = t.far
       ELSE ~u.far /\ u.listens = t.listens /\ u.near = t.near
    /\ \/ u.link = "dead" /\ u.toFar = <<>> /\ u.toNear = <<>> /\ ~u.listens
       \/ /\ u.link = t.link /\ u.err = t.err /\ u.toNear = t.toNear
          /\ u.toFar = t.toFar \/ u.toFar = <<>>
          /\ ~u.far => u.toFar = <<>>
          /\ ~u.near => u.toNear = <<>>

\* new_close() does that.
LEMMA ClosedIsReleased ==
    ASSUME NEW t \in Socket, Stream(t), NEW c
    PROVE  Released(t, c, ClosedBy(t, c))
<1> DEFINE mine == c = t.owner
           rest == IF mine THEN [t EXCEPT !.listens = FALSE, !.near = FALSE] ELSE [t EXCEPT !.far = FALSE]
           unread == IF mine THEN (t.listens /\ t.link = "up") \/ t.toNear # <<>> ELSE t.toFar # <<>>
<1>1. /\ rest \in Socket /\ rest.owner = t.owner /\ rest.kind = t.kind /\ rest.link = t.link /\ rest.err = t.err
      /\ rest.toFar = t.toFar /\ rest.toNear = t.toNear
      /\ IF mine THEN ~rest.listens /\ ~rest.near /\ rest.far = t.far
         ELSE ~rest.far /\ rest.listens = t.listens /\ rest.near = t.near
  BY DEF Socket
<1>2. ClosedBy(t, c) = IF unread \/ ~(rest.listens \/ rest.near \/ rest.far) THEN Dead(rest) ELSE rest
  BY DEF ClosedBy
<1> HIDE DEF rest
<1>3. /\ Dead(rest) \in Socket /\ Dead(rest).owner = rest.owner /\ Dead(rest).kind = rest.kind
      /\ Dead(rest).link = "dead" /\ Dead(rest).toFar = <<>> /\ Dead(rest).toNear = <<>>
      /\ Dead(rest).listens = rest.listens /\ Dead(rest).near = rest.near /\ Dead(rest).far = rest.far
  BY <1>1, EmptySeq DEF Dead, Socket
<1>4. ~unread => (mine => t.toNear = <<>>) /\ (~mine => t.toFar = <<>>) OBVIOUS
<1>5. ~mine /\ t.listens => t.toFar = <<>> BY DEF Stream
<1>6. (~t.near => t.toNear = <<>>) /\ (~t.far => t.toFar = <<>>) BY DEF Stream
<1>7. CASE unread \/ ~(rest.listens \/ rest.near \/ rest.far)
  <2>1. ClosedBy(t, c) = Dead(rest) BY <1>2, <1>7
  <2>2. ~rest.listens
    <3>1. ~mine /\ t.listens => ~unread BY <1>5
    <3> QED BY <1>1, <1>7, <3>1
  <2> QED BY <1>1, <1>3, <2>1, <2>2 DEF Released
<1>8. CASE ~unread /\ (rest.listens \/ rest.near \/ rest.far)
  <2>1. ClosedBy(t, c) = rest BY <1>2, <1>8
  <2> QED BY <1>1, <1>4, <1>6, <1>8, <2>1 DEF Released
<1> QED BY <1>7, <1>8
\* An entry that has let its descriptor go: it is no offer that it was not before.
Left(k, e, x) ==
    /\ x.fd = 0 /\ (k = "get" => "WAIT" \notin x.flags)
    /\ "OFFER" \in x.flags => "OFFER" \in e.flags /\ x.port = e.port
    /\ Offered(x) => Offered(e)

\* Two entries of a client have different descriptors.
LEMMA OneKind ==
    ASSUME NEW s, NEW c \in Clients, NEW k \in Kinds, NEW m \in Kinds, NEW e, NEW x,
           Fits(c, k, e, s), Fits(c, m, x, s), e.fd # 0, x.fd = e.fd
    PROVE  k = m
<1>1. (Owns(c, k, e, s[e.fd]) \/ Uses(c, k, e, s[e.fd])) /\ (Owns(c, m, x, s[e.fd]) \/ Uses(c, m, x, s[e.fd]))
  BY DEF Fits
<1>2. Owns(c, k, e, s[e.fd]) /\ Owns(c, m, x, s[e.fd]) => k = m BY DEF Owns
<1>3. Uses(c, k, e, s[e.fd]) /\ Uses(c, m, x, s[e.fd]) => k = m
  <2>1. Partner(k) = Partner(m) => k = m BY Partners
  <2> QED BY <2>1 DEF Uses
<1>4. ~(Owns(c, k, e, s[e.fd]) /\ Uses(c, m, x, s[e.fd])) /\ ~(Uses(c, k, e, s[e.fd]) /\ Owns(c, m, x, s[e.fd]))
  BY TwoClients DEF Owns, Uses
<1> QED BY <1>1, <1>2, <1>3, <1>4

\* The parts of Right
LEMMA RightParts ==
    ASSUME NEW l, NEW s, NEW o, NEW dk, NEW z, Right(l, s, o, dk, z)
    PROVE  /\ Types(l, s, o, dk) /\ z \in Nat
           /\ \A c \in Clients, k \in Kinds : Fits(c, k, l[c][k], s) /\ l[c][k] \in Entry
           /\ \A p \in DOMAIN s : HasEntry(p, s[p], l) /\ Stream(s[p]) /\ s[p] \in Socket /\ p \in Nat /\ p # 0
           /\ \A c \in Clients : Queued(c, s, o) /\ Once(c, l, s, o) /\ Data(c, l, s, dk, z)
<1>1. Types(l, s, o, dk) BY DEF Right
<1>2. \A c \in Clients, k \in Kinds : l[c][k] \in Entry BY <1>1 DEF Types
<1>3. \A p \in DOMAIN s : s[p] \in Socket /\ p \in Nat /\ p # 0 BY <1>1 DEF Types
<1> QED BY <1>1, <1>2, <1>3 DEF Right

\* What is left of a socket that was released is right.
LEMMA ReleasedStream ==
    ASSUME NEW t \in Socket, Stream(t), NEW c, NEW u, Released(t, c, u)
    PROVE  Stream(u)
<1>1. u.near => t.near BY DEF Released
<1>2. u.far => t.far BY DEF Released
<1>3. u.listens => t.listens BY DEF Released
<1>4. u.kind = t.kind /\ u \in Socket BY DEF Released
<1>5. Len(<<>>) = 0 /\ 0 <= Block BY SizesAssumption, LenProperties
<1>6. CASE u.link = "dead" /\ u.toFar = <<>> /\ u.toNear = <<>> /\ ~u.listens
  BY <1>5, <1>6 DEF Stream
<1>7. CASE /\ u.link = t.link /\ u.err = t.err /\ u.toNear = t.toNear
           /\ u.toFar = t.toFar \/ u.toFar = <<>>
           /\ ~u.far => u.toFar = <<>>
           /\ ~u.near => u.toNear = <<>>
  <2>1. Len(u.toFar) <= Block BY <1>5, <1>7 DEF Stream
  <2> QED BY <1>1, <1>2, <1>3, <1>4, <1>7, <2>1 DEF Stream
<1> QED BY <1>6, <1>7 DEF Released

\* Entries of c let their descriptors go.
LEMMA LetGo ==
    ASSUME NEW l, NEW s, NEW o, NEW dk, NEW z, Right(l, s, o, dk, z), NEW c \in Clients, NEW l2, NEW s2,
           l2 \in [Clients -> [Kinds -> Entry]], \A d \in Clients : d # c => l2[d] = l[d],
           \A k \in Kinds : l2[c][k] = l[c][k] \/ Left(k, l[c][k], l2[c][k]),
           s2 = [p \in DOMAIN s |-> s2[p]],
           \A p \in DOMAIN s : IF \E k \in Kinds : l[c][k].fd = p /\ l2[c][k].fd = 0
                               THEN Released(s[p], c, s2[p]) ELSE s2[p] = s[p]
    PROVE  Right(l2, s2, o, dk, z)
<1> DEFINE Lets(p) == \E k \in Kinds : l[c][k].fd = p /\ l2[c][k].fd = 0
<1>1. /\ Types(l, s, o, dk) /\ z \in Nat
      /\ \A d \in Clients, k \in Kinds : Fits(d, k, l[d][k], s) /\ l[d][k] \in Entry
      /\ \A p \in DOMAIN s : HasEntry(p, s[p], l) /\ Stream(s[p]) /\ s[p] \in Socket /\ p \in Nat /\ p # 0
      /\ \A d \in Clients : Queued(d, s, o) /\ Once(d, l, s, o) /\ Data(d, l, s, dk, z)
  BY RightParts
<1>2. DOMAIN s2 = DOMAIN s OBVIOUS
<1>3. \A p \in DOMAIN s : (Lets(p) => Released(s[p], c, s2[p])) /\ (~Lets(p) => s2[p] = s[p]) OBVIOUS
<1>4. \A p \in DOMAIN s : s2[p] \in Socket /\ s2[p].owner = s[p].owner /\ s2[p].kind = s[p].kind
  BY <1>1, <1>3 DEF Released
<1>5. \A d \in Clients, k \in Kinds : l2[d][k].fd # 0 => l2[d][k] = l[d][k] BY DEF Left
<1> HIDE DEF Lets
<1>6. Types(l2, s2, o, dk)
  <2>1. PICK n \in Nat : s \in [1 .. n -> Socket] BY <1>1 DEF Types
  <2>2. s2 \in [1 .. n -> Socket] BY <2>1, <1>2, <1>4
  <2> QED BY <1>1, <2>2 DEF Types
<1>7. ASSUME NEW k \in Kinds, l2[c][k].fd # 0 PROVE ~Lets(l2[c][k].fd)
  <2> SUFFICES ASSUME NEW m \in Kinds, l[c][m].fd = l2[c][k].fd, l2[c][m].fd = 0 PROVE FALSE BY DEF Lets
  <2>1. l2[c][k] = l[c][k] BY <1>5, <1>7
  <2>2. Fits(c, k, l[c][k], s) /\ Fits(c, m, l[c][m], s) BY <1>1
  <2>3. k = m BY <1>7, <2>1, <2>2, OneKind
  <2> QED BY <1>7, <2>3
<1>8. ASSUME NEW p \in DOMAIN s, Lets(p)
      PROVE  s[p].owner # c => s[p].far /\ s[p].owner = Peer(c)
  <2>1. PICK k \in Kinds : l[c][k].fd = p /\ l2[c][k].fd = 0 BY <1>8 DEF Lets
  <2>2. Owns(c, k, l[c][k], s[p]) \/ Uses(c, k, l[c][k], s[p]) BY <1>1, <2>1 DEF Fits
  <2> QED BY <2>2 DEF Owns, Uses
<1>9. ASSUME NEW d \in Clients, NEW k \in Kinds PROVE Fits(d, k, l2[d][k], s2)
  <2> DEFINE e == l2[d][k]
             p == e.fd
  <2>1. Fits(d, k, l[d][k], s) BY <1>1
  <2>2. e = l[d][k] \/ (d = c /\ Left(k, l[d][k], e)) OBVIOUS
  <2>3. ASSUME p # 0 PROVE e.on /\ p \in DOMAIN s2 /\ (Owns(d, k, e, s2[p]) \/ Uses(d, k, e, s2[p]))
    <3>1. e = l[d][k] BY <1>5, <2>3
    <3>2. e.on /\ p \in DOMAIN s /\ (Owns(d, k, e, s[p]) \/ Uses(d, k, e, s[p]))
      BY <2>1, <2>3, <3>1 DEF Fits
    <3>3. CASE ~Lets(p) BY <1>2, <1>3, <3>2, <3>3
    <3>4. CASE Lets(p)
      <4>1. d # c BY <1>7, <2>3, <3>4
      <4>2. d = Peer(c) /\ c = Peer(d) BY <4>1, TwoClients
      <4>3. Released(s[p], c, s2[p]) BY <1>3, <3>2, <3>4
      <4> HIDE DEF e, p
      <4>4. Owns(d, k, e, s[p]) => Owns(d, k, e, s2[p]) BY <4>1, <4>3 DEF Owns, Released
      <4>5. Uses(d, k, e, s[p]) => Uses(d, k, e, s2[p]) BY <4>2, <4>3 DEF Uses, Released
      <4> QED BY <1>2, <3>2, <4>4, <4>5
    <3> QED BY <3>3, <3>4
  <2>4. ASSUME "OFFER" \in e.flags
        PROVE  k # "send" /\ e.port \in DOMAIN s2 /\ s2[e.port].owner = Peer(d) /\ s2[e.port].kind = Partner(k)
    <3>1. "OFFER" \in l[d][k].flags /\ l[d][k].port = e.port BY <2>2, <2>4 DEF Left
    <3>2. k # "send" /\ e.port \in DOMAIN s /\ s[e.port].owner = Peer(d) /\ s[e.port].kind = Partner(k)
      BY <2>1, <3>1 DEF Fits
    <3> QED BY <1>2, <1>4, <3>2
  <2>5. k = "get" => "WAIT" \notin e.flags BY <2>1, <2>2 DEF Left, Fits
  <2> HIDE DEF e
  <2>6. Fits(d, k, e, s2) BY <2>3, <2>4, <2>5 DEF Fits
  <2> QED BY <2>6 DEF e
<1>10. ASSUME NEW p \in DOMAIN s PROVE HasEntry(p, s2[p], l2) /\ Stream(s2[p])
  <2>1. HasEntry(p, s[p], l) /\ Stream(s[p]) /\ s[p] \in Socket /\ p # 0 BY <1>1
  <2>2. Stream(s2[p]) BY <1>3, <2>1, ReleasedStream
  <2>3. s2[p] = s[p] \/ Released(s[p], c, s2[p]) BY <1>3
  <2> DEFINE t == s[p]
             u == s2[p]
  <2>4. u.owner = t.owner /\ u.kind = t.kind /\ t.owner \in Clients /\ t.kind \in Kinds BY <1>4, <2>1 DEF Socket
  <2>5. ASSUME u.listens \/ u.near PROVE u.kind # "get" /\ l2[u.owner][u.kind].fd = p
    <3>1. t.listens \/ t.near BY <2>3, <2>5 DEF Released
    <3>2. t.kind # "get" /\ l[t.owner][t.kind].fd = p BY <2>1, <3>1 DEF HasEntry
    <3>3. l2[t.owner][t.kind] = l[t.owner][t.kind]
      <4>1. CASE t.owner # c BY <2>4, <4>1
      <4>2. CASE t.owner = c
        <5>1. ~Released(t, c, u) BY <2>5, <4>2 DEF Released
        <5>2. ~Lets(p) BY <1>3, <5>1
        <5>3. l2[c][t.kind].fd # 0 BY <2>4, <3>2, <4>2, <5>2 DEF Lets
        <5> QED BY <1>5, <2>4, <4>2, <5>3
      <4> QED BY <4>1, <4>2
    <3> QED BY <2>4, <3>2, <3>3
  <2>6. ASSUME u.far PROVE l2[Peer(u.owner)][Partner(u.kind)].fd = p
    <3>1. t.far BY <2>3, <2>6 DEF Released
    <3>2. l[Peer(t.owner)][Partner(t.kind)].fd = p BY <2>1, <3>1 DEF HasEntry
    <3>3. Peer(t.owner) \in Clients /\ Partner(t.kind) \in Kinds BY <2>4, TwoClients, Partners
    <3>4. l2[Peer(t.owner)][Partner(t.kind)] = l[Peer(t.owner)][Partner(t.kind)]
      <4>1. CASE Peer(t.owner) # c BY <3>3, <4>1
      <4>2. CASE Peer(t.owner) = c
        <5>1. t.owner # c BY <2>4, <4>2, TwoClients
        <5>2. ~Released(t, c, u) BY <2>6, <5>1 DEF Released
        <5>3. ~Lets(p) BY <1>3, <5>2
        <5>4. l2[c][Partner(t.kind)].fd # 0 BY <3>2, <3>3, <4>2, <5>3 DEF Lets
        <5> QED BY <1>5, <3>3, <4>2, <5>4
      <4> QED BY <4>1, <4>2
    <3> QED BY <2>4, <3>2, <3>4
  <2> HIDE DEF u
  <2>7. HasEntry(p, u, l2) BY <2>5, <2>6 DEF HasEntry
  <2> QED BY <2>2, <2>7 DEF u
<1>11. ASSUME NEW d \in Clients PROVE Queued(d, s2, o)
  <2>1. Queued(d, s, o) BY <1>1
  <2> QED BY <1>2, <1>4, <2>1 DEF Queued
<1>12. ASSUME NEW d \in Clients, l2[d]["send"].fd # 0
       PROVE  LET p == l2[d]["send"].fd
              IN  /\ l2[d]["send"] = l[d]["send"] /\ p \in DOMAIN s
                  /\ s2[p].link # "none" => s[p].link # "none"
                  /\ s2[p] = s[p] \/ (~s2[p].far /\ Released(s[p], c, s2[p]) /\ c # d)
  <2> DEFINE p == l2[d]["send"].fd
  <2>1. "send" \in Kinds BY DEF Kinds
  <2>2. l2[d]["send"] = l[d]["send"] BY <1>5, <1>12, <2>1
  <2>3. Fits(d, "send", l[d]["send"], s) BY <1>1, <2>1
  <2>4. p \in DOMAIN s /\ Owns(d, "send", l[d]["send"], s[p])
    BY <1>12, <2>2, <2>3 DEF Fits, Uses
  <2>5. CASE ~Lets(p) BY <1>3, <2>2, <2>4, <2>5
  <2>6. CASE Lets(p)
    <3>1. d # c BY <1>7, <1>12, <2>1, <2>6
    <3>2. s[p].owner = d BY <2>4 DEF Owns
    <3>3. s[p].far BY <1>8, <2>4, <2>6, <3>1, <3>2
    <3>4. s[p].link # "none" BY <1>1, <2>4, <3>3 DEF Stream
    <3>5. Released(s[p], c, s2[p]) BY <1>3, <2>4, <2>6
    <3>6. ~s2[p].far BY ONLY <3>1, <3>2, <3>5 DEF Released
    <3> QED BY <2>2, <2>4, <3>1, <3>4, <3>5, <3>6
  <2> QED BY <2>5, <2>6
<1>13. \A d \in Clients : /\ "get" \in Kinds
                          /\ Offered(l2[d]["get"]) => Offered(l[d]["get"]) /\ l2[d]["get"].port = l[d]["get"].port
                          /\ l2[d]["get"].fd # 0 => l2[d]["get"] = l[d]["get"]
  <2>1. "get" \in Kinds BY DEF Kinds
  <2> QED BY <1>5, <2>1 DEF Left, Offered
<1>14. ASSUME NEW d \in Clients PROVE Once(d, l2, s2, o)
  <2> SUFFICES ASSUME l2[d]["send"].fd # 0 PROVE Once(d, l2, s2, o) BY DEF Once
  <2>1. Once(d, l, s, o) /\ Peer(d) \in Clients BY <1>1, TwoClients
  <2> QED BY <1>12, <1>13, <2>1 DEF Once
<1>15. ASSUME NEW d \in Clients PROVE Data(d, l2, s2, dk, z)
  <2> SUFFICES ASSUME l2[d]["send"].fd # 0 PROVE Data(d, l2, s2, dk, z) BY DEF Data
  <2> DEFINE e == l[d]["send"]
             p == e.fd
             b == Peer(d)
             g == l[b]["get"]
             h == l2[b]["get"]
             f == dk[b]
             t == s[p]
             u == s2[p]
  <2>1. l2[d]["send"] = e /\ p \in DOMAIN s /\ p # 0 /\ Data(d, l, s, dk, z) BY <1>1, <1>12
  <2>2. Sent(t, e, g, f, z) BY <2>1 DEF Data
  <2>3. b \in Clients BY TwoClients
  <2>4. Owns(d, "send", e, t)
    <3>1. "send" \in Kinds BY DEF Kinds
    <3> QED BY <1>1, <2>1, <3>1 DEF Fits, Uses
  <2>5. u.link # "none" => t.link # "none" BY <1>12, <2>1
  <2>6. u = t \/ (~u.far /\ Released(t, c, u) /\ c # d) BY <1>12, <2>1
  <2>7. u.far => h = g /\ u = t
    <3> SUFFICES ASSUME u.far PROVE h = g BY <2>6
    <3>1. HasEntry(p, u, l2) BY <1>10, <2>1
    <3>2. u.owner = d /\ u.kind = "send"
      <4>1. t.owner = d /\ t.kind = "send" BY <2>4 DEF Owns
      <4>2. p \in DOMAIN s BY <2>1, SMTT(30)
      <4> QED BY ONLY <1>4, <4>1, <4>2
    <3>3. h.fd = p
      <4>1. u.far => l2[Peer(u.owner)][Partner(u.kind)].fd = p BY ONLY <3>1 DEF HasEntry
      <4>2. Partner("send") = "get" BY Partners
      <4>3. u.far OBVIOUS
      <4>4. l2[Peer(d)][Partner("send")].fd = p BY ONLY <3>2, <4>1, <4>3
      <4> QED BY ONLY <4>2, <4>4, SMTT(30)
    <3> QED BY <1>13, <2>1, <2>3, <3>3
  <2> HIDE DEF t, u, g, h, f
  <2>8. Sent(u, e, h, f, z)
    <3>1. CASE "WAIT" \in e.flags BY <2>2, <2>5, <2>7, <3>1 DEF Sent
    <3>2. CASE "WAIT" \notin e.flags
      <4>1. CASE u.far BY <2>2, <2>7, <4>1
      <4>2. CASE ~u.far /\ u.link = "up"
        <5>1. t.link = "up" /\ u.toNear = t.toNear BY <2>6, <4>2 DEF Released
        <5>2. Written(t, e, g, f) BY <2>2, <3>2, <5>1 DEF Sent
        <5>3. Written(u, e, h, f) BY <4>2, <5>1, <5>2 DEF Written
        <5> QED BY <2>2, <3>2, <5>3 DEF Sent
      <4>3. CASE u.link # "up" BY <2>2, <3>2, <4>3 DEF Sent
      <4> QED BY <4>1, <4>2, <4>3
    <3> QED BY <3>1, <3>2
  <2> QED BY <2>1, <2>8 DEF Data, t, u, g, h, f
<1> QED BY <1>1, <1>2, <1>6, <1>9, <1>10, <1>11, <1>14, <1>15 DEF Right

Placed(l, c, k, x) == [l EXCEPT ![c][k] = x]

\* An entry is put in the list, and the others stay.
IsPut(l, c, k, x, l2) ==
    /\ l2 \in [Clients -> [Kinds -> Entry]] /\ l2[c][k] = x
    /\ \A d \in Clients, m \in Kinds : d # c \/ m # k => l2[d][m] = l[d][m]
    /\ \A d \in Clients : d # c => l2[d] = l[d]

\* That is what Placed does.
LEMMA PutIs ==
    ASSUME NEW l \in [Clients -> [Kinds -> Entry]], NEW c \in Clients, NEW k \in Kinds, NEW x \in Entry
    PROVE  IsPut(l, c, k, x, Placed(l, c, k, x))
BY DEF Placed, IsPut

\* One entry and one socket change, but for who has which.
LEMMA SameEnds ==
    ASSUME NEW l, NEW s, NEW o, NEW dk, NEW z, Right(l, s, o, dk, z), NEW c \in Clients, NEW k \in Kinds,
           NEW x \in Entry, NEW p \in DOMAIN s, NEW u \in Socket, NEW dk2 \in [Clients -> Seq(Nat)],
           x.fd = l[c][k].fd, x.on = l[c][k].on, x.port = l[c][k].port,
           "OFFER" \in x.flags => "OFFER" \in l[c][k].flags,
           Offered(x) => Offered(l[c][k]),
           k = "get" => "WAIT" \notin x.flags,
           u.owner = s[p].owner, u.kind = s[p].kind, u.far = s[p].far, Stream(u),
           u.listens \/ u.near <=> s[p].listens \/ s[p].near,
           \/ u.listens = s[p].listens /\ u.near = s[p].near
           \/ l[c][k].fd = p /\ s[p].owner = c,
           u.link = "none" <=> s[p].link = "none",
           x.fd # 0 => \/ Owns(c, k, x, [s EXCEPT ![p] = u][x.fd])
                       \/ Uses(c, k, x, [s EXCEPT ![p] = u][x.fd]),
           \A d \in Clients : Data(d, Placed(l, c, k, x), [s EXCEPT ![p] = u], dk2, z)
    PROVE  Right(Placed(l, c, k, x), [s EXCEPT ![p] = u], o, dk2, z)
<1> DEFINE l2 == Placed(l, c, k, x)
           s2 == [s EXCEPT ![p] = u]
           t == s[p]
<1>1. /\ Types(l, s, o, dk) /\ z \in Nat
      /\ \A d \in Clients, m \in Kinds : Fits(d, m, l[d][m], s) /\ l[d][m] \in Entry
      /\ \A q \in DOMAIN s : HasEntry(q, s[q], l) /\ Stream(s[q]) /\ s[q] \in Socket /\ q \in Nat /\ q # 0
      /\ \A d \in Clients : Queued(d, s, o) /\ Once(d, l, s, o) /\ Data(d, l, s, dk, z)
  BY RightParts
<1>2. /\ l2 \in [Clients -> [Kinds -> Entry]] /\ l2[c][k] = x
      /\ \A d \in Clients, m \in Kinds : d # c \/ m # k => l2[d][m] = l[d][m]
  <2>1. l \in [Clients -> [Kinds -> Entry]] /\ c \in Clients /\ k \in Kinds /\ x \in Entry BY <1>1 DEF Types
  <2>2. IsPut(l, c, k, x, l2) BY ONLY <2>1, PutIs
  <2> HIDE DEF l2
  <2> QED BY <2>2 DEF IsPut
<1>3. \A d \in Clients, m \in Kinds : l2[d][m].fd = l[d][m].fd /\ l2[d][m].port = l[d][m].port BY <1>2, ZenonT(60)
<1>4. /\ DOMAIN s2 = DOMAIN s /\ s2[p] = u /\ \A q \in DOMAIN s : q # p => s2[q] = s[q]
      /\ \A q \in DOMAIN s : s2[q].owner = s[q].owner /\ s2[q].kind = s[q].kind /\ s2[q].far = s[q].far
  <2>1. \E n \in Nat : s \in [1 .. n -> Socket] BY <1>1 DEF Types
  <2> QED BY <2>1
<1>5. \A d \in Clients : Data(d, l2, s2, dk2, z) OBVIOUS
<1>6. x.fd # 0 => Owns(c, k, x, s2[x.fd]) \/ Uses(c, k, x, s2[x.fd]) OBVIOUS
<1>7. Types(l2, s2, o, dk2)
  <2>1. PICK n \in Nat : s \in [1 .. n -> Socket] BY <1>1 DEF Types
  <2>2. s2 \in [1 .. n -> Socket] BY <2>1
  <2> QED BY <1>1, <1>2, <2>2 DEF Types
<1> HIDE DEF l2, s2
<1>8. ASSUME NEW d \in Clients, NEW m \in Kinds PROVE Fits(d, m, l2[d][m], s2)
  <2>1. Fits(d, m, l[d][m], s) BY <1>1
  <2>2. CASE d = c /\ m = k
    <3>1. x.fd # 0 => x.on /\ x.fd \in DOMAIN s2 BY <1>4, <2>1, <2>2 DEF Fits
    <3>2. "OFFER" \in x.flags => /\ k # "send" /\ x.port \in DOMAIN s2
                                 /\ s2[x.port].owner = Peer(c) /\ s2[x.port].kind = Partner(k)
      BY <1>4, <2>1, <2>2 DEF Fits
    <3> QED BY <1>2, <1>6, <2>2, <3>1, <3>2 DEF Fits
  <2>3. CASE d # c \/ m # k
    <3> DEFINE e == l[d][m]
    <3>1. l2[d][m] = e BY <1>2, <2>3
    <3> HIDE DEF e
    <3>2. Fits(d, m, e, s) BY <2>1 DEF e
    <3>3. ASSUME e.fd # 0 PROVE Owns(d, m, e, s2[e.fd]) \/ Uses(d, m, e, s2[e.fd])
      <4>1. Owns(d, m, e, s[e.fd]) \/ Uses(d, m, e, s[e.fd]) BY <3>2, <3>3 DEF Fits
      <4>2. CASE e.fd # p BY <1>4, <3>2, <3>3, <4>1, <4>2 DEF Fits
      <4>3. CASE e.fd = p /\ Uses(d, m, e, s[e.fd]) BY <1>4, <4>3 DEF Uses
      <4>4. CASE e.fd = p /\ Owns(d, m, e, s[e.fd])
        <5>1. ~(l[c][k].fd = p /\ s[p].owner = c)
          <6> SUFFICES ASSUME l[c][k].fd = p, s[p].owner = c PROVE FALSE OBVIOUS
          <6>1. d = c BY <4>4 DEF Owns
          <6>2. Fits(c, k, l[c][k], s) BY <1>1
          <6>3. m = k BY <3>2, <3>3, <4>4, <6>1, <6>2, OneKind
          <6> QED BY <2>3, <6>1, <6>3
        <5>2. u.listens = s[p].listens /\ u.near = s[p].near BY <5>1
        <5>3. Owns(d, m, e, u) BY <4>4, <5>2 DEF Owns
        <5> QED BY <1>4, <4>4, <5>3
      <4> QED BY <4>1, <4>2, <4>3, <4>4
    <3>4. Fits(d, m, e, s2) BY <1>4, <3>2, <3>3 DEF Fits
    <3> QED BY <3>1, <3>4
  <2> QED BY <2>2, <2>3
<1>9. ASSUME NEW q \in DOMAIN s PROVE HasEntry(q, s2[q], l2) /\ Stream(s2[q])
  <2>1. HasEntry(q, s[q], l) /\ Stream(s[q]) /\ s[q] \in Socket BY <1>1
  <2>2. Stream(s2[q]) BY <1>4, <2>1
  <2>3. s2[q].listens \/ s2[q].near <=> s[q].listens \/ s[q].near BY <1>4
  <2>4. s[q].owner \in Clients /\ s[q].kind \in Kinds BY <2>1 DEF Socket
  <2>5. Peer(s[q].owner) \in Clients /\ Partner(s[q].kind) \in Kinds BY <2>4, TwoClients, Partners
  <2>6. HasEntry(q, s2[q], l2) BY <1>3, <1>4, <2>1, <2>3, <2>4, <2>5 DEF HasEntry
  <2> QED BY <2>2, <2>6
<1>10. ASSUME NEW d \in Clients PROVE Queued(d, s2, o) /\ Once(d, l2, s2, o)
  <2>1. Queued(d, s, o) /\ Once(d, l, s, o) BY <1>1
  <2>2. Queued(d, s2, o)
    <3> HIDE DEF s2
    <3> QED BY ONLY <1>4, <2>1 DEF Queued
  <2>3. \A q \in DOMAIN s : s2[q].link = "none" <=> s[q].link = "none" BY <1>4
  <2>4. "send" \in Kinds /\ "get" \in Kinds /\ Peer(d) \in Clients BY TwoClients DEF Kinds
  <2>5. Offered(l2[Peer(d)]["get"]) => Offered(l[Peer(d)]["get"]) BY <1>2, <2>4
  <2>6. l[d]["send"].fd # 0 => l[d]["send"].fd \in DOMAIN s BY <1>1, <2>4 DEF Fits
  <2>7. l2[d]["send"].fd = l[d]["send"].fd BY <1>3, <2>4
  <2>8. l2[Peer(d)]["get"].fd = l[Peer(d)]["get"].fd /\ l2[Peer(d)]["get"].port = l[Peer(d)]["get"].port
    BY <1>3, <2>4
  <2> HIDE DEF t
  <2>9. Once(d, l2, s2, o) BY <2>1, <2>3, <2>5, <2>6, <2>7, <2>8 DEF Once
  <2> QED BY <2>2, <2>9
<1>11. Right(l2, s2, o, dk2, z) BY <1>1, <1>4, <1>5, <1>7, <1>8, <1>9, <1>10 DEF Right
<1> QED BY <1>11 DEF l2, s2

\* The data of a file is right as long as nothing that it is about changes.
LEMMA SameData ==
    ASSUME NEW l, NEW s, NEW dk, NEW z, NEW l2, NEW s2, NEW dk2, NEW d, Data(d, l, s, dk, z),
           l2[d]["send"] = l[d]["send"], l2[Peer(d)]["get"].count = l[Peer(d)]["get"].count,
           dk2[Peer(d)] = dk[Peer(d)], l[d]["send"].fd # 0 => s2[l[d]["send"].fd] = s[l[d]["send"].fd]
    PROVE  Data(d, l2, s2, dk2, z)
<1> DEFINE e == l[d]["send"]
           g == l[Peer(d)]["get"]
           h == l2[Peer(d)]["get"]
           f == dk[Peer(d)]
           t == s[e.fd]
<1>1. e.fd # 0 => Sent(t, e, g, f, z) BY DEF Data
<1>2. h.count = g.count OBVIOUS
<1>3. l2[d]["send"] = e /\ dk2[Peer(d)] = f /\ (e.fd # 0 => s2[e.fd] = t) OBVIOUS
<1> HIDE DEF e, g, h, f, t
<1>4. Written(t, e, g, f) => Written(t, e, h, f) BY <1>2 DEF Written
<1>5. Sent(t, e, g, f, z) => Sent(t, e, h, f, z) BY <1>2, <1>4 DEF Sent
<1> QED BY <1>1, <1>3, <1>5 DEF Data, h

\* dcc_check() takes back that a connection is pending, and an offer.
LEMMA NoteConnected ==
    ASSUME NEW l, NEW s, NEW o, NEW dk, NEW z, Right(l, s, o, dk, z), NEW c \in Clients, NEW k \in Kinds,
           l[c][k].fd # 0
    PROVE  Right(Placed(l, c, k, [l[c][k] EXCEPT !.flags = @ \ {"PEND", "OFFER"}]), s, o, dk, z)
<1> DEFINE e == l[c][k]
           x == [e EXCEPT !.flags = @ \ {"PEND", "OFFER"}]
           p == e.fd
           u == s[p]
           l2 == Placed(l, c, k, x)
           s2 == [s EXCEPT ![p] = u]
<1>1. /\ Types(l, s, o, dk) /\ e \in Entry /\ Fits(c, k, e, s)
      /\ \A d \in Clients : Data(d, l, s, dk, z)
  BY RightParts
<1>2. p \in DOMAIN s /\ (Owns(c, k, e, s[p]) \/ Uses(c, k, e, s[p])) BY <1>1 DEF Fits
<1>3. u \in Socket /\ Stream(u) BY <1>2, RightParts
<1>4. s2 = s
  <2>1. \E n \in Nat : s \in [1 .. n -> Socket] BY <1>1 DEF Types
  <2> QED BY <2>1, <1>2
<1>5. /\ x \in Entry /\ x.fd = e.fd /\ x.on = e.on /\ x.port = e.port /\ x.count = e.count /\ x.pos = e.pos
      /\ "OFFER" \notin x.flags
      /\ "WAIT" \in x.flags <=> "WAIT" \in e.flags
      /\ "ACTIVE" \in x.flags <=> "ACTIVE" \in e.flags
  BY <1>1 DEF Entry, Flags
<1>6. l \in [Clients -> [Kinds -> Entry]] /\ dk \in [Clients -> Seq(Nat)] BY <1>1 DEF Types
<1>7. /\ l2[c][k] = x
      /\ \A d \in Clients, m \in Kinds : d # c \/ m # k => l2[d][m] = l[d][m]
  <2>1. l \in [Clients -> [Kinds -> Entry]] /\ c \in Clients /\ k \in Kinds /\ x \in Entry BY <1>5, <1>6
  <2> HIDE DEF x, e
  <2>2. IsPut(l, c, k, x, l2) BY ONLY <2>1, PutIs
  <2> HIDE DEF l2
  <2> QED BY <2>2 DEF IsPut
<1> HIDE DEF x, l2
<1>8. \A d \in Clients : Data(d, l2, s, dk, z)
  <2> SUFFICES ASSUME NEW d \in Clients PROVE Data(d, l2, s, dk, z) OBVIOUS
  <2>1. "send" \in Kinds /\ "get" \in Kinds /\ Peer(d) \in Clients BY TwoClients DEF Kinds
  <2>2. l2[d]["send"] = l[d]["send"] \/ (d = c /\ k = "send" /\ l2[d]["send"] = x /\ l[d]["send"] = e)
    BY <1>7, <2>1
  <2>3. l2[Peer(d)]["get"].count = l[Peer(d)]["get"].count BY <1>5, <1>7, <2>1
  <2>4. Data(d, l, s, dk, z) BY <1>1
  <2>5. CASE l2[d]["send"] = l[d]["send"] BY <2>3, <2>4, <2>5, SameData
  <2>6. CASE d = c /\ k = "send" /\ l2[d]["send"] = x /\ l[d]["send"] = e
    <3> DEFINE g == l[Peer(d)]["get"]
               h == l2[Peer(d)]["get"]
               f == dk[Peer(d)]
               t == s[e.fd]
    <3>1. e.fd # 0 /\ x.fd = e.fd BY <1>5, <2>6
    <3>2. Sent(t, e, g, f, z) BY <2>4, <2>6, <3>1 DEF Data
    <3>3. h.count = g.count BY <2>3
    <3>4. x.count = e.count /\ x.pos = e.pos /\ ("WAIT" \in x.flags <=> "WAIT" \in e.flags) BY <1>5
    <3> HIDE DEF g, h, f, t, e
    <3>5. Written(t, e, g, f) => Written(t, x, h, f) BY <3>3, <3>4 DEF Written
    <3>6. Sent(t, x, h, f, z) BY <3>2, <3>3, <3>4, <3>5 DEF Sent
    <3> QED BY <2>6, <3>1, <3>6 DEF Data, h, f, t
  <2> QED BY <2>2, <2>5, <2>6
<1>9. ~Offered(x) BY <1>5 DEF Offered
<1>10. k = "get" => "WAIT" \notin x.flags BY <1>1, <1>5 DEF Fits
<1>11. Owns(c, k, x, s2[x.fd]) \/ Uses(c, k, x, s2[x.fd])
  <2> HIDE DEF e
  <2> QED BY <1>2, <1>4, <1>5 DEF Owns, Uses
<1>12. Right(l2, s2, o, dk, z)
  <2> HIDE DEF s2
  <2>1. \A d \in Clients : Data(d, l2, s2, dk, z) BY <1>4, <1>8
  <2> USE DEF l2, s2
  <2> QED BY <1>2, <1>3, <1>5, <1>6, <1>9, <1>10, <1>11, <2>1, SameEnds
<1> QED BY <1>4, <1>12 DEF l2, x

\* accept(): the listener becomes the connection.
LEMMA Accept ==
    ASSUME NEW l, NEW s, NEW o, NEW dk, NEW z, Right(l, s, o, dk, z), NEW c \in Clients, NEW k \in Kinds,
           NEW p, p = l[c][k].fd, p # 0, "WAIT" \in l[c][k].flags, s[p].link = "up"
    PROVE  Right(Placed(l, c, k, Accepting(l[c][k])), [s EXCEPT ![p] = [@ EXCEPT !.listens = FALSE, !.near = TRUE]],
                 o, dk, z)
<1> DEFINE e == l[c][k]
           x == Accepting(e)
           t == s[p]
           u == [t EXCEPT !.listens = FALSE, !.near = TRUE]
           l2 == Placed(l, c, k, x)
           s2 == [s EXCEPT ![p] = u]
<1>1. /\ Types(l, s, o, dk) /\ e \in Entry /\ Fits(c, k, e, s) /\ z \in Nat
      /\ \A d \in Clients : Data(d, l, s, dk, z)
  BY RightParts
<1>2. p \in DOMAIN s /\ Owns(c, k, e, t) BY <1>1 DEF Fits, Uses
<1>3. t \in Socket /\ Stream(t) BY <1>2, RightParts
<1>4. t.listens /\ ~t.near /\ t.owner = c /\ t.kind = k /\ k # "get" BY <1>2 DEF Owns
<1>5. /\ u \in Socket /\ u.owner = t.owner /\ u.kind = t.kind /\ ~u.listens /\ u.near /\ u.far = t.far /\ u.err = t.err
      /\ u.link = t.link /\ u.toFar = t.toFar /\ u.toNear = t.toNear
  BY <1>3 DEF Socket
<1>6. /\ x \in Entry /\ x.fd = e.fd /\ x.on = e.on /\ x.port = e.port /\ x.count = 0 /\ x.pos = e.pos
      /\ "WAIT" \notin x.flags /\ "ACTIVE" \in x.flags /\ ("OFFER" \in x.flags => "OFFER" \in e.flags)
  BY <1>1 DEF Entry, Flags, Accepting
<1>7. l \in [Clients -> [Kinds -> Entry]] /\ dk \in [Clients -> Seq(Nat)] BY <1>1 DEF Types
<1>8. /\ l2[c][k] = x
      /\ \A d \in Clients, m \in Kinds : d # c \/ m # k => l2[d][m] = l[d][m]
  <2>1. l \in [Clients -> [Kinds -> Entry]] /\ c \in Clients /\ k \in Kinds /\ x \in Entry BY <1>6, <1>7
  <2> HIDE DEF x
  <2>2. IsPut(l, c, k, x, l2) BY ONLY <2>1, PutIs
  <2> HIDE DEF l2
  <2> QED BY <2>2 DEF IsPut
<1>9. s2[p] = u /\ \A q \in DOMAIN s : q # p => s2[q] = s[q]
  <2>1. \E n \in Nat : s \in [1 .. n -> Socket] BY <1>1 DEF Types
  <2> QED BY <1>2, <2>1
<1> HIDE DEF x, u, l2, s2, e, t
<1>10. Stream(u) BY <1>3, <1>4, <1>5 DEF Stream, t
<1>11. Owns(c, k, x, u) BY <1>4, <1>5, <1>6 DEF Owns
<1>12. ASSUME NEW d \in Clients PROVE Data(d, l2, s2, dk, z)
  <2>1. "send" \in Kinds /\ "get" \in Kinds /\ Peer(d) \in Clients BY TwoClients DEF Kinds
  <2>2. Data(d, l, s, dk, z) BY <1>1
  <2>3. CASE d = c /\ k = "send"
    <3> DEFINE b == Peer(c)
               g == l[b]["get"]
               f == dk[b]
    <3>1. e = l[c]["send"] /\ Sent(t, e, g, f, z) BY <2>2, <2>3 DEF Data, e, t
    <3>2. l2[b]["get"] = g BY <1>8, <2>1, <2>3
    <3> HIDE DEF g, f
    <3>3. e.pos = 0 /\ f = <<>> /\ (t.far => g.count = 0) BY <3>1 DEF Sent, t, e
    <3>4. Len(f) = 0 BY <3>3
    <3>5. u.toFar = <<>> /\ u.toNear = <<>> BY <1>3, <1>4, <1>5 DEF Stream
    <3>6. Len(u.toFar) = 0 /\ Len(u.toNear) = 0 BY <3>5
    <3>7. Written(u, x, g, f)
      <4>1. Len(f) <= x.count /\ \A i \in 1 .. Len(f) : f[i] = i BY <1>6, <3>4
      <4>2. u.far => /\ g.count = Len(f) /\ Len(u.toFar) = x.count - Len(f)
                     /\ \A i \in 1 .. Len(u.toFar) : u.toFar[i] = Len(f) + i
        <5>1. u.far => g.count = 0 BY <1>5, <3>3
        <5> QED BY <1>6, <3>4, <3>6, <5>1
      <4>3. \A i \in 1 .. Len(u.toNear) : \E v \in 0 .. Len(f) : u.toNear[i] = v % AckMod BY <3>6
      <4> QED BY <4>1, <4>2, <4>3 DEF Written
    <3>8. Sent(u, x, g, f, z) BY <1>1, <1>6, <3>3, <3>7 DEF Sent
    <3>9. l2[d]["send"] = x /\ x.fd = p /\ s2[p] = u BY <1>6, <1>8, <1>9, <2>3 DEF e
    <3> QED BY <2>3, <3>2, <3>8, <3>9 DEF Data, f
  <2>4. CASE d # c \/ k # "send"
    <3>1. l2[d]["send"] = l[d]["send"] BY <1>8, <2>1, <2>4
    <3>2. l2[Peer(d)]["get"] = l[Peer(d)]["get"] BY <1>4, <1>8, <2>1
    <3>3. l[d]["send"].fd # 0 => l[d]["send"].fd \in DOMAIN s /\ l[d]["send"].fd # p
      <4>1. Fits(d, "send", l[d]["send"], s) BY <2>1, RightParts
      <4>2. ASSUME l[d]["send"].fd # 0 PROVE Owns(d, "send", l[d]["send"], s[l[d]["send"].fd]) BY <4>1, <4>2 DEF Fits, Uses
      <4> QED BY <1>4, <2>4, <4>1, <4>2 DEF Fits, Owns, t
    <3>4. l[d]["send"].fd # 0 => s2[l[d]["send"].fd] = s[l[d]["send"].fd] BY <1>9, <3>3
    <3> QED BY <2>2, <3>1, <3>2, <3>4, SameData
  <2> QED BY <2>3, <2>4
<1>13. Right(l2, s2, o, dk, z)
  <2>1. ~Offered(x) /\ x.fd = p BY <1>6 DEF Offered, e
  <2>2. x.fd # 0 => Owns(c, k, x, s2[x.fd]) \/ Uses(c, k, x, s2[x.fd]) BY <1>9, <1>11, <2>1
  <2> USE DEF l2, s2, e, t
  <2> QED BY <1>2, <1>4, <1>5, <1>6, <1>7, <1>10, <1>12, <2>1, <2>2, SameEnds
<1> QED BY <1>13 DEF l2, s2, x, u, e, t

\* What c does with a socket that it owns does not reach another transfer.
LEMMA OwnersData ==
    ASSUME NEW l, NEW s, NEW o, NEW dk, NEW z, Right(l, s, o, dk, z), NEW c \in Clients, NEW k \in Kinds,
           NEW x \in Entry, NEW p \in DOMAIN s, NEW u, s[p].owner = c, s[p].kind = k, k # "get",
           NEW d \in Clients, d # c \/ k # "send"
    PROVE  Data(d, Placed(l, c, k, x), [s EXCEPT ![p] = u], dk, z)
<1> DEFINE l2 == Placed(l, c, k, x)
           s2 == [s EXCEPT ![p] = u]
           e == l[d]["send"]
<1>1. "send" \in Kinds /\ "get" \in Kinds /\ Peer(d) \in Clients BY TwoClients DEF Kinds
<1>2. /\ Types(l, s, o, dk) /\ Data(d, l, s, dk, z) /\ Fits(d, "send", e, s)
  BY <1>1, RightParts
<1>3. \A b \in Clients, m \in Kinds : b # c \/ m # k => l2[b][m] = l[b][m]
  <2>1. l \in [Clients -> [Kinds -> Entry]] /\ c \in Clients /\ k \in Kinds /\ x \in Entry BY <1>2 DEF Types
  <2>2. IsPut(l, c, k, x, l2) BY ONLY <2>1, PutIs
  <2> HIDE DEF l2
  <2> QED BY <2>2 DEF IsPut
<1>4. \A q \in DOMAIN s : q # p => s2[q] = s[q]
  <2>1. \E n \in Nat : s \in [1 .. n -> Socket] BY <1>2 DEF Types
  <2> QED BY <2>1
<1> HIDE DEF l2, s2, e
<1>5. l2[d]["send"] = e BY <1>1, <1>3 DEF e
<1>6. l2[Peer(d)]["get"] = l[Peer(d)]["get"] BY <1>1, <1>3
<1>7. e.fd # 0 => e.fd \in DOMAIN s /\ e.fd # p
  <2>1. e.fd # 0 => e.fd \in DOMAIN s /\ Owns(d, "send", e, s[e.fd]) BY <1>2 DEF Fits, Uses
  <2>2. Owns(d, "send", e, s[e.fd]) /\ e.fd = p => d = c /\ k = "send" BY DEF Owns
  <2> QED BY <2>1, <2>2
<1>8. e.fd # 0 => s2[e.fd] = s[e.fd] BY <1>4, <1>7
<1>9. Data(d, l2, s2, dk, z) BY <1>2, <1>5, <1>6, <1>8, SameData DEF e
<1> QED BY <1>9 DEF l2, s2

\* The sender of a file does something with its entry and its connection.
LEMMA Sender ==
    ASSUME NEW l, NEW s, NEW o, NEW dk, NEW z, Right(l, s, o, dk, z), NEW c \in Clients, NEW p,
           p = l[c]["send"].fd, p # 0, "WAIT" \notin l[c]["send"].flags,
           NEW x \in Entry, x.fd = p, x.on = l[c]["send"].on, x.port = l[c]["send"].port,
           x.flags = l[c]["send"].flags, NEW u \in Socket, Stream(u),
           u.owner = s[p].owner, u.kind = s[p].kind, u.listens = s[p].listens, u.near = s[p].near,
           u.far = s[p].far, u.link = "none" <=> s[p].link = "none",
           Sent(u, x, l[Peer(c)]["get"], dk[Peer(c)], z)
    PROVE  Right(Placed(l, c, "send", x), [s EXCEPT ![p] = u], o, dk, z)
<1> DEFINE e == l[c]["send"]
           t == s[p]
           l2 == Placed(l, c, "send", x)
           s2 == [s EXCEPT ![p] = u]
<1>1. "send" \in Kinds /\ "get" \in Kinds /\ Peer(c) \in Clients BY TwoClients DEF Kinds
<1>2. Types(l, s, o, dk) /\ e \in Entry /\ Fits(c, "send", e, s) BY <1>1, RightParts
<1>3. p \in DOMAIN s /\ Owns(c, "send", e, t) BY <1>2 DEF Fits, Uses
<1>4. t.owner = c /\ t.kind = "send" BY <1>3 DEF Owns
<1>5. s2[p] = u
  <2>1. \E n \in Nat : s \in [1 .. n -> Socket] BY <1>2 DEF Types
  <2> QED BY <1>3, <2>1
<1>6. l2[c]["send"] = x /\ l2[Peer(c)]["get"] = l[Peer(c)]["get"]
  <2>1. l \in [Clients -> [Kinds -> Entry]] /\ c \in Clients /\ "send" \in Kinds /\ x \in Entry BY <1>1, <1>2 DEF Types
  <2>2. IsPut(l, c, "send", x, l2) BY ONLY <2>1, PutIs
  <2> HIDE DEF l2
  <2> QED BY <1>1, <2>2 DEF IsPut
<1> HIDE DEF e, t, l2, s2
<1>7. Owns(c, "send", x, s2[x.fd]) BY <1>3, <1>5 DEF Owns, e, t
<1>8. ASSUME NEW d \in Clients PROVE Data(d, l2, s2, dk, z)
  <2>1. CASE d = c BY <1>5, <1>6, <2>1 DEF Data
  <2>2. CASE d # c BY <1>1, <1>3, <1>4, <2>2, OwnersData DEF l2, s2, t
  <2> QED BY <2>1, <2>2
<1>9. dk \in [Clients -> Seq(Nat)] BY <1>2 DEF Types
<1>10. Offered(x) => Offered(l[c]["send"]) BY DEF Offered
<1>11. "WAIT" \notin x.flags OBVIOUS
<1> USE DEF l2, s2
<1>12. Right(l2, s2, o, dk, z) BY <1>1, <1>3, <1>7, <1>8, <1>9, <1>10, <1>11, SameEnds, ZenonT(60)
<1> QED BY <1>12

\* All that was sent of the file of entry e has been written, as far as the
\* connection is up.
CaughtUp(c, e, s, dk) == s[e.fd].link = "up" => Len(dk[Peer(c)]) = e.count

\* An entry e that counts n more bytes, and the sockets after it sent them.
Advanced(e, n) == [e EXCEPT !.pos = @ + n, !.count = @ + n]

Carrying(s, p, e, n) ==
    [s EXCEPT ![p] = Pushed(@, s[p].far, [s[p] EXCEPT !.toFar = @ \o [i \in 1 .. n |-> e.pos + i]])]

\* The next block of a file is read, sent and counted.
LEMMA SentBlock ==
    ASSUME NEW l, NEW s, NEW o, NEW dk, NEW z, Right(l, s, o, dk, z), NEW c \in Clients, NEW p,
           p = l[c]["send"].fd, p # 0, "WAIT" \notin l[c]["send"].flags,
           CaughtUp(c, l[c]["send"], s, dk), NEW n \in Nat, n <= Block, l[c]["send"].pos + n <= z
    PROVE  Right(Placed(l, c, "send", Advanced(l[c]["send"], n)), Carrying(s, p, l[c]["send"], n), o, dk, z)
<1> DEFINE e == l[c]["send"]
           x == Advanced(e, n)
           t == s[p]
           data == [i \in 1 .. n |-> e.pos + i]
           r == [t EXCEPT !.toFar = @ \o data]
           u == Pushed(t, t.far, r)
           g == l[Peer(c)]["get"]
           f == dk[Peer(c)]
<1>1. "send" \in Kinds /\ "get" \in Kinds /\ Peer(c) \in Clients BY TwoClients DEF Kinds
<1>2. Types(l, s, o, dk) /\ e \in Entry /\ Fits(c, "send", e, s) /\ Data(c, l, s, dk, z) /\ z \in Nat
  BY <1>1, RightParts
<1>3. p \in DOMAIN s /\ Owns(c, "send", e, t) BY <1>2 DEF Fits, Uses
<1>4. t \in Socket /\ Stream(t) BY <1>3, RightParts
<1>5. t.owner = c /\ t.kind = "send" /\ t.near /\ ~t.listens BY <1>3 DEF Owns
<1>6. t.link \in {"up", "dead"} BY <1>4, <1>5 DEF Stream
<1>7. Sent(t, e, g, f, z) BY <1>2 DEF Data
<1>8. f \in Seq(Nat) BY <1>1, <1>2 DEF Types
<1>9. e.pos = e.count /\ (t.link = "up" => Written(t, e, g, f)) BY <1>7 DEF Sent
<1>10. e.pos \in Nat /\ e.count \in Nat BY <1>2 DEF Entry
<1>11. /\ x \in Entry /\ x.fd = p /\ x.on = e.on /\ x.port = e.port /\ x.flags = e.flags
       /\ x.pos = e.pos + n /\ x.count = e.count + n
  <2>1. e \in Entry /\ e.fd = p BY <1>2
  <2> DEFINE v == e.pos + n
             w == e.count + n
             y == [e EXCEPT !.pos = v, !.count = w]
  <2>2. v \in Nat /\ w \in Nat BY <1>10
  <2>3. x = y BY DEF Advanced
  <2> HIDE DEF e, x, v, w
  <2>4. y \in Entry /\ y.fd = p /\ y.on = e.on /\ y.port = e.port /\ y.flags = e.flags /\ y.pos = v /\ y.count = w
    BY <2>1, <2>2 DEF Entry
  <2> HIDE DEF y
  <2>5. x \in Entry /\ x.fd = p /\ x.on = e.on /\ x.port = e.port /\ x.flags = e.flags /\ x.pos = v /\ x.count = w
    BY <2>3, <2>4
  <2> QED BY <2>5 DEF v, w
<1>12. /\ data \in Seq(Nat) /\ Len(data) = n /\ \A i \in 1 .. n : data[i] = e.pos + i
  <2>1. \A i \in 1 .. n : e.pos + i \in Nat BY <1>10
  <2> QED BY <2>1
<1> HIDE DEF e, x, g, f, data
<1>13. t.toFar \in Seq(Nat) /\ t.toNear \in Seq(Nat) BY <1>4 DEF Socket
<1>14. t.toFar \o data \in Seq(Nat) BY <1>12, <1>13, ConcatProperties
<1>15. /\ r \in Socket /\ r.owner = t.owner /\ r.kind = t.kind /\ r.listens = t.listens /\ r.near = t.near
       /\ r.far = t.far /\ r.link = t.link /\ r.err = t.err /\ r.toNear = t.toNear /\ r.toFar = t.toFar \o data
  <2> HIDE DEF t
  <2> QED BY <1>4, <1>14 DEF Socket
<1>16. /\ Dead(t) \in Socket /\ Dead(t).owner = t.owner /\ Dead(t).kind = t.kind /\ Dead(t).link = "dead"
       /\ Dead(t).toFar = <<>> /\ Dead(t).toNear = <<>> /\ Dead(t).listens = t.listens
       /\ Dead(t).near = t.near /\ Dead(t).far = t.far
  <2> HIDE DEF t
  <2> QED BY <1>4, EmptySeq DEF Dead, Socket
<1>17. u = IF t.link = "dead" THEN t ELSE IF t.far THEN r ELSE Dead(t) BY DEF Pushed
<1>18. Carrying(s, p, e, n) = [s EXCEPT ![p] = u] BY DEF Carrying, t, r, u, data
<1> HIDE DEF t, r, u
<1>19. CASE t.link = "dead"
  <2>1. u = t BY <1>17, <1>19
  <2>2. Sent(u, x, g, f, z) BY <1>7, <1>9, <1>11, <1>19, <2>1, SMTT(30) DEF Sent, e
  <2>3. Right(Placed(l, c, "send", x), [s EXCEPT ![p] = u], o, dk, z)
    BY <1>4, <1>11, <2>1, <2>2, Sender DEF e, g, f, t
  <2> QED BY <2>3, <1>18 DEF x, e
<1>20. CASE t.link = "up" /\ t.far
  <2>1. u = r BY <1>17, <1>20
  <2>2. Len(f) = e.count BY <1>20 DEF CaughtUp, f, e, t
  <2>3. Written(t, e, g, f) BY <1>9, <1>20
  <2>4. Len(t.toFar) = 0 BY <1>10, <1>20, <2>2, <2>3 DEF Written
  <2>5. t.toFar = <<>> BY <1>13, <2>4, EmptySeq
  <2>6. u.toFar = data BY <1>12, <1>15, <2>1, <2>5, ConcatEmptySeq
  <2>7. Stream(u)
    <3>1. Len(u.toFar) <= Block BY <1>12, <2>6
    <3> QED BY <1>4, <1>5, <1>15, <1>20, <2>1, <3>1 DEF Stream
  <2>8. Written(u, x, g, f)
    <3>1. Len(f) <= x.count /\ \A i \in 1 .. Len(f) : f[i] = i BY <1>10, <1>11, <2>2, <2>3 DEF Written
    <3>2. g.count = Len(f) BY <1>20, <2>3 DEF Written
    <3>3. Len(u.toFar) = x.count - Len(f) BY <1>10, <1>11, <1>12, <2>2, <2>6
    <3>4. \A i \in 1 .. Len(u.toFar) : u.toFar[i] = Len(f) + i BY <1>9, <1>12, <2>2, <2>6
    <3>5. \A i \in 1 .. Len(u.toNear) : \E v \in 0 .. Len(f) : u.toNear[i] = v % AckMod
      BY <1>15, <2>1, <2>3 DEF Written
    <3> QED BY ONLY <3>1, <3>2, <3>3, <3>4, <3>5, Zenon DEF Written
  <2>9. x.pos = x.count /\ x.pos <= z BY <1>9, <1>11 DEF e
  <2>10. Sent(u, x, g, f, z) BY <1>11, <2>8, <2>9, SMTT(30) DEF Sent, e
  <2>11. Right(Placed(l, c, "send", x), [s EXCEPT ![p] = u], o, dk, z)
    BY <1>4, <1>11, <1>15, <2>1, <2>7, <2>10, Sender, ZenonT(30) DEF e, g, f, t
  <2> QED BY <2>11, <1>18 DEF x, e
<1>21. CASE t.link = "up" /\ ~t.far
  <2>1. u = Dead(t) BY <1>17, <1>21
  <2>2. Stream(u)
    <3>1. Len(u.toFar) <= Block BY <1>16, <2>1, SizesAssumption
    <3> QED BY <1>5, <1>16, <2>1, <3>1 DEF Stream
  <2>3. x.pos = x.count /\ x.pos <= z BY <1>9, <1>11 DEF e
  <2>4. Sent(u, x, g, f, z) BY <1>11, <1>16, <2>1, <2>3, SMTT(30) DEF Sent, e
  <2>5. Right(Placed(l, c, "send", x), [s EXCEPT ![p] = u], o, dk, z)
    BY <1>11, <1>16, <1>21, <2>1, <2>2, <2>4, Sender DEF e, g, f, t
  <2> QED BY <2>5, <1>18 DEF x, e
<1> QED BY <1>6, <1>19, <1>20, <1>21

\* An entry that is put where it was
LEMMA PutSame ==
    ASSUME NEW l \in [Clients -> [Kinds -> Entry]], NEW c \in Clients, NEW k \in Kinds
    PROVE  Placed(l, c, k, l[c][k]) = l
BY DEF Placed

\* Two changes of an entry
LEMMA PutTwice ==
    ASSUME NEW l \in [Clients -> [Kinds -> Entry]], NEW c \in Clients, NEW k \in Kinds, NEW x, NEW y
    PROVE  Placed(Placed(l, c, k, x), c, k, y) = Placed(l, c, k, y)
<1>1. DOMAIN Placed(Placed(l, c, k, x), c, k, y) = Clients /\ DOMAIN Placed(l, c, k, y) = Clients BY DEF Placed
<1>2. \A d \in Clients : Placed(Placed(l, c, k, x), c, k, y)[d] = Placed(l, c, k, y)[d] BY DEF Placed
<1> QED BY <1>1, <1>2 DEF Placed

\* recv() of a sender's connection t has failed, or has read an acknowledgement,
\* which leaves it as u.
Heard(t, u) == \/ t.err /\ u = [t EXCEPT !.err = FALSE]
               \/ t.toNear # <<>> /\ u = [t EXCEPT !.toNear = Tail(@)]

\* recv() of a sender has failed, or an acknowledgement has been read.
LEMMA SenderRead ==
    ASSUME NEW l, NEW s, NEW o, NEW dk, NEW z, Right(l, s, o, dk, z), NEW c \in Clients, NEW p,
           p = l[c]["send"].fd, p # 0, "WAIT" \notin l[c]["send"].flags,
           NEW u, Heard(s[p], u)
    PROVE  Right(l, [s EXCEPT ![p] = u], o, dk, z)
<1> DEFINE e == l[c]["send"]
           t == s[p]
           g == l[Peer(c)]["get"]
           f == dk[Peer(c)]
<1>1. "send" \in Kinds BY DEF Kinds
<1>2. Types(l, s, o, dk) /\ e \in Entry /\ Fits(c, "send", e, s) /\ Data(c, l, s, dk, z) BY <1>1, RightParts
<1>3. p \in DOMAIN s /\ Owns(c, "send", e, t) BY <1>2 DEF Fits, Uses
<1>4. t \in Socket /\ Stream(t) BY <1>3, RightParts
<1>5. t.kind = "send" /\ t.near /\ ~t.listens BY <1>3 DEF Owns
<1>6. Sent(t, e, g, f, z) BY <1>2 DEF Data
<1> HIDE DEF t, e, g, f
<1>7. t.toNear \in Seq(Nat) BY <1>4, SMTT(30) DEF Socket
<1>8. /\ u \in Socket /\ u.owner = t.owner /\ u.kind = t.kind /\ u.listens = t.listens /\ u.near = t.near
      /\ u.far = t.far /\ u.link = t.link /\ u.toFar = t.toFar /\ (u.err => t.err)
      /\ \/ t.err /\ u.toNear = t.toNear
         \/ t.toNear # <<>> /\ u.toNear = Tail(t.toNear)
  <2>1. CASE t.err /\ u = [t EXCEPT !.err = FALSE] BY <1>4, <2>1 DEF Socket
  <2>2. CASE t.toNear # <<>> /\ u = [t EXCEPT !.toNear = Tail(@)]
    <3>1. Tail(t.toNear) \in Seq(Nat) BY <1>7, <2>2, HeadTailProperties
    <3> QED BY <1>4, <2>2, <3>1 DEF Socket
  <2>3. Heard(t, u) BY DEF t
  <2> QED BY <2>1, <2>2, <2>3 DEF Heard
<1>9. t.toNear # <<>> => t.link = "up" BY <1>4 DEF Stream
<1>10. t.err => t.link = "dead" BY <1>4, <1>5 DEF Stream
<1>11. Stream(u) BY <1>4, <1>5, <1>8, <1>9 DEF Stream
<1>12. Sent(u, e, g, f, z)
  <2>1. CASE u.link # "up" BY <1>6, <1>8, <2>1 DEF Sent, e
  <2>2. CASE u.link = "up"
    <3>1. u.toNear = Tail(t.toNear) /\ t.toNear # <<>> BY <1>8, <1>10, <2>2
    <3>2. Written(t, e, g, f) BY <1>6, <1>8, <2>2 DEF Sent, e
    <3>3. /\ Len(u.toNear) = Len(t.toNear) - 1 /\ Len(t.toNear) \in Nat
          /\ \A i \in 1 .. Len(u.toNear) : u.toNear[i] = t.toNear[i + 1]
      BY <1>7, <3>1
    <3>4. \A i \in 1 .. Len(u.toNear) : i + 1 \in 1 .. Len(t.toNear) BY <3>3
    <3>5. \A i \in 1 .. Len(u.toNear) : \E v \in 0 .. Len(f) : u.toNear[i] = v % AckMod
      BY <3>2, <3>3, <3>4 DEF Written
    <3>6. Written(u, e, g, f) BY <1>8, <3>2, <3>5, SMTT(30) DEF Written
    <3> QED BY <1>6, <3>6 DEF Sent, e
  <2> QED BY <2>1, <2>2
<1>13. Right(Placed(l, c, "send", e), [s EXCEPT ![p] = u], o, dk, z)
  BY <1>2, <1>8, <1>11, <1>12, Sender DEF e, t, g, f
<1>14. l \in [Clients -> [Kinds -> Entry]] BY <1>2 DEF Types
<1>15. Placed(l, c, "send", e) = l BY <1>1, <1>14, PutSame DEF e
<1> QED BY <1>13, <1>15

\* A remainder is not more than the number.
LEMMA ModIsLess ==
    ASSUME NEW m \in Nat \ {0}, NEW v \in Nat
    PROVE  v % m <= v /\ v % m \in Nat
BY SMTT(20)

\* An acknowledgement of all that was sent means that all of it is written.
LEMMA AcknowledgedIsWritten ==
    ASSUME NEW l, NEW s, NEW o, NEW dk, NEW z, Right(l, s, o, dk, z), NEW c \in Clients, NEW p,
           p = l[c]["send"].fd, p # 0, "WAIT" \notin l[c]["send"].flags,
           s[p].toNear # <<>>, Head(s[p].toNear) = l[c]["send"].count
    PROVE  /\ s[p].link = "up" /\ Len(dk[Peer(c)]) = l[c]["send"].count
           /\ Written(s[p], l[c]["send"], l[Peer(c)]["get"], dk[Peer(c)])
<1> DEFINE e == l[c]["send"]
           t == s[p]
           g == l[Peer(c)]["get"]
           f == dk[Peer(c)]
<1>1. "send" \in Kinds /\ Peer(c) \in Clients BY TwoClients DEF Kinds
<1>2. Types(l, s, o, dk) /\ e \in Entry /\ Fits(c, "send", e, s) /\ Data(c, l, s, dk, z) BY <1>1, RightParts
<1>3. p \in DOMAIN s /\ Owns(c, "send", e, t) BY <1>2 DEF Fits, Uses
<1>4. t \in Socket /\ Stream(t) BY <1>3, RightParts
<1>5. t.link = "up" /\ t.toNear \in Seq(Nat) BY <1>4 DEF Stream, Socket
<1>6. Written(t, e, g, f) BY <1>2, <1>5 DEF Data, Sent
<1>7. 1 \in 1 .. Len(t.toNear) /\ t.toNear[1] = e.count BY <1>5
<1>8. f \in Seq(Nat) BY <1>1, <1>2 DEF Types
<1>9. e.count \in Nat BY <1>2 DEF Entry
<1> HIDE DEF e, t, g, f
<1>10. PICK v \in 0 .. Len(f) : t.toNear[1] = v % AckMod BY <1>6, <1>7 DEF Written
<1>11. v % AckMod <= v BY <1>8, <1>10, SizesAssumption, ModIsLess
<1>12. v % AckMod = e.count BY <1>7, <1>10
<1>13. Len(f) <= e.count BY <1>6 DEF Written
<1>14. Len(f) \in Nat BY <1>8
<1>15. Len(f) = e.count
  <2> DEFINE w == v % AckMod
  <2>1. w <= v /\ w = e.count BY <1>11, <1>12
  <2> HIDE DEF w
  <2> QED BY <1>9, <1>10, <1>13, <1>14, <2>1
<1> QED BY <1>5, <1>6, <1>15 DEF e, t, g, f

\* One entry lets its descriptor go.
LEMMA LetOne ==
    ASSUME NEW l, NEW s, NEW o, NEW dk, NEW z, Right(l, s, o, dk, z), NEW c \in Clients, NEW k \in Kinds,
           NEW x \in Entry, Left(k, l[c][k], x), NEW s2,
           \/ l[c][k].fd = 0 /\ s2 = s
           \/ l[c][k].fd # 0 /\ \E u : s2 = [s EXCEPT ![l[c][k].fd] = u] /\ Released(s[l[c][k].fd], c, u)
    PROVE  Right(Placed(l, c, k, x), s2, o, dk, z)
<1> DEFINE e == l[c][k]
           p == e.fd
           l2 == Placed(l, c, k, x)
<1>1. Types(l, s, o, dk) /\ e \in Entry /\ Fits(c, k, e, s) BY RightParts
<1>2. \A q \in DOMAIN s : q # 0 BY RightParts
<1>3. l \in [Clients -> [Kinds -> Entry]] /\ \E n \in Nat : s \in [1 .. n -> Socket] BY <1>1 DEF Types
<1>4. /\ l2 \in [Clients -> [Kinds -> Entry]] /\ l2[c][k] = x
      /\ \A d \in Clients, m \in Kinds : d # c \/ m # k => l2[d][m] = l[d][m]
      /\ \A d \in Clients : d # c => l2[d] = l[d]
  <2>1. l \in [Clients -> [Kinds -> Entry]] /\ c \in Clients /\ k \in Kinds /\ x \in Entry BY <1>3
  <2>2. IsPut(l, c, k, x, l2) BY ONLY <2>1, PutIs
  <2> HIDE DEF l2
  <2> QED BY <2>2 DEF IsPut
<1>5. p # 0 => p \in DOMAIN s BY <1>1 DEF Fits
<1>6. s2 = [q \in DOMAIN s |-> s2[q]] BY <1>3
<1>7. \A q \in DOMAIN s : IF q = p THEN Released(s[q], c, s2[q]) ELSE s2[q] = s[q]
  BY <1>2, <1>3, <1>5
<1>8. x.fd = 0 BY DEF Left
<1> HIDE DEF l2
<1>9. ASSUME NEW q \in DOMAIN s
      PROVE  (\E m \in Kinds : l[c][m].fd = q /\ l2[c][m].fd = 0) <=> q = p
  <2>1. q # 0 BY <1>2
  <2> QED BY <1>4, <1>8, <2>1
<1>10. \A m \in Kinds : l2[c][m] = l[c][m] \/ Left(m, l[c][m], l2[c][m]) BY <1>4
<1>11. \A q \in DOMAIN s : IF \E m \in Kinds : l[c][m].fd = q /\ l2[c][m].fd = 0
                           THEN Released(s[q], c, s2[q]) ELSE s2[q] = s[q]
  BY <1>7, <1>9
<1>12. Right(l2, s2, o, dk, z) BY <1>4, <1>6, <1>10, <1>11, LetGo
<1> QED BY <1>12 DEF l2

\* It closes it.
LEMMA CloseOne ==
    ASSUME NEW l, NEW s, NEW o, NEW dk, NEW z, Right(l, s, o, dk, z), NEW c \in Clients, NEW k \in Kinds,
           NEW x \in Entry, Left(k, l[c][k], x)
    PROVE  Right(Placed(l, c, k, x), Close(s, c, l[c][k].fd), o, dk, z)
<1> DEFINE p == l[c][k].fd
           u == ClosedBy(s[p], c)
<1>1. Fits(c, k, l[c][k], s) /\ (p # 0 => p \in DOMAIN s /\ s[p] \in Socket /\ Stream(s[p]))
  <2>1. Fits(c, k, l[c][k], s) BY RightParts
  <2>2. p # 0 => p \in DOMAIN s BY <2>1 DEF Fits
  <2> QED BY <2>1, <2>2, RightParts
<1>2. p # 0 => Released(s[p], c, u) BY <1>1, ClosedIsReleased
<1>3. Close(s, c, p) = IF p = 0 THEN s ELSE [s EXCEPT ![p] = u] BY DEF Close
<1> DEFINE s2 == Close(s, c, p)
<1> HIDE DEF u
<1>4. \/ l[c][k].fd = 0 /\ s2 = s
      \/ l[c][k].fd # 0 /\ \E v : s2 = [s EXCEPT ![l[c][k].fd] = v] /\ Released(s[l[c][k].fd], c, v)
  BY <1>2, <1>3
<1> HIDE DEF s2
<1>5. Right(Placed(l, c, k, x), s2, o, dk, z) BY <1>4, LetOne
<1> QED BY <1>5 DEF s2

NobodyIsEntry == Nobody \in Entry /\ \A k \in Kinds, e \in Entry : Left(k, e, Nobody)

\* No entry at all is what an entry may become.
LEMMA NobodyIs == NobodyIsEntry
BY DEF NobodyIsEntry, Nobody, Entry, Left, Offered, Flags

\* dcc_really_erase(), of entries that are right but for DCC_DELETE.
AreErased(l, s, c, dies, l2, s2) ==
    /\ l2 \in [Clients -> [Kinds -> Entry]] /\ dies \subseteq Kinds
    /\ \A d \in Clients : d # c => l2[d] = l[d]
    /\ \A m \in Kinds : l2[c][m] = IF m \in dies THEN Nobody ELSE l[c][m]
    /\ s2 = [p \in DOMAIN s |-> s2[p]]
    /\ \A p \in DOMAIN s : s2[p] = IF \E m \in dies : l[c][m].fd = p THEN ClosedBy(s[p], c) ELSE s[p]

\* What dcc_really_erase() leaves is right.
LEMMA ErasedIsRight ==
    ASSUME NEW l, NEW s, NEW o, NEW dk, NEW z, Right(l, s, o, dk, z), NEW c \in Clients, NEW dies,
           NEW l2, NEW s2, AreErased(l, s, c, dies, l2, s2)
    PROVE  Right(l2, s2, o, dk, z)
<1> USE DEF AreErased
<1>1. \A k \in Kinds : l[c][k] \in Entry BY RightParts
<1>2. Nobody.fd = 0 BY DEF Nobody
<1>3. \A m \in Kinds : l2[c][m] = l[c][m] \/ Left(m, l[c][m], l2[c][m])
  BY <1>1, NobodyIs DEF NobodyIsEntry
<1>4. ASSUME NEW p \in DOMAIN s
      PROVE  IF \E k \in Kinds : l[c][k].fd = p /\ l2[c][k].fd = 0
             THEN Released(s[p], c, s2[p]) ELSE s2[p] = s[p]
  <2>1. p # 0 /\ s[p] \in Socket /\ Stream(s[p]) BY RightParts
  <2>2. (\E k \in Kinds : l[c][k].fd = p /\ l2[c][k].fd = 0) <=> (\E m \in dies : l[c][m].fd = p)
    BY <1>2, <2>1
  <2>3. Released(s[p], c, ClosedBy(s[p], c)) BY <2>1, ClosedIsReleased
  <2> QED BY <2>2, <2>3
<1>5. \A p \in DOMAIN s : IF \E k \in Kinds : l[c][k].fd = p /\ l2[c][k].fd = 0
                          THEN Released(s[p], c, s2[p]) ELSE s2[p] = s[p]
  BY <1>4
<1> QED BY <1>3, <1>5, LetGo

\* A connect() succeeds or fails, or a connection breaks.
LEMMA NetRight ==
    ASSUME NEW l, NEW s, NEW o, NEW dk, NEW z, Right(l, s, o, dk, z), NEW p \in DOMAIN s, NEW u,
           \/ s[p].link = "syn" /\ u = IF s[p].listens THEN [s[p] EXCEPT !.link = "up"] ELSE Dead(s[p])
           \/ s[p].link = "up" /\ ~s[p].listens /\ u = Dead(s[p])
    PROVE  Right(l, [s EXCEPT ![p] = u], o, dk, z)
<1> DEFINE t == s[p]
           s2 == [s EXCEPT ![p] = u]
<1>1. Types(l, s, o, dk) /\ t \in Socket /\ Stream(t) BY RightParts
<1>2. l \in [Clients -> [Kinds -> Entry]] /\ dk \in [Clients -> Seq(Nat)] /\ \E n \in Nat : s \in [1 .. n -> Socket]
  BY <1>1 DEF Types
<1> HIDE DEF t
<1>3. /\ Dead(t) \in Socket /\ Dead(t).owner = t.owner /\ Dead(t).kind = t.kind /\ Dead(t).link = "dead"
      /\ Dead(t).toFar = <<>> /\ Dead(t).toNear = <<>> /\ Dead(t).listens = t.listens
      /\ Dead(t).near = t.near /\ Dead(t).far = t.far
  BY <1>1, EmptySeq DEF Dead, Socket
<1>4. t.listens => /\ [t EXCEPT !.link = "up"] \in Socket
                   /\ \A v : v = [t EXCEPT !.link = "up"] =>
                         /\ v.owner = t.owner /\ v.kind = t.kind /\ v.link = "up" /\ v.toFar = t.toFar
                         /\ v.toNear = t.toNear /\ v.listens = t.listens /\ v.near = t.near /\ v.far = t.far
                         /\ v.err = t.err
  BY <1>1 DEF Socket
<1>5. /\ t.link \in {"syn", "up"}
      /\ \/ t.listens /\ t.link = "syn" /\ u = [t EXCEPT !.link = "up"]
         \/ ~t.listens /\ u = Dead(t)
  BY DEF t
<1>6. /\ u \in Socket /\ u.owner = t.owner /\ u.kind = t.kind /\ u.listens = t.listens /\ u.near = t.near
      /\ u.far = t.far /\ u.link \in {"up", "dead"}
      /\ \/ t.listens /\ t.link = "syn" /\ u.link = "up" /\ u.toFar = t.toFar /\ u.toNear = t.toNear /\ u.err = t.err
         \/ ~t.listens /\ u.link = "dead" /\ u.toFar = <<>> /\ u.toNear = <<>>
  BY <1>3, <1>4, <1>5
<1>7. Len(<<>>) <= Block BY SizesAssumption
<1>8. Stream(u) BY <1>1, <1>6, <1>7 DEF Stream
<1>9. s2[p] = u /\ \A q \in DOMAIN s : q # p => s2[q] = s[q] BY <1>2
<1>10. PICK c \in Clients : TRUE BY <1>1 DEF Socket
<1>11. "chat" \in Kinds BY DEF Kinds
<1> DEFINE x == l[c]["chat"]
<1>12. x \in Entry /\ Fits(c, "chat", x, s) BY <1>11, RightParts
<1>13. Placed(l, c, "chat", x) = l BY <1>2, <1>11, PutSame
<1> HIDE DEF s2
<1>14. ASSUME NEW d \in Clients PROVE Data(d, l, s2, dk, z)
  <2> DEFINE e == l[d]["send"]
             g == l[Peer(d)]["get"]
             f == dk[Peer(d)]
  <2>1. "send" \in Kinds BY DEF Kinds
  <2>2. Data(d, l, s, dk, z) /\ Fits(d, "send", e, s) BY <2>1, RightParts
  <2>3. CASE e.fd # p
    <3>1. e.fd # 0 => s2[e.fd] = s[e.fd] BY <1>9, <2>2, <2>3 DEF Fits
    <3> QED BY <2>2, <3>1, SameData
  <2>4. CASE e.fd = p /\ p # 0
    <3>1. Sent(t, e, g, f, z) BY <2>2, <2>4 DEF Data, t
    <3>2. Owns(d, "send", e, t) BY <2>2, <2>4 DEF Fits, Uses, t
    <3> HIDE DEF e, g, f
    <3>3. "WAIT" \notin e.flags => ~t.listens BY <3>2 DEF Owns
    <3>4. Sent(u, e, g, f, z) BY <1>5, <1>6, <3>1, <3>3 DEF Sent
    <3> QED BY <1>9, <2>4, <3>4 DEF Data, e, g, f
  <2>5. p # 0 BY RightParts
  <2> QED BY <2>3, <2>4, <2>5
<1>15. x.fd # 0 => Owns(c, "chat", x, s2[x.fd]) \/ Uses(c, "chat", x, s2[x.fd])
  <2> SUFFICES ASSUME x.fd # 0 PROVE Owns(c, "chat", x, s2[x.fd]) \/ Uses(c, "chat", x, s2[x.fd]) OBVIOUS
  <2>1. x.fd \in DOMAIN s /\ (Owns(c, "chat", x, s[x.fd]) \/ Uses(c, "chat", x, s[x.fd])) BY <1>12 DEF Fits
  <2>2. s2[x.fd] = s[x.fd] \/ (x.fd = p /\ s2[x.fd] = u) BY <1>9, <2>1
  <2> HIDE DEF x
  <2>3. Owns(c, "chat", x, t) => Owns(c, "chat", x, u) BY <1>6 DEF Owns
  <2>4. Uses(c, "chat", x, t) => Uses(c, "chat", x, u) BY <1>6 DEF Uses
  <2> QED BY <2>1, <2>2, <2>3, <2>4 DEF t
<1>16. u.link = "none" <=> s[p].link = "none" BY <1>5, <1>6 DEF t
<1>17. "chat" = "get" => "WAIT" \notin x.flags BY <1>12 DEF Fits
<1>18. \A d \in Clients : Data(d, Placed(l, c, "chat", x), s2, dk, z) BY <1>13, <1>14
<1>19. /\ u.owner = s[p].owner /\ u.kind = s[p].kind /\ u.far = s[p].far
       /\ u.listens = s[p].listens /\ u.near = s[p].near
  BY <1>6 DEF t
<1>20. Right(Placed(l, c, "chat", x), s2, o, dk, z)
  BY <1>2, <1>6, <1>8, <1>11, <1>12, <1>15, <1>16, <1>17, <1>18, <1>19, SameEnds, ZenonT(60) DEF s2
<1> QED BY <1>13, <1>20 DEF s2

\* A piece of a sequence
LEMMA Slice ==
    ASSUME NEW r \in Seq(Nat), NEW a \in Nat, NEW k \in Nat, a + k <= Len(r)
    PROVE  LET q == SubSeq(r, a + 1, a + k)
           IN  q \in Seq(Nat) /\ Len(q) = k /\ \A i \in 1 .. k : q[i] = r[a + i]
<1> DEFINE q == SubSeq(r, a + 1, a + k)
<1>1. Len(r) \in Nat BY LenProperties
<1>2. ASSUME NEW i \in a + 1 .. a + k PROVE r[i] \in Nat
  <2>1. i \in 1 .. Len(r) BY <1>1
  <2> QED BY <2>1, ElementOfSeq
<1> DEFINE m == a + 1
           n == a + k
<1>3. m \in Int /\ n \in Int /\ \A i \in m .. n : r[i] \in Nat BY <1>2
<1>4. n - m + 1 = k /\ (m <= n <=> 1 <= k) /\ \A i \in 1 .. k : m + i - 1 = a + i OBVIOUS
<1> HIDE DEF m, n
<1>5. /\ SubSeq(r, m, n) \in Seq(Nat) /\ Len(SubSeq(r, m, n)) = (IF m <= n THEN n - m + 1 ELSE 0)
      /\ \A i \in 1 .. n - m + 1 : SubSeq(r, m, n)[i] = r[m + i - 1]
  BY <1>3, SubSeqProperties, SMTT(30)
<1>6. q = SubSeq(r, m, n) BY DEF m, n
<1> HIDE DEF q
<1>7. q \in Seq(Nat) /\ Len(q) = (IF m <= n THEN n - m + 1 ELSE 0) BY <1>5, <1>6
<1>8. Len(q) = k BY <1>4, <1>7
<1>9. \A i \in 1 .. k : q[i] = r[m + i - 1] BY <1>4, <1>5, <1>6
<1>10. \A i \in 1 .. k : q[i] = r[a + i] BY <1>4, <1>9
<1> QED BY <1>7, <1>8, <1>10 DEF q

\* What is left of a stream, and what was taken of it
AreParts(f, r, n, rest, f2) ==
    /\ Len(r) \in Nat /\ Len(f) \in Nat /\ n \in Nat /\ 1 <= n /\ n <= Len(r) /\ r # <<>>
    /\ rest \in Seq(Nat) /\ Len(rest) = Len(r) - n /\ \A i \in 1 .. Len(rest) : rest[i] = r[n + i]
    /\ f2 \in Seq(Nat) /\ Len(f2) = Len(f) + n
    /\ \A i \in 1 .. Len(f2) : f2[i] = IF i <= Len(f) THEN f[i] ELSE r[i - Len(f)]

\* recv() of n pieces takes them from the stream and write() adds them to the file.
LEMMA Pieces ==
    ASSUME NEW f \in Seq(Nat), NEW r \in Seq(Nat), NEW n \in DOMAIN r,
           NEW rest, rest = SubSeq(r, n + 1, Len(r)), NEW f2, f2 = f \o SubSeq(r, 1, n)
    PROVE  AreParts(f, r, n, rest, f2)
<1> DEFINE m == Len(r)
           part == SubSeq(r, 1, n)
           k == m - n
<1>1. m \in Nat /\ Len(f) \in Nat /\ DOMAIN r = 1 .. m BY LenProperties
<1>2. n \in 1 .. m /\ r # <<>> BY <1>1
<1>3. k \in Nat /\ n + k = m /\ n + k <= m /\ n \in Nat /\ 0 + n <= m /\ 0 + n = n /\ 0 + 1 = 1 BY <1>1, <1>2, SMTT(30)
<1> HIDE DEF k
<1>4. rest \in Seq(Nat) /\ Len(rest) = k /\ \A i \in 1 .. k : rest[i] = r[n + i]
  <2> DEFINE q == SubSeq(r, n + 1, n + k)
  <2>1. q \in Seq(Nat) /\ Len(q) = k /\ \A i \in 1 .. k : q[i] = r[n + i] BY <1>3, Slice, ZenonT(60)
  <2>2. rest = q BY <1>3
  <2> HIDE DEF q
  <2> QED BY <2>1, <2>2
<1>5. part \in Seq(Nat) /\ Len(part) = n /\ \A i \in 1 .. n : part[i] = r[i]
  <2> DEFINE q == SubSeq(r, 0 + 1, 0 + n)
  <2>1. q \in Seq(Nat) /\ Len(q) = n /\ \A i \in 1 .. n : q[i] = r[0 + i] BY <1>3, Slice, ZenonT(60)
  <2>2. part = q BY <1>3
  <2>3. \A i \in 1 .. n : 0 + i = i OBVIOUS
  <2> HIDE DEF q, part
  <2> QED BY <2>1, <2>2, <2>3
<1>6. f2 = f \o part OBVIOUS
<1> HIDE DEF part
<1>7. /\ f \o part \in Seq(Nat) /\ Len(f \o part) = Len(f) + Len(part)
      /\ \A i \in 1 .. Len(f) + Len(part) : (f \o part)[i] = IF i <= Len(f) THEN f[i] ELSE part[i - Len(f)]
  BY <1>5, ConcatProperties
<1>8. f2 \in Seq(Nat) /\ Len(f2) = Len(f) + n BY <1>5, <1>6, <1>7
<1>9. ASSUME NEW i \in 1 .. Len(f2) PROVE f2[i] = IF i <= Len(f) THEN f[i] ELSE r[i - Len(f)]
  <2>1. i \in 1 .. Len(f) + n BY <1>8
  <2>2. f2[i] = IF i <= Len(f) THEN f[i] ELSE part[i - Len(f)] BY <1>5, <1>6, <1>7, <2>1
  <2>3. ~(i <= Len(f)) => i - Len(f) \in 1 .. n BY <1>1, <1>3, <2>1, SMTT(30)
  <2> QED BY <1>5, <2>2, <2>3
<1>10. Len(rest) = Len(r) - n /\ n \in Nat /\ 1 <= n /\ n <= Len(r) BY <1>2, <1>3, <1>4 DEF k
<1>11. \A i \in 1 .. Len(rest) : rest[i] = r[n + i] BY <1>4
<1> QED BY <1>1, <1>2, <1>4, <1>8, <1>9, <1>10, <1>11 DEF AreParts

\* The socket of a file once some of what has come is read
Rest(t, u, n) ==
    /\ u \in Socket /\ Stream(u) /\ u.owner = t.owner /\ u.kind = t.kind /\ u.listens = t.listens
    /\ u.near = t.near /\ u.far = t.far
    /\ u.link = "up" => /\ t.near /\ u.toFar = SubSeq(t.toFar, n + 1, Len(t.toFar))
    /\ u.link \in {"up", "dead"}

\* A socket of which n pieces are read.
LEMMA TakenIs ==
    ASSUME NEW t \in Socket, Stream(t), NEW n \in DOMAIN t.toFar
    PROVE  LET v == [t EXCEPT !.toFar = SubSeq(@, n + 1, Len(@))]
           IN  /\ v \in Socket /\ Stream(v) /\ v.owner = t.owner /\ v.kind = t.kind /\ v.listens = t.listens
               /\ v.near = t.near /\ v.far = t.far /\ v.link = t.link /\ v.err = t.err /\ v.toNear = t.toNear
               /\ v.toFar = SubSeq(t.toFar, n + 1, Len(t.toFar))
               /\ t.link = "up" /\ ~t.listens /\ t.far /\ t.kind = "send"
<1> DEFINE r == SubSeq(t.toFar, n + 1, Len(t.toFar))
           f2 == <<>> \o SubSeq(t.toFar, 1, n)
           v == [t EXCEPT !.toFar = SubSeq(@, n + 1, Len(@))]
<1>1. t.toFar \in Seq(Nat) /\ <<>> \in Seq(Nat) BY DEF Socket
<1>2. /\ r \in Seq(Nat) /\ Len(r) = Len(t.toFar) - n /\ t.toFar # <<>> /\ Len(t.toFar) \in Nat
      /\ n \in Nat /\ 1 <= n /\ n <= Len(t.toFar)
  <2> HIDE DEF r, f2
  <2> DEFINE q == t.toFar
  <2>1. q \in Seq(Nat) /\ n \in DOMAIN q BY <1>1
  <2>2. r = SubSeq(q, n + 1, Len(q)) BY DEF r
  <2>3. f2 = <<>> \o SubSeq(q, 1, n) BY DEF f2
  <2> HIDE DEF q
  <2>4. AreParts(<<>>, q, n, r, f2) BY <1>1, <2>1, <2>2, <2>3, Pieces
  <2> QED BY <2>4 DEF q, AreParts
<1>3. v = [t EXCEPT !.toFar = r] OBVIOUS
<1> HIDE DEF r, v
<1>4. /\ v \in Socket /\ v.owner = t.owner /\ v.kind = t.kind /\ v.listens = t.listens
      /\ v.near = t.near /\ v.far = t.far /\ v.link = t.link /\ v.err = t.err /\ v.toNear = t.toNear
      /\ v.toFar = r
  BY <1>2, <1>3 DEF Socket
<1>5. t.link = "up" /\ ~t.listens /\ t.far /\ t.kind = "send" BY <1>2 DEF Stream
<1>6. Len(t.toFar) <= Block BY DEF Stream
<1>7. Len(r) <= Block BY <1>2, <1>6, SizesAssumption
<1>8. Stream(v) BY <1>4, <1>5, <1>7 DEF Stream
<1> QED BY <1>4, <1>5, <1>8 DEF v, r

\* It is acknowledged, unless nobody is there any more.
LEMMA TakenAndAcked ==
    ASSUME NEW t \in Socket, Stream(t), NEW n \in DOMAIN t.toFar, NEW w \in Nat, NEW v,
           v = [t EXCEPT !.toFar = SubSeq(@, n + 1, Len(@))], NEW u,
           u = Pushed(v, t.near, [v EXCEPT !.toNear = Append(@, w)])
    PROVE  Rest(t, u, n) /\ (u.link = "up" => u.toNear = Append(t.toNear, w))
<1> DEFINE r == SubSeq(t.toFar, n + 1, Len(t.toFar))
<1>1. /\ v \in Socket /\ Stream(v) /\ v.owner = t.owner /\ v.kind = t.kind /\ v.listens = t.listens
      /\ v.near = t.near /\ v.far = t.far /\ v.link = t.link /\ v.err = t.err /\ v.toNear = t.toNear
      /\ v.toFar = r /\ t.link = "up" /\ ~t.listens /\ t.far /\ t.kind = "send"
  BY TakenIs, ZenonT(60)
<1>2. u = IF t.near THEN [v EXCEPT !.toNear = Append(@, w)] ELSE Dead(v) BY <1>1 DEF Pushed
<1>3. v.toNear \in Seq(Nat) BY <1>1 DEF Socket
<1>4. Append(v.toNear, w) \in Seq(Nat) BY <1>3, AppendProperties
<1> HIDE DEF r
<1>5. Len(<<>>) <= Block BY SizesAssumption
<1>6. CASE t.near
  <2> DEFINE a == Append(v.toNear, w)
             y == [v EXCEPT !.toNear = a]
  <2>1. u = y BY <1>2, <1>6
  <2>2. a \in Seq(Nat) BY <1>4
  <2> HIDE DEF a
  <2>3. /\ y \in Socket /\ y.owner = v.owner /\ y.kind = v.kind /\ y.listens = v.listens
        /\ y.near = v.near /\ y.far = v.far /\ y.link = v.link /\ y.err = v.err /\ y.toNear = a /\ y.toFar = v.toFar
    BY <1>1, <2>2 DEF Socket
  <2> HIDE DEF y
  <2>4. Stream(y) BY <1>1, <1>6, <2>3, ZenonT(60) DEF Stream
  <2>5. Rest(t, y, n) /\ y.toNear = a BY <1>1, <1>6, <2>3, <2>4 DEF Rest, r
  <2>6. a = Append(t.toNear, w) BY <1>1 DEF a
  <2> QED BY <2>1, <2>5, <2>6
<1>7. CASE ~t.near
  <2> DEFINE y == Dead(v)
  <2>1. u = y BY <1>2, <1>7
  <2>2. /\ y \in Socket /\ y.owner = v.owner /\ y.kind = v.kind /\ y.listens = v.listens
        /\ y.near = v.near /\ y.far = v.far /\ y.link = "dead" /\ y.toNear = <<>> /\ y.toFar = <<>>
    BY <1>1, EmptySeq, ZenonT(60) DEF Dead, Socket
  <2> HIDE DEF y
  <2>3. Stream(y) BY <1>1, <1>5, <1>7, <2>2 DEF Stream
  <2>4. Rest(t, y, n) /\ y.link # "up" BY <1>1, <2>2, <2>3 DEF Rest
  <2> QED BY <2>1, <2>4
<1> QED BY <1>6, <1>7

\* One more acknowledgement
IsOneMore(m, w, a) == \A i \in 1 .. Len(a) : (i \in 1 .. Len(m) /\ a[i] = m[i]) \/ a[i] = w

\* What is in a sequence with one more element.
LEMMA OneMore ==
    ASSUME NEW m \in Seq(Nat), NEW w \in Nat, NEW a, a = Append(m, w)
    PROVE  IsOneMore(m, w, a)
<1>1. /\ Append(m, w) \in Seq(Nat) /\ Len(Append(m, w)) = Len(m) + 1 /\ Append(m, w)[Len(m) + 1] = w
      /\ \A i \in 1 .. Len(m) : Append(m, w)[i] = m[i]
  BY AppendProperties
<1>2. Len(m) \in Nat BY LenProperties
<1> DEFINE k == Len(m)
<1>3. \A i \in 1 .. k + 1 : i \in 1 .. k \/ i = k + 1
  <2>1. k \in Nat BY <1>2
  <2> HIDE DEF k
  <2> QED BY <2>1
<1> QED BY <1>1, <1>3 DEF IsOneMore

\* What was read continues what was written.
LEMMA WrittenMore ==
    ASSUME NEW t, NEW e, NEW g, NEW f, Written(t, e, g, f), t.far, e.count \in Nat,
           NEW n, NEW u, NEW f2, AreParts(f, t.toFar, n, u.toFar, f2),
           NEW w, w = Ack(g, n), IsOneMore(t.toNear, w, u.toNear), NEW x, x.count = g.count + n
    PROVE  Written(u, e, x, f2)
<1> DEFINE r == t.toFar
           rest == u.toFar
           m == t.toNear
           a == u.toNear
<1>1. /\ Len(r) \in Nat /\ Len(f) \in Nat /\ n \in Nat /\ 1 <= n /\ n <= Len(r)
      /\ Len(rest) = Len(r) - n /\ \A i \in 1 .. Len(rest) : rest[i] = r[n + i]
      /\ Len(f2) = Len(f) + n /\ \A i \in 1 .. Len(f2) : f2[i] = IF i <= Len(f) THEN f[i] ELSE r[i - Len(f)]
  BY DEF AreParts
<1>2. /\ Len(f) <= e.count /\ \A i \in 1 .. Len(f) : f[i] = i
      /\ g.count = Len(f) /\ Len(r) = e.count - Len(f) /\ \A i \in 1 .. Len(r) : r[i] = Len(f) + i
      /\ \A i \in 1 .. Len(m) : \E v \in 0 .. Len(f) : m[i] = v % AckMod
  BY DEF Written
<1>3. \A i \in 1 .. Len(a) : (i \in 1 .. Len(m) /\ a[i] = m[i]) \/ a[i] = w BY DEF IsOneMore
<1> DEFINE ec == e.count
           gc == g.count
           k == Len(f)
           k2 == Len(f2)
           lr == Len(r)
           lt == Len(rest)
<1>4. ec \in Nat /\ k \in Nat /\ n \in Nat /\ lr \in Nat /\ lr = ec - k /\ 1 <= n /\ n <= lr /\ k2 = k + n /\ lt = lr - n
      /\ gc = k
  BY <1>1, <1>2
<1>5. w = k2 % AckMod /\ x.count = k2
  <2>1. gc + n = k2 BY <1>4
  <2>2. w = (gc + n) % AckMod BY DEF Ack
  <2> QED BY <2>1, <2>2
<1> HIDE DEF r, rest, m, a, ec, gc, k, k2, lr, lt
<1>6. k2 <= ec /\ lt = ec - k2 BY <1>4
<1>7. ASSUME NEW i \in 1 .. k2 PROVE f2[i] = i
  <2>1. CASE i <= k
    <3>1. i \in 1 .. k BY <1>4, <2>1
    <3> QED BY <1>1, <1>2, <2>1, <3>1 DEF k, k2
  <2>2. CASE ~(i <= k)
    <3>1. i - k \in 1 .. lr BY <1>4, <2>2
    <3>2. r[i - k] = k + (i - k) BY <1>2, <3>1 DEF lr, k
    <3>3. f2[i] = r[i - k] BY <1>1, <2>2 DEF k, k2
    <3> QED BY <1>4, <3>2, <3>3
  <2> QED BY <2>1, <2>2
<1>8. ASSUME NEW i \in 1 .. lt PROVE rest[i] = k2 + i
  <2>1. n + i \in 1 .. lr BY <1>4
  <2>2. r[n + i] = k + (n + i) BY <1>2, <2>1 DEF lr, k
  <2>3. rest[i] = r[n + i] BY <1>1 DEF lt
  <2> QED BY <1>4, <2>2, <2>3
<1>9. ASSUME NEW i \in 1 .. Len(a) PROVE \E v \in 0 .. k2 : a[i] = v % AckMod
  <2>1. CASE i \in 1 .. Len(m) /\ a[i] = m[i]
    <3>1. PICK v \in 0 .. k : m[i] = v % AckMod BY <1>2, <2>1 DEF k
    <3>2. v \in 0 .. k2 BY <1>4
    <3> QED BY <2>1, <3>1, <3>2
  <2>2. CASE a[i] = w
    <3>1. k2 \in 0 .. k2 BY <1>4
    <3> QED BY <1>5, <2>2, <3>1
  <2> QED BY <1>3, <2>1, <2>2
<1>10. x.count = k2 BY <1>5
<1> QED BY <1>6, <1>7, <1>8, <1>9, <1>10 DEF Written, ec, k2, lt, rest, a

\* recv() of a file: what is left of the stream, what is written and what is acknowledged
LEMMA Received ==
    ASSUME NEW l, NEW s, NEW o, NEW dk, NEW z, Right(l, s, o, dk, z), NEW c \in Clients, NEW p,
           p = l[c]["get"].fd, p # 0, NEW n, s[p].toFar # <<>>,
           NEW x \in Entry, x.fd = p, x.on = l[c]["get"].on, x.port = l[c]["get"].port,
           x.flags = l[c]["get"].flags, x.count = l[c]["get"].count + n, NEW u, Rest(s[p], u, n),
           NEW f2 \in Seq(Nat), u.link = "up" => /\ AreParts(dk[c], s[p].toFar, n, u.toFar, f2)
                                                 /\ IsOneMore(s[p].toNear, Ack(l[c]["get"], n), u.toNear),
           NEW dk2 \in [Clients -> Seq(Nat)], dk2[c] = f2, \A b \in Clients : b # c => dk2[b] = dk[b]
    PROVE  Right(Placed(l, c, "get", x), [s EXCEPT ![p] = u], o, dk2, z)
<1> DEFINE g == l[c]["get"]
           t == s[p]
           d == Peer(c)
           e == l[d]["send"]
           f == dk[c]
           l2 == Placed(l, c, "get", x)
           s2 == [s EXCEPT ![p] = u]
<1>1. "send" \in Kinds /\ "get" \in Kinds /\ d \in Clients /\ d # c /\ Peer(d) = c BY TwoClients DEF Kinds
<1>2. /\ Types(l, s, o, dk) /\ g \in Entry /\ Fits(c, "get", g, s) /\ Data(d, l, s, dk, z) /\ Data(c, l, s, dk, z)
      /\ Once(d, l, s, o) /\ Fits(d, "send", e, s) /\ Fits(c, "send", l[c]["send"], s) /\ e \in Entry
  BY <1>1, RightParts, SMTT(30)
<1>3. p \in DOMAIN s /\ Uses(c, "get", g, t) BY <1>2 DEF Fits, Owns
<1>4. t \in Socket /\ Stream(t) BY <1>3, RightParts
<1>5. t.owner = d /\ t.kind = "send" /\ t.far BY <1>3, Partners DEF Uses
<1>6. /\ l \in [Clients -> [Kinds -> Entry]] /\ dk \in [Clients -> Seq(Nat)] /\ \E m \in Nat : s \in [1 .. m -> Socket]
  BY <1>2 DEF Types
<1>7. t.link = "up" /\ ~t.listens BY <1>4 DEF Stream
<1>8. dk2 \in [Clients -> Seq(Nat)] /\ dk2[c] = f2 /\ \A b \in Clients : b # c => dk2[b] = dk[b] BY SMTT(30)
<1> HIDE DEF t, f
<1>9. /\ u \in Socket /\ Stream(u) /\ u.owner = t.owner /\ u.kind = t.kind /\ u.listens = t.listens
      /\ u.near = t.near /\ u.far = t.far /\ u.link \in {"up", "dead"}
  BY DEF Rest, t
<1>10. s2[p] = u /\ \A q \in DOMAIN s : q # p => s2[q] = s[q] BY <1>3, <1>6
<1>11. l2[c]["get"] = x /\ l2[d]["send"] = e /\ l2[c]["send"] = l[c]["send"] /\ l2[d]["get"] = l[d]["get"]
  <2>1. l \in [Clients -> [Kinds -> Entry]] /\ c \in Clients /\ "get" \in Kinds /\ x \in Entry BY <1>1, <1>6
  <2>2. IsPut(l, c, "get", x, l2) BY ONLY <2>1, PutIs
  <2> HIDE DEF l2
  <2> QED BY <1>1, <2>2 DEF IsPut
<1> HIDE DEF l2, s2
<1>12. Data(c, l2, s2, dk2, z)
  <2>1. l[c]["send"].fd # 0 => l[c]["send"].fd \in DOMAIN s /\ l[c]["send"].fd # p
    BY <1>1, <1>2, <1>5 DEF Fits, Owns, Uses, t
  <2>2. l[c]["send"].fd # 0 => s2[l[c]["send"].fd] = s[l[c]["send"].fd] BY <1>10, <2>1
  <2>3. dk2[d] = dk[d] BY <1>1, <1>8
  <2>4. l2[d]["get"].count = l[d]["get"].count BY <1>11
  <2> QED BY <1>2, <1>11, <2>2, <2>3, <2>4, SameData
<1>13. Data(d, l2, s2, dk2, z)
  <2>1. CASE e.fd = 0 BY <1>11, <2>1 DEF Data
  <2>2. CASE e.fd = p
    <3>1. Sent(t, e, g, f, z) BY <1>1, <1>2, <2>2 DEF Data, t, f
    <3>2. "WAIT" \notin e.flags BY <1>2, <1>7, <2>2 DEF Fits, Owns, Uses, t
    <3>3. e.count \in Nat BY <1>2 DEF Entry
    <3> HIDE DEF e, g
    <3>4. Written(t, e, g, f) BY <1>7, <3>1, <3>2 DEF Sent
    <3>5. ASSUME u.link = "up" PROVE Written(u, e, x, f2)
      <4>1. AreParts(f, t.toFar, n, u.toFar, f2) BY <3>5 DEF f, t
      <4>2. IsOneMore(t.toNear, Ack(g, n), u.toNear) BY <3>5 DEF g, t
      <4>3. x.count = g.count + n BY DEF g
      <4> QED BY <1>5, <3>3, <3>4, <4>1, <4>2, <4>3, WrittenMore
    <3>6. Sent(u, e, x, f2, z) BY <3>1, <3>2, <3>5 DEF Sent
    <3> QED BY <1>1, <1>8, <1>10, <1>11, <2>2, <3>6 DEF Data
  <2>3. CASE e.fd # 0 /\ e.fd # p
    <3>1. e.fd \in DOMAIN s BY <1>2, <2>3 DEF Fits
    <3>2. s[e.fd].link = "none" BY <1>1, <1>2, <2>3 DEF Once
    <3>3. s2[e.fd] = s[e.fd] BY <1>10, <2>3, <3>1
    <3>4. Sent(s[e.fd], e, l[c]["get"], dk[c], z) BY <1>1, <1>2, <2>3 DEF Data
    <3> HIDE DEF e
    <3>5. Sent(s2[e.fd], e, x, f2, z) BY <3>2, <3>3, <3>4 DEF Sent
    <3> QED BY <1>1, <1>8, <1>11, <3>5 DEF Data
  <2> QED BY <2>1, <2>2, <2>3
<1>14. \A b \in Clients : Data(b, l2, s2, dk2, z) BY <1>12, <1>13, TwoClients
<1>15. Uses(c, "get", x, s2[x.fd]) BY <1>3, <1>9, <1>10 DEF Uses
<1>16. "WAIT" \notin x.flags /\ (Offered(x) => Offered(g)) BY <1>3 DEF Uses, Offered
<1>17. u.link = "none" <=> t.link = "none" BY <1>7, <1>9
<1>18. /\ u.owner = s[p].owner /\ u.kind = s[p].kind /\ u.far = s[p].far
       /\ u.listens = s[p].listens /\ u.near = s[p].near /\ u \in Socket /\ Stream(u)
       /\ u.link = "none" <=> s[p].link = "none"
  BY <1>9, <1>17 DEF t
<1>19. /\ x.fd = l[c]["get"].fd /\ x.on = l[c]["get"].on /\ x.port = l[c]["get"].port
       /\ "OFFER" \in x.flags => "OFFER" \in l[c]["get"].flags
       /\ Offered(x) => Offered(l[c]["get"])
  BY <1>16, SMTT(30) DEF g
<1>20. Right(l2, s2, o, dk2, z)
  BY <1>1, <1>3, <1>8, <1>14, <1>15, <1>16, <1>18, <1>19, SameEnds, ZenonT(60) DEF l2, s2
<1> QED BY <1>20 DEF l2, s2

\* While c has a file on offer, nobody is connected to the peer that sends one.
LEMMA UnreadOffer ==
    ASSUME NEW l, NEW s, NEW o, NEW dk, NEW z, Right(l, s, o, dk, z), NEW c \in Clients,
           Offered(l[c]["get"]), l[Peer(c)]["send"].fd # 0
    PROVE  LET e == l[Peer(c)]["send"]
           IN  e.fd \in DOMAIN s /\ s[e.fd].link = "none" /\ Sent(s[e.fd], e, l[c]["get"], dk[c], z)
<1> DEFINE d == Peer(c)
           e == l[d]["send"]
<1>1. "send" \in Kinds /\ d \in Clients /\ Peer(d) = c BY TwoClients DEF Kinds
<1>2. Fits(d, "send", e, s) /\ Once(d, l, s, o) /\ Data(d, l, s, dk, z) BY <1>1, RightParts
<1>3. e.fd \in DOMAIN s BY <1>2 DEF Fits
<1>4. s[e.fd].link = "none" BY <1>1, <1>2 DEF Once
<1>5. Sent(s[e.fd], e, l[c]["get"], dk[c], z) BY <1>1, <1>2 DEF Data
<1> QED BY <1>3, <1>4, <1>5

\* A file that is on offer has not been written to.
LEMMA NewFile ==
    ASSUME NEW l, NEW s, NEW o, NEW dk, NEW z, Right(l, s, o, dk, z), NEW c \in Clients,
           Offered(l[c]["get"]), NEW dk2, dk2 = [dk EXCEPT ![c] = <<>>]
    PROVE  Right(l, s, o, dk2, z)
<1>1. /\ Types(l, s, o, dk) /\ z \in Nat
      /\ \A d \in Clients, m \in Kinds : Fits(d, m, l[d][m], s)
      /\ \A q \in DOMAIN s : HasEntry(q, s[q], l) /\ Stream(s[q])
      /\ \A d \in Clients : Queued(d, s, o) /\ Once(d, l, s, o) /\ Data(d, l, s, dk, z)
  BY RightParts
<1>2. Types(l, s, o, dk2) BY <1>1, EmptySeq DEF Types
<1>3. \A b \in Clients : b # c => dk2[b] = dk[b]
  <2>1. dk \in [Clients -> Seq(Nat)] BY <1>1 DEF Types
  <2> QED BY <2>1
<1>4. ASSUME NEW d \in Clients PROVE Data(d, l, s, dk2, z)
  <2>1. CASE Peer(d) # c
    <3>1. dk2[Peer(d)] = dk[Peer(d)] BY <1>3, <2>1, TwoClients
    <3>2. Data(d, l, s, dk, z) BY <1>1
    <3> QED BY <3>1, <3>2 DEF Data
  <2>2. CASE Peer(d) = c
    <3>1. d = Peer(c) BY <2>2, TwoClients
    <3> DEFINE e == l[d]["send"]
               g == l[c]["get"]
               f == dk2[c]
    <3>2. e.fd # 0 => s[e.fd].link = "none" /\ Sent(s[e.fd], e, g, dk[c], z) BY <3>1, UnreadOffer
    <3> HIDE DEF e, g, f
    <3>3. e.fd # 0 => Sent(s[e.fd], e, g, f, z) BY <3>2 DEF Sent
    <3> QED BY <2>2, <3>3 DEF Data, e, g, f
  <2> QED BY <2>1, <2>2
<1> QED BY <1>1, <1>2, <1>4 DEF Right

\* An offer is answered by connect().
LEMMA Dialed ==
    ASSUME NEW l, NEW s, NEW o, NEW dk, NEW z, Right(l, s, o, dk, z), NEW c \in Clients, NEW k \in Kinds,
           NEW p, p = l[c][k].port, l[c][k].on, Offered(l[c][k]), "WAIT" \notin l[c][k].flags,
           k = "get" => dk[c] = <<>>,
           NEW x \in Entry, x.fd = p, x.on, x.port = p, x.count = 0,
           x.flags = l[c][k].flags \cup {"PEND", "ACTIVE"},
           NEW u \in Socket, u.link = "syn", u.far, u.owner = s[p].owner, u.kind = s[p].kind,
           u.listens = s[p].listens, u.near = s[p].near, u.err = s[p].err, u.toFar = s[p].toFar, u.toNear = s[p].toNear
    PROVE  Right(Placed(l, c, k, x), [s EXCEPT ![p] = u], o, dk, z)
<1> DEFINE e == l[c][k]
           t == s[p]
           d == Peer(c)
           l2 == Placed(l, c, k, x)
           s2 == [s EXCEPT ![p] = u]
<1>1. "send" \in Kinds /\ "get" \in Kinds /\ d \in Clients /\ d # c /\ Peer(d) = c BY TwoClients DEF Kinds
<1>2. /\ Types(l, s, o, dk) /\ z \in Nat
      /\ \A b \in Clients, m \in Kinds : Fits(b, m, l[b][m], s) /\ l[b][m] \in Entry
      /\ \A q \in DOMAIN s : HasEntry(q, s[q], l) /\ Stream(s[q]) /\ s[q] \in Socket /\ q \in Nat /\ q # 0
      /\ \A b \in Clients : Queued(b, s, o) /\ Once(b, l, s, o) /\ Data(b, l, s, dk, z)
  BY RightParts
<1>3. Fits(c, k, e, s) BY <1>2
<1>4. e.fd = 0 BY <1>3 DEF Fits, Owns, Uses, Offered
<1>5. k # "send" /\ p \in DOMAIN s /\ t.owner = d /\ t.kind = Partner(k) BY <1>3 DEF Fits, Offered
<1>6. HasEntry(p, t, l) /\ Stream(t) /\ p # 0 BY <1>2, <1>5, SMTT(30)
<1>7. ~t.far
  <2>1. Peer(t.owner) = c /\ Partner(t.kind) = k BY <1>1, <1>5, Partners, SMTT(30)
  <2> QED BY <1>4, <1>6, <2>1 DEF HasEntry
<1>8. k = "get" /\ l[d]["send"].fd # 0 =>
          /\ l[d]["send"].fd \in DOMAIN s /\ s[l[d]["send"].fd].link = "none"
          /\ Sent(s[l[d]["send"].fd], l[d]["send"], l[c]["get"], dk[c], z)
  BY UnreadOffer
<1>9. t.kind = "send" => k = "get" /\ ~t.near
  <2> SUFFICES ASSUME t.kind = "send" PROVE k = "get" /\ ~t.near OBVIOUS
  <2>1. k = "get" BY <1>5, Partners DEF Kinds
  <2>2. t.near => l[d]["send"].fd = p BY <1>5, <1>6 DEF HasEntry
  <2>3. t.near => t.link = "none" BY <1>6, <1>8, <2>1, <2>2, SMTT(30)
  <2>4. ~t.near BY <1>6, <2>3 DEF Stream
  <2> QED BY <2>1, <2>4
<1>10. /\ l \in [Clients -> [Kinds -> Entry]] /\ dk \in [Clients -> Seq(Nat)] BY <1>2 DEF Types
<1>11. /\ l2 \in [Clients -> [Kinds -> Entry]] /\ l2[c][k] = x
       /\ \A b \in Clients, m \in Kinds : b # c \/ m # k => l2[b][m] = l[b][m]
  <2>1. l \in [Clients -> [Kinds -> Entry]] /\ c \in Clients /\ k \in Kinds /\ x \in Entry BY <1>10
  <2>2. IsPut(l, c, k, x, l2) BY ONLY <2>1, PutIs
  <2> HIDE DEF l2
  <2> QED BY <2>2 DEF IsPut
<1>12. /\ DOMAIN s2 = DOMAIN s /\ s2[p] = u /\ \A q \in DOMAIN s : q # p => s2[q] = s[q]
  <2>1. \E m \in Nat : s \in [1 .. m -> Socket] BY <1>2 DEF Types
  <2> QED BY <1>5, <2>1
<1>13. Types(l2, s2, o, dk)
  <2>1. PICK m \in Nat : s \in [1 .. m -> Socket] BY <1>2 DEF Types
  <2>2. s2 \in [1 .. m -> Socket] BY <2>1
  <2> QED BY <1>2, <1>11, <2>2 DEF Types
<1> HIDE DEF l2, s2
<1>14. \A q \in DOMAIN s : s2[q].owner = s[q].owner /\ s2[q].kind = s[q].kind /\ s2[q].listens = s[q].listens
                           /\ s2[q].near = s[q].near
  BY <1>12
<1>15. "WAIT" \notin x.flags /\ "ACTIVE" \in x.flags /\ ("OFFER" \in x.flags <=> "OFFER" \in e.flags) /\ ~Offered(x)
  BY DEF Offered
<1>16. ASSUME NEW b \in Clients, NEW m \in Kinds PROVE Fits(b, m, l2[b][m], s2)
  <2>1. CASE b = c /\ m = k
    <3>1. Uses(c, k, x, s2[x.fd]) BY <1>5, <1>12, <1>15 DEF Uses
    <3>2. "OFFER" \in x.flags => /\ k # "send" /\ x.port \in DOMAIN s2
                                 /\ s2[x.port].owner = Peer(c) /\ s2[x.port].kind = Partner(k)
      BY <1>5, <1>12, <1>14
    <3> QED BY <1>5, <1>11, <1>12, <1>15, <2>1, <3>1, <3>2 DEF Fits
  <2>2. CASE b # c \/ m # k
    <3> DEFINE y == l[b][m]
    <3>1. l2[b][m] = y /\ Fits(b, m, y, s) BY <1>2, <1>11, <2>2
    <3> HIDE DEF y
    <3>2. ASSUME y.fd # 0 PROVE y.fd \in DOMAIN s /\ (Owns(b, m, y, s2[y.fd]) \/ Uses(b, m, y, s2[y.fd]))
      <4>1. y.fd \in DOMAIN s /\ (Owns(b, m, y, s[y.fd]) \/ Uses(b, m, y, s[y.fd])) BY <3>1, <3>2 DEF Fits
      <4>2. Owns(b, m, y, s[y.fd]) => Owns(b, m, y, s2[y.fd]) BY <1>14, <4>1 DEF Owns
      <4>3. s2[y.fd].far = s[y.fd].far \/ s2[y.fd].far BY <1>12, <4>1
      <4>4. Uses(b, m, y, s[y.fd]) => Uses(b, m, y, s2[y.fd]) BY <1>14, <4>1, <4>3 DEF Uses
      <4> QED BY <4>1, <4>2, <4>4
    <3>3. "OFFER" \in y.flags => /\ m # "send" /\ y.port \in DOMAIN s2
                                 /\ s2[y.port].owner = Peer(b) /\ s2[y.port].kind = Partner(m)
      BY <1>12, <1>14, <3>1 DEF Fits
    <3>4. Fits(b, m, y, s2) BY <1>12, <3>1, <3>2, <3>3 DEF Fits
    <3> QED BY <3>1, <3>4
  <2> QED BY <2>1, <2>2
<1>17. Stream(u)
  <2>1. t.toFar = <<>> /\ t.toNear = <<>>
    <3>1. t.toFar = <<>> BY <1>6, <1>7, SMTT(30) DEF Stream
    <3>2. t.kind # "send" => t.toNear = <<>> BY <1>6, SMTT(30) DEF Stream
    <3>3. t.kind = "send" => t.toNear = <<>> BY <1>6, <1>9 DEF Stream
    <3> QED BY <3>1, <3>2, <3>3, SMTT(30)
  <2> HIDE DEF t
  <2>2. /\ u.owner = t.owner /\ u.kind = t.kind /\ u.listens = t.listens /\ u.near = t.near /\ u.err = t.err
        /\ u.toFar = <<>> /\ u.toNear = <<>>
    BY <2>1 DEF t
  <2>3. Len(<<>>) <= Block BY SizesAssumption
  <2>4. ~(t.listens /\ t.near) /\ (t.listens => ~t.err) BY <1>6 DEF Stream
  <2> QED BY <1>9, <2>2, <2>3, <2>4 DEF Stream
<1>18. ASSUME NEW q \in DOMAIN s PROVE HasEntry(q, s2[q], l2) /\ Stream(s2[q])
  <2>1. Stream(s2[q]) BY <1>2, <1>12, <1>17
  <2> DEFINE v == s[q]
             w == s2[q]
  <2>2. HasEntry(q, v, l) /\ v.owner \in Clients /\ v.kind \in Kinds /\ q # 0 BY <1>2 DEF Socket
  <2>3. w.owner = v.owner /\ w.kind = v.kind /\ w.listens = v.listens /\ w.near = v.near BY <1>14
  <2>4. \A b \in Clients, m \in Kinds : l[b][m].fd = q => l2[b][m].fd = q BY <1>4, <1>11, <2>2
  <2>5. Peer(v.owner) \in Clients /\ Partner(v.kind) \in Kinds BY <2>2, TwoClients, Partners
  <2>6. w.far => l2[Peer(w.owner)][Partner(w.kind)].fd = q
    <3>1. CASE q # p
      <4>1. w = v BY <1>12, <3>1
      <4> QED BY <2>2, <2>4, <2>5, <4>1 DEF HasEntry
    <3>2. CASE q = p
      <4>1. Peer(w.owner) = c /\ Partner(w.kind) = k BY <1>1, <1>5, <2>3, <3>2, Partners
      <4> QED BY <1>11, <3>2, <4>1
    <3> QED BY <3>1, <3>2
  <2> HIDE DEF v, w
  <2>7. w.listens \/ w.near => w.kind # "get" /\ l2[w.owner][w.kind].fd = q BY <2>2, <2>3, <2>4 DEF HasEntry
  <2>8. HasEntry(q, w, l2) BY <2>6, <2>7, SMTT(30) DEF HasEntry
  <2> QED BY <2>1, <2>8 DEF w
<1>19. ASSUME NEW b \in Clients PROVE Queued(b, s2, o)
  <2>1. Queued(b, s, o) BY <1>2
  <2> QED BY <1>12, <1>14, <2>1 DEF Queued
<1>20. ASSUME NEW b \in Clients PROVE l2[b]["send"] = l[b]["send"]
  BY <1>1, <1>5, <1>11
<1>21. ASSUME NEW b \in Clients, b # d \/ k # "get", l[b]["send"].fd # 0
       PROVE  /\ s2[l[b]["send"].fd] = s[l[b]["send"].fd]
              /\ l2[Peer(b)]["get"] = l[Peer(b)]["get"]
  <2>1. Fits(b, "send", l[b]["send"], s) BY <1>1, <1>2
  <2>2. l[b]["send"].fd \in DOMAIN s /\ Owns(b, "send", l[b]["send"], s[l[b]["send"].fd]) BY <1>21, <2>1 DEF Fits, Uses
  <2>3. l[b]["send"].fd # p
    <3>1. t.kind = "send" => k = "get" BY <1>9
    <3> QED BY <1>5, <1>21, <2>2, <3>1 DEF Owns
  <2>4. Peer(b) \in Clients /\ (Peer(b) # c \/ k # "get") BY <1>1, <1>21, TwoClients
  <2>5. l2[Peer(b)]["get"] = l[Peer(b)]["get"] BY <1>1, <1>11, <2>4
  <2> QED BY <1>12, <2>2, <2>3, <2>5
<1>22. ASSUME NEW b \in Clients PROVE Once(b, l2, s2, o)
  <2>1. Once(b, l, s, o) BY <1>2, SMTT(30)
  <2>2. CASE b # d \/ k # "get" BY <1>20, <1>21, <2>1, <2>2, SMTT(30) DEF Once
  <2>3. CASE b = d /\ k = "get" /\ l[d]["send"].fd # 0
    <3> DEFINE q == l[d]["send"].fd
    <3>1. l2[b]["send"].fd = q /\ l2[Peer(b)]["get"] = x BY <1>1, <1>11, <1>20, <2>3
    <3>2. q \in DOMAIN s /\ s[q].link = "none" BY <1>8, <2>3
    <3> HIDE DEF q
    <3>3. \A i, j \in DOMAIN o[c] : o[c][i].kind = "send" /\ o[c][i].port = q /\ j > i => o[c][j].kind # "send"
      BY <1>1, <2>1, <2>3 DEF Once, q
    <3>4. s2[q].link # "none" => q = p BY <1>12, <3>2
    <3>5. q = p => NoFile(c, o) BY <1>1, <2>1, <2>3 DEF Once, q
    <3> QED BY <1>1, <1>15, <2>3, <3>1, <3>3, <3>4, <3>5 DEF Once
  <2>4. CASE b = d /\ l[d]["send"].fd = 0 BY <1>20, <2>4 DEF Once
  <2> QED BY <2>2, <2>3, <2>4
<1>23. ASSUME NEW b \in Clients PROVE Data(b, l2, s2, dk, z)
  <2>1. Data(b, l, s, dk, z) BY <1>2
  <2>2. CASE b # d \/ k # "get" BY <1>20, <1>21, <2>1, <2>2 DEF Data
  <2>3. CASE b = d /\ k = "get" /\ l[d]["send"].fd # 0
    <3> DEFINE y == l[d]["send"]
               q == y.fd
               g == l[c]["get"]
    <3>1. l2[b]["send"] = y /\ l2[Peer(b)]["get"] = x /\ Peer(b) = c BY <1>1, <1>11, <1>20, <2>3
    <3>2. q \in DOMAIN s /\ s[q].link = "none" /\ Sent(s[q], y, g, dk[c], z) BY <1>8, <2>3, SMTT(30)
    <3>3. Owns(d, "send", y, s[q]) BY <1>1, <1>2, <2>3 DEF Fits, Uses
    <3>4. Stream(s[q]) BY <1>2, <3>2
    <3>5. "WAIT" \in y.flags BY <3>2, <3>3, <3>4 DEF Owns, Stream
    <3> HIDE DEF y, g
    <3>6. Sent(s2[q], y, x, dk[c], z) BY <2>3, <3>2, <3>5 DEF Sent
    <3> QED BY <3>1, <3>6 DEF Data
  <2>4. CASE b = d /\ l[d]["send"].fd = 0 BY <1>20, <2>4 DEF Data
  <2> QED BY <2>2, <2>3, <2>4
<1>24. Right(l2, s2, o, dk, z) BY <1>2, <1>12, <1>13, <1>16, <1>18, <1>19, <1>22, <1>23 DEF Right
<1> QED BY <1>24 DEF l2, s2

\* The offers once c has read the next one
IsRead(o, c, o2) ==
    /\ o[c] # <<>> /\ DOMAIN o2 = Clients /\ o2[c] = Tail(o[c])
    /\ (\A b \in Clients : b # c => o2[b] = o[b]) /\ o2 = [b \in Clients |-> o2[b]]

\* What becomes of the entry of its kind
IsAnOffer(l, o, c, k, x) ==
    /\ k = IF Head(o[c]).kind = "chat" THEN "chat" ELSE "get"
    /\ \/ x = l[c][k]
       \/ /\ l[c][k].fd = 0 /\ x.fd = 0 /\ x.on /\ x.port = Head(o[c]).port
          /\ "ACTIVE" \notin x.flags /\ (k = "get" => "WAIT" \notin x.flags)

\* The next offer is read; the entry of its kind, if it is not in use, is one for it.
LEMMA OfferTaken ==
    ASSUME NEW l, NEW s, NEW o, NEW dk, NEW z, Right(l, s, o, dk, z), NEW c \in Clients,
           NEW k \in Kinds, NEW x \in Entry, IsAnOffer(l, o, c, k, x), NEW o2, IsRead(o, c, o2)
    PROVE  Right(Placed(l, c, k, x), s, o2, dk, z)
<1> USE DEF IsRead, IsAnOffer
<1> DEFINE e == l[c][k]
           d == Peer(c)
           m == o[c]
           l2 == Placed(l, c, k, x)
<1>1. "send" \in Kinds /\ "get" \in Kinds /\ d \in Clients /\ d # c /\ Peer(d) = c BY TwoClients DEF Kinds
<1>2. /\ Types(l, s, o, dk) /\ z \in Nat
      /\ \A b \in Clients, h \in Kinds : Fits(b, h, l[b][h], s) /\ l[b][h] \in Entry
      /\ \A q \in DOMAIN s : HasEntry(q, s[q], l) /\ Stream(s[q]) /\ s[q] \in Socket /\ q \in Nat /\ q # 0
      /\ \A b \in Clients : Queued(b, s, o) /\ Once(b, l, s, o) /\ Data(b, l, s, dk, z)
  BY RightParts
<1>3. /\ l \in [Clients -> [Kinds -> Entry]] /\ o \in [Clients -> Seq([kind: Kinds, port: Nat, size: Nat])]
  BY <1>2 DEF Types
<1>4. m \in Seq([kind: Kinds, port: Nat, size: Nat]) /\ m # <<>> BY <1>3
<1>5. o2 \in [Clients -> Seq([kind: Kinds, port: Nat, size: Nat])] /\ o2[c] = Tail(m) /\ \A b \in Clients : b # c => o2[b] = o[b]
  <2> DEFINE S == [kind: Kinds, port: Nat, size: Nat]
  <2>1. Tail(m) \in Seq(S)
    <3>1. m \in Seq(S) /\ m # <<>> BY <1>4
    <3> HIDE DEF m, S
    <3> QED BY <3>1, HeadTailProperties
  <2>2. o \in [Clients -> Seq(S)] BY <1>3
  <2> HIDE DEF S
  <2>3. \A b \in Clients : o2[b] \in Seq(S) BY <2>1, <2>2, ZenonT(60)
  <2> QED BY <2>3 DEF S
<1>6. /\ 1 \in DOMAIN m /\ Head(m) = m[1] /\ \A i \in DOMAIN o2[c] : i \in Nat /\ i + 1 \in DOMAIN m /\ o2[c][i] = m[i + 1] /\ i + 1 # 1
      /\ \A i, j \in DOMAIN o2[c] : j > i => j + 1 > i + 1
      /\ \A i \in DOMAIN o2[c] : i + 1 > 1
  <2> DEFINE r == Tail(m)
  <2>1. /\ r \in Seq([kind: Kinds, port: Nat, size: Nat]) /\ Len(r) = Len(m) - 1
        /\ \A i \in 1 .. Len(m) - 1 : r[i] = m[i + 1]
    <3> HIDE DEF m
    <3> QED BY <1>4
  <2>2. Len(m) \in Nat /\ Len(m) # 0 /\ DOMAIN m = 1 .. Len(m) /\ Head(m) = m[1]
    <3> HIDE DEF m
    <3> QED BY <1>4
  <2>3. DOMAIN r = 1 .. Len(r) BY <2>1
  <2> HIDE DEF r, m
  <2>4. \A i \in DOMAIN r : i \in Nat /\ i + 1 \in DOMAIN m /\ r[i] = m[i + 1] /\ i + 1 # 1 /\ i + 1 > 1
    BY <2>1, <2>2, <2>3, SMTT(30)
  <2>5. \A i, j \in DOMAIN r : j > i => j + 1 > i + 1 BY <2>1, <2>2, <2>3
  <2>6. 1 \in DOMAIN m BY <2>2
  <2> QED BY <1>5, <2>2, <2>4, <2>5, <2>6 DEF r
<1>7. /\ m[1].kind \in {"chat", "send"} /\ m[1].port \in DOMAIN s
      /\ s[m[1].port].owner = d /\ s[m[1].port].kind = m[1].kind
  BY <1>2, <1>6 DEF Queued
<1>8. k = (IF m[1].kind = "chat" THEN "chat" ELSE "get") /\ Partner(k) = m[1].kind /\ k # "send"
  BY <1>6, <1>7, Partners
<1>9. /\ l2 \in [Clients -> [Kinds -> Entry]] /\ l2[c][k] = x
      /\ \A b \in Clients, h \in Kinds : b # c \/ h # k => l2[b][h] = l[b][h]
  <2>1. l \in [Clients -> [Kinds -> Entry]] /\ c \in Clients /\ k \in Kinds /\ x \in Entry BY <1>3
  <2>2. IsPut(l, c, k, x, l2) BY ONLY <2>1, PutIs
  <2> HIDE DEF l2
  <2> QED BY <2>2 DEF IsPut
<1>10. \/ x = e
       \/ /\ e.fd = 0 /\ x.fd = 0 /\ x.on /\ x.port = m[1].port
          /\ "ACTIVE" \notin x.flags /\ (k = "get" => "WAIT" \notin x.flags)
  BY <1>6
<1> HIDE DEF l2, m
<1>11. \A b \in Clients, h \in Kinds : l2[b][h].fd = l[b][h].fd BY <1>9, <1>10
<1>12. Types(l2, s, o2, dk) BY <1>2, <1>5, <1>9 DEF Types
<1>13. ASSUME NEW b \in Clients, NEW h \in Kinds PROVE Fits(b, h, l2[b][h], s)
  <2>1. CASE l2[b][h] = l[b][h] BY <1>2, <2>1
  <2>2. CASE b = c /\ h = k /\ x # e
    <3>1. x.fd = 0 /\ x.port = m[1].port /\ (k = "get" => "WAIT" \notin x.flags) BY <1>10, <2>2
    <3>2. Fits(c, k, x, s) BY <1>7, <1>8, <3>1 DEF Fits
    <3> QED BY <1>9, <2>2, <3>2
  <2> QED BY <1>9, <2>1, <2>2
<1>14. ASSUME NEW q \in DOMAIN s PROVE HasEntry(q, s[q], l2) /\ Stream(s[q])
  <2>1. HasEntry(q, s[q], l) /\ Stream(s[q]) /\ s[q].owner \in Clients /\ s[q].kind \in Kinds BY <1>2 DEF Socket
  <2>2. Peer(s[q].owner) \in Clients /\ Partner(s[q].kind) \in Kinds BY <2>1, TwoClients, Partners
  <2> QED BY <1>11, <2>1, <2>2 DEF HasEntry
<1>15. ASSUME NEW b \in Clients PROVE Queued(b, s, o2)
  <2>1. Queued(b, s, o) BY <1>2
  <2>2. CASE b # c BY <1>5, <2>1, <2>2, ZenonT(60) DEF Queued
  <2>3. CASE b = c BY <1>6, <2>1, <2>3 DEF Queued, m
  <2> QED BY <2>2, <2>3
<1>16. l2[c]["send"] = l[c]["send"] /\ l2[d]["send"] = l[d]["send"] /\ l2[d]["get"] = l[d]["get"]
  BY <1>1, <1>8, <1>9, SMTT(30)
<1>17. Once(c, l2, s, o2)
  <2>1. Once(c, l, s, o) BY <1>2
  <2>2. o2[d] = o[d] BY <1>1, <1>5
  <2> QED BY <1>16, <2>1, <2>2 DEF Once, NoFile
<1>18. Once(d, l2, s, o2)
  <2> DEFINE q == l[d]["send"].fd
             g == l[c]["get"]
             h == l2[c]["get"]
  <2> SUFFICES ASSUME q # 0 PROVE Once(d, l2, s, o2) BY <1>16 DEF Once
  <2>1. /\ \A i, j \in DOMAIN m : m[i].kind = "send" /\ m[i].port = q /\ j > i => m[j].kind # "send"
        /\ Offered(g) /\ g.port = q => NoFile(c, o)
        /\ s[q].link # "none" => ~Offered(g) /\ NoFile(c, o) /\ g.fd \in {0, q}
    BY <1>1, <1>2 DEF Once, m
  <2>2. NoFile(c, o) => m[1].kind # "send" /\ NoFile(c, o2) BY <1>6 DEF NoFile, m
  <2>3. h = g \/ (k = "get" /\ h = x /\ x.port = m[1].port /\ x # e)
    <3>1. CASE k = "get" /\ x # e BY <1>9, <1>10, <3>1
    <3>2. CASE k # "get" \/ x = e BY <1>1, <1>9, <3>2
    <3> QED BY <3>1, <3>2
  <2>4. k = "get" => m[1].kind = "send" BY <1>7, <1>8
  <2>5. h.fd = g.fd BY <1>1, <1>11
  <2> HIDE DEF g, h, q
  <2>6. \A i, j \in DOMAIN o2[c] : o2[c][i].kind = "send" /\ o2[c][i].port = q /\ j > i => o2[c][j].kind # "send"
    BY <1>6, <2>1
  <2>7. m[1].kind = "send" /\ m[1].port = q => NoFile(c, o2) BY <1>6, <2>1 DEF NoFile
  <2>8. Offered(h) /\ h.port = q => NoFile(c, o2) BY <2>1, <2>2, <2>3, <2>4, <2>7
  <2>9. s[q].link # "none" => ~Offered(h) /\ NoFile(c, o2) /\ h.fd \in {0, q} BY <2>1, <2>2, <2>3, <2>4, <2>5
  <2>10. l2[d]["send"].fd = q /\ l2[Peer(d)]["get"] = h /\ Peer(d) = c BY <1>1, <1>16 DEF q, h
  <2> QED BY <2>6, <2>8, <2>9, <2>10, SMTT(30) DEF Once
<1>19. Data(c, l2, s, dk, z)
  <2>1. Data(c, l, s, dk, z) BY <1>2
  <2> QED BY <1>16, <2>1 DEF Data
<1>20. Data(d, l2, s, dk, z)
  <2> DEFINE y == l[d]["send"]
             q == y.fd
             t == s[q]
             g == l[c]["get"]
             h == l2[c]["get"]
             f == dk[c]
  <2>1. Data(d, l, s, dk, z) BY <1>1, <1>2
  <2>2. CASE h = g
    <3>1. l2[Peer(d)]["get"] = l[Peer(d)]["get"] BY <1>1, <2>2
    <3> QED BY <1>16, <2>1, <3>1 DEF Data
  <2>3. CASE q = 0 BY <1>16, <2>3 DEF Data
  <2>4. CASE h # g /\ q # 0
    <3>1. k = "get" /\ x # e BY <1>9, <1>1, <2>4
    <3>2. g.fd = 0 BY <1>10, <3>1
    <3>3. Fits(d, "send", y, s) BY <1>1, <1>2
    <3>4. q \in DOMAIN s /\ Owns(d, "send", y, t) BY <2>4, <3>3 DEF Fits, Uses
    <3>5. HasEntry(q, t, l) /\ t.owner = d /\ t.kind = "send" BY <1>2, <3>4 DEF Owns
    <3>6. ~t.far BY <1>1, <2>4, <3>2, <3>5, Partners DEF HasEntry
    <3>7. Sent(t, y, g, f, z) BY <1>1, <2>1, <2>4 DEF Data
    <3> HIDE DEF t, y, g, h, f
    <3>8. Written(t, y, g, f) => Written(t, y, h, f) BY <3>6 DEF Written
    <3>9. Sent(t, y, h, f, z) BY <3>6, <3>7, <3>8 DEF Sent
    <3> QED BY <1>1, <1>16, <3>9 DEF Data, t, y, h, f
  <2> QED BY <2>2, <2>3, <2>4
<1>21. \A b \in Clients : Once(b, l2, s, o2) /\ Data(b, l2, s, dk, z) BY <1>17, <1>18, <1>19, <1>20, TwoClients
<1>22. Right(l2, s, o2, dk, z) BY <1>2, <1>12, <1>13, <1>14, <1>15, <1>21 DEF Right
<1> QED BY <1>22 DEF l2

\* A sequence with one more element
IsAppended(m, v, r) ==
    /\ Len(m) \in Nat /\ DOMAIN r = 1 .. Len(m) + 1 /\ DOMAIN m = 1 .. Len(m)
    /\ r[Len(m) + 1] = v /\ \A i \in DOMAIN m : r[i] = m[i]

\* The parts of a sequence with one more element.
LEMMA Appended ==
    ASSUME NEW S, NEW m \in Seq(S), NEW v \in S
    PROVE  Append(m, v) \in Seq(S) /\ IsAppended(m, v, Append(m, v))
<1>1. /\ Append(m, v) \in Seq(S) /\ Len(Append(m, v)) = Len(m) + 1 /\ Append(m, v)[Len(m) + 1] = v
      /\ \A i \in 1 .. Len(m) : Append(m, v)[i] = m[i]
  BY AppendProperties
<1>2. Len(m) \in Nat /\ DOMAIN m = 1 .. Len(m) BY LenProperties
<1>3. DOMAIN Append(m, v) = 1 .. Len(Append(m, v)) BY <1>1, LenProperties
<1> QED BY <1>1, <1>2, <1>3 DEF IsAppended

\* listen() on a new port, which is offered to the peer.
IsNewSocket(s, N, p, u, s2) ==
    /\ N \in Nat /\ DOMAIN s = 1 .. N /\ p = N + 1
    /\ DOMAIN s2 = 1 .. p /\ s2[p] = u /\ \A q \in 1 .. N : s2[q] = s[q]
    /\ s2 = [q \in 1 .. p |-> s2[q]]

IsOfferedTo(o, c, k, p, v, o2) ==
    /\ v \in Nat /\ o2[Peer(c)] = Append(o[Peer(c)], [kind |-> k, port |-> p, size |-> v])
    /\ (\A b \in Clients : b # Peer(c) => o2[b] = o[b]) /\ o2 = [b \in Clients |-> o2[b]]

\* An entry whose client listens, and has offered that, is right.
LEMMA Listened ==
    ASSUME NEW l, NEW s, NEW o, NEW dk, NEW z, Right(l, s, o, dk, z), NEW c \in Clients,
           NEW k \in Kinds, k # "get", l[c][k].fd = 0, NEW N, NEW p, NEW s2, NEW u \in Socket,
           IsNewSocket(s, N, p, u, s2),
           NEW x \in Entry, x.fd = p, x.on, "WAIT" \in x.flags, "ACTIVE" \notin x.flags,
           "OFFER" \notin x.flags, k = "send" => x.pos = 0,
           u.owner = c, u.kind = k, u.listens, ~u.near, ~u.far, ~u.err, u.link = "none",
           u.toFar = <<>>, u.toNear = <<>>,
           NEW v, NEW o2, IsOfferedTo(o, c, k, p, v, o2)
    PROVE  Right(Placed(l, c, k, x), s2, o2, dk, z)
<1>0. /\ N \in Nat /\ DOMAIN s = 1 .. N /\ p = N + 1
      /\ DOMAIN s2 = 1 .. p /\ s2[p] = u /\ (\A q \in 1 .. N : s2[q] = s[q])
      /\ s2 = [q \in 1 .. p |-> s2[q]]
      /\ v \in Nat /\ o2[Peer(c)] = Append(o[Peer(c)], [kind |-> k, port |-> p, size |-> v])
      /\ (\A b \in Clients : b # Peer(c) => o2[b] = o[b]) /\ o2 = [b \in Clients |-> o2[b]]
  BY DEF IsNewSocket, IsOfferedTo
<1> USE <1>0
<1> DEFINE e == l[c][k]
           d == Peer(c)
           m == o[d]
           of == [kind |-> k, port |-> p, size |-> v]
           l2 == Placed(l, c, k, x)
           S == [kind: Kinds, port: Nat, size: Nat]
<1>1. "send" \in Kinds /\ "get" \in Kinds /\ k \in {"chat", "send"} /\ d \in Clients /\ d # c /\ Peer(d) = c /\ k # "get"
  BY TwoClients DEF Kinds
<1>2. /\ Types(l, s, o, dk) /\ z \in Nat
      /\ \A b \in Clients, h \in Kinds : Fits(b, h, l[b][h], s) /\ l[b][h] \in Entry
      /\ \A q \in DOMAIN s : HasEntry(q, s[q], l) /\ Stream(s[q]) /\ s[q] \in Socket /\ q \in Nat /\ q # 0
      /\ \A b \in Clients : Queued(b, s, o) /\ Once(b, l, s, o) /\ Data(b, l, s, dk, z)
  BY RightParts
<1>3. l \in [Clients -> [Kinds -> Entry]] /\ o \in [Clients -> Seq(S)] BY <1>2 DEF Types
<1>4. p \in Nat /\ p # 0 /\ p \notin DOMAIN s /\ \A q \in 1 .. p : q \in DOMAIN s \/ q = p OBVIOUS
<1>5. \A q \in DOMAIN s : q \in DOMAIN s2 /\ s2[q] = s[q] /\ q # p /\ s2[q] \in Socket
  <2> SUFFICES ASSUME NEW q \in DOMAIN s PROVE q \in DOMAIN s2 /\ s2[q] = s[q] /\ q # p /\ s2[q] \in Socket OBVIOUS
  <2>1. q \in 1 .. N /\ s[q] \in Socket BY <1>2
  <2>2. q \in 1 .. p /\ q # p BY <2>1
  <2> QED BY <2>1, <2>2
<1>6. DOMAIN s2 = DOMAIN s \cup {p} BY <1>4
<1>7. m \in Seq(S) /\ of \in S BY <1>1, <1>3, <1>4
<1>8. /\ o2[d] \in Seq(S) /\ Len(m) \in Nat /\ DOMAIN o2[d] = 1 .. Len(m) + 1 /\ DOMAIN m = 1 .. Len(m)
      /\ o2[d][Len(m) + 1] = of /\ \A i \in DOMAIN m : o2[d][i] = m[i]
  <2> HIDE DEF S, of, m
  <2>1. o2[d] = Append(m, of) BY DEF m, of
  <2>2. Append(m, of) \in Seq(S) /\ IsAppended(m, of, Append(m, of)) BY <1>7, Appended
  <2> QED BY <2>1, <2>2, ZenonT(60) DEF IsAppended
<1>9. o2 \in [Clients -> Seq(S)]
  <2> HIDE DEF S
  <2>1. \A b \in Clients : o2[b] \in Seq(S) BY <1>3, <1>8
  <2> QED BY <2>1
<1>10. of.kind = k /\ of.port = p OBVIOUS
<1>11. /\ l2 \in [Clients -> [Kinds -> Entry]] /\ l2[c][k] = x
       /\ \A b \in Clients, h \in Kinds : b # c \/ h # k => l2[b][h] = l[b][h]
  <2>1. l \in [Clients -> [Kinds -> Entry]] /\ c \in Clients /\ k \in Kinds /\ x \in Entry BY <1>1, <1>3
  <2>2. IsPut(l, c, k, x, l2) BY ONLY <2>1, PutIs
  <2> HIDE DEF l2
  <2> QED BY <2>2 DEF IsPut
<1>12. s2 \in [1 .. p -> Socket]
  <2>1. \A q \in 1 .. p : s2[q] \in Socket BY <1>4, <1>5
  <2> QED BY <2>1
<1>13. Types(l2, s2, o2, dk)
  <2>1. dk \in [Clients -> Seq(Nat)] BY <1>2 DEF Types
  <2> QED BY <1>4, <1>9, <1>11, <1>12, <2>1 DEF Types
<1> HIDE DEF l2, of, m, S
<1>14. ASSUME NEW b \in Clients, NEW h \in Kinds PROVE Fits(b, h, l2[b][h], s2)
  <2>1. CASE b = c /\ h = k
    <3>1. Owns(c, k, x, u) BY <1>1 DEF Owns
    <3>2. Fits(c, k, x, s2) BY <1>1, <1>6, <3>1 DEF Fits
    <3> QED BY <1>11, <2>1, <3>2
  <2>2. CASE b # c \/ h # k
    <3> DEFINE y == l[b][h]
    <3>1. l2[b][h] = y /\ Fits(b, h, y, s) BY <1>2, <1>11, <2>2
    <3> HIDE DEF y
    <3>2. Fits(b, h, y, s2) BY <1>5, <3>1 DEF Fits
    <3> QED BY <3>1, <3>2
  <2> QED BY <2>1, <2>2
<1>15. ASSUME NEW q \in DOMAIN s2 PROVE HasEntry(q, s2[q], l2) /\ Stream(s2[q])
  <2>1. CASE q = p
    <3>1. Len(<<>>) <= Block BY SizesAssumption
    <3>2. Stream(u) BY <3>1 DEF Stream
    <3>3. HasEntry(p, u, l2) BY <1>1, <1>11 DEF HasEntry
    <3> QED BY <2>1, <3>2, <3>3
  <2>2. CASE q \in DOMAIN s
    <3>1. HasEntry(q, s[q], l) /\ Stream(s[q]) /\ s[q].owner \in Clients /\ s[q].kind \in Kinds /\ q # 0
      BY <1>2, <2>2 DEF Socket
    <3>2. Peer(s[q].owner) \in Clients /\ Partner(s[q].kind) \in Kinds BY <3>1, TwoClients, Partners
    <3>3. \A b \in Clients, h \in Kinds : l[b][h].fd = q => l2[b][h].fd = q BY <1>11, <3>1, SMTT(30)
    <3>4. s2[q] = s[q] BY <1>5, <2>2
    <3>5. HasEntry(q, s[q], l2) BY <3>1, <3>2, <3>3 DEF HasEntry
    <3> QED BY <3>1, <3>4, <3>5
  <2> QED BY <1>6, <2>1, <2>2
<1>16. ASSUME NEW b \in Clients PROVE Queued(b, s2, o2)
  <2>1. Queued(b, s, o) BY <1>2
  <2>2. CASE b # d
    <3>1. o2[b] = o[b] BY <2>2
    <3>2. \A i \in DOMAIN o[b] : /\ o[b][i].kind \in {"chat", "send"} /\ o[b][i].port \in DOMAIN s
                                 /\ s[o[b][i].port].owner = Peer(b) /\ s[o[b][i].port].kind = o[b][i].kind
      BY <2>1 DEF Queued
    <3>3. \A i \in DOMAIN o[b] : o[b][i].port \in DOMAIN s2 /\ s2[o[b][i].port] = s[o[b][i].port] BY <1>5, <3>2
    <3>4. ASSUME NEW i \in DOMAIN o2[b]
          PROVE  /\ o2[b][i].kind \in {"chat", "send"} /\ o2[b][i].port \in DOMAIN s2
                 /\ s2[o2[b][i].port].owner = Peer(b) /\ s2[o2[b][i].port].kind = o2[b][i].kind
      <4>3. o2[b][i] = o[b][i] /\ i \in DOMAIN o[b] BY <3>1
      <4>1. /\ o[b][i].kind \in {"chat", "send"}
            /\ s[o[b][i].port].owner = Peer(b) /\ s[o[b][i].port].kind = o[b][i].kind
        BY <3>2, <4>3
      <4>2. o[b][i].port \in DOMAIN s2 /\ s2[o[b][i].port] = s[o[b][i].port] BY <3>3, <4>3
      <4> QED BY <4>1, <4>2, <4>3
    <3> QED BY <3>4 DEF Queued
  <2>3. CASE b = d
    <3> SUFFICES ASSUME NEW i \in DOMAIN o2[d]
                 PROVE  /\ o2[d][i].kind \in {"chat", "send"} /\ o2[d][i].port \in DOMAIN s2
                        /\ s2[o2[d][i].port].owner = Peer(d) /\ s2[o2[d][i].port].kind = o2[d][i].kind
      BY <2>3, ZenonT(60) DEF Queued
    <3>1. CASE i \in DOMAIN m
      <4>1. o2[d][i] = o[d][i] /\ i \in DOMAIN o[d] BY <1>8, <3>1 DEF m
      <4>2. /\ o[d][i].kind \in {"chat", "send"} /\ o[d][i].port \in DOMAIN s
            /\ s[o[d][i].port].owner = Peer(d) /\ s[o[d][i].port].kind = o[d][i].kind
        BY <2>1, <2>3, <4>1 DEF Queued
      <4>3. o[d][i].port \in DOMAIN s2 /\ s2[o[d][i].port] = s[o[d][i].port] BY <1>5, <4>2
      <4> QED BY <4>1, <4>2, <4>3, SMTT(30)
    <3>2. CASE i = Len(m) + 1
      <4>1. o2[d][i] = of BY <1>8, <3>2
      <4>2. Peer(d) = c BY <1>1
      <4>3. p \in DOMAIN s2 /\ s2[p].owner = c /\ s2[p].kind = k BY <1>6
      <4> QED BY <1>1, <1>10, <4>1, <4>2, <4>3
    <3>3. i \in DOMAIN m \/ i = Len(m) + 1 BY <1>8, SMTT(30)
    <3> QED BY <3>1, <3>2, <3>3, SMTT(30)
  <2> QED BY <2>2, <2>3
<1>17. l2[d]["send"] = l[d]["send"] /\ l2[d]["get"] = l[d]["get"] /\ l2[c]["get"] = l[c]["get"]
  BY <1>1, <1>11
<1>18. k = "chat" => l2[c]["send"] = l[c]["send"] BY <1>1, <1>11
<1>19. \A b \in Clients : l[b]["send"].fd # 0 => l[b]["send"].fd \in DOMAIN s /\ s2[l[b]["send"].fd] = s[l[b]["send"].fd]
  BY <1>1, <1>2, <1>5, ZenonT(60) DEF Fits
<1>20. Once(d, l2, s2, o2)
  <2>1. Once(d, l, s, o) BY <1>1, <1>2
  <2>2. o2[c] = o[c] BY <1>1
  <2>3. \A q : s2[l[d]["send"].fd] = q /\ l[d]["send"].fd # 0 => s[l[d]["send"].fd] = q BY <1>1, <1>19
  <2> HIDE DEF d
  <2> QED BY <1>1, <1>17, <2>1, <2>2, <2>3 DEF Once, NoFile
<1>21. Data(d, l2, s2, dk, z)
  <2>1. Data(d, l, s, dk, z) BY <1>1, <1>2
  <2>2. l2[Peer(d)]["get"].count = l[Peer(d)]["get"].count BY <1>1, <1>17
  <2> QED BY <1>1, <1>17, <1>19, <2>1, <2>2, SameData
<1>22. CASE k = "chat"
  <2>1. Once(c, l2, s2, o2)
    <3> DEFINE q == l[c]["send"].fd
               g == l[d]["get"]
    <3> SUFFICES ASSUME q # 0 PROVE Once(c, l2, s2, o2) BY <1>18, <1>22 DEF Once
    <3>1. /\ \A i, j \in DOMAIN m : m[i].kind = "send" /\ m[i].port = q /\ j > i => m[j].kind # "send"
          /\ Offered(g) /\ g.port = q => NoFile(d, o)
          /\ s[q].link # "none" => ~Offered(g) /\ NoFile(d, o) /\ g.fd \in {0, q}
      BY <1>2 DEF Once, m
    <3>2. \A i \in DOMAIN o2[d] : (i \in DOMAIN m /\ o2[d][i] = m[i]) \/ o2[d][i].kind # "send"
      BY <1>8, <1>10, <1>22, SMTT(30)
    <3>3. NoFile(d, o) => NoFile(d, o2) BY <3>2, SMTT(30) DEF NoFile, m
    <3>4. l2[c]["send"].fd = q /\ l2[d]["get"] = g /\ s2[q] = s[q] BY <1>17, <1>18, <1>19, <1>22
    <3> HIDE DEF q, g
    <3>5. \A i, j \in DOMAIN o2[d] : o2[d][i].kind = "send" /\ o2[d][i].port = q /\ j > i => o2[d][j].kind # "send"
      BY <3>1, <3>2, SMTT(30)
    <3> QED BY <3>1, <3>3, <3>4, <3>5, SMTT(30) DEF Once
  <2>2. Data(c, l2, s2, dk, z)
    <3>1. Data(c, l, s, dk, z) BY <1>2
    <3>2. l2[Peer(c)]["get"].count = l[Peer(c)]["get"].count BY <1>17
    <3> QED BY <1>18, <1>19, <1>22, <3>1, <3>2, SameData, ZenonT(60)
  <2>3. \A b \in Clients : Once(b, l2, s2, o2) /\ Data(b, l2, s2, dk, z) BY <1>20, <1>21, <2>1, <2>2, TwoClients
  <2>4. Right(l2, s2, o2, dk, z) BY <1>2, <1>13, <1>14, <1>15, <1>16, <2>3 DEF Right
  <2> QED BY <2>4 DEF l2
<1>23. CASE k = "send"
  <2> DEFINE g == l[d]["get"]
  <2>1. l2[c]["send"] = x /\ l2[d]["get"] = g BY <1>11, <1>17, <1>23
  <2>2. Once(c, l2, s2, o2)
    <3>1. ASSUME NEW i \in DOMAIN o2[d], NEW j \in DOMAIN o2[d], o2[d][i].port = p, j > i PROVE FALSE
      <4>1. i \in DOMAIN m BY <1>8, <3>1, SMTT(30)
      <4>2. o2[d][i].port \in DOMAIN s BY <1>1, <1>2, <1>8, <4>1, SMTT(30) DEF Queued, m
      <4> QED BY <1>4, <3>1, <4>2
    <3>2. Offered(g) => g.port # p
      <4>1. Fits(d, "get", g, s) BY <1>1, <1>2
      <4> QED BY <1>4, <4>1 DEF Fits, Offered
    <3> HIDE DEF g, d
    <3>3. \A i, j \in DOMAIN o2[d] : o2[d][i].kind = "send" /\ o2[d][i].port = p /\ j > i => o2[d][j].kind # "send"
      BY <3>1
    <3> QED BY <2>1, <3>2, <3>3, SMTT(30) DEF Once, d
  <2>3. Data(c, l2, s2, dk, z)
    <3> DEFINE f == dk[d]
    <3> HIDE DEF g, f
    <3>1. Sent(u, x, g, f, z) BY <1>23 DEF Sent
    <3> QED BY <2>1, <3>1 DEF Data, f
  <2>4. \A b \in Clients : Once(b, l2, s2, o2) /\ Data(b, l2, s2, dk, z) BY <1>20, <1>21, <2>2, <2>3, TwoClients
  <2>5. Right(l2, s2, o2, dk, z) BY <1>2, <1>13, <1>14, <1>15, <1>16, <2>4 DEF Right
  <2> QED BY <2>5 DEF l2
<1> QED BY <1>1, <1>22, <1>23

-----------------------------------------------------------------------------
(* dcc_check(): the entry in hand, e, and the sockets and files as they are. *)

Held(c, k, e, s, dk) ==
    /\ e \in Entry /\ DOMAIN s = Used /\ list \in [Clients -> [Kinds -> Entry]]
    /\ Right(Placed(list, c, k, e), s, offers, dk, size)

\* The entry in hand fits its socket.
LEMMA HeldIs ==
    ASSUME NEW c \in Clients, NEW k \in Kinds, NEW e, NEW s, NEW dk, Held(c, k, e, s, dk)
    PROVE  Placed(list, c, k, e)[c][k] = e /\ Fits(c, k, e, s)
<1>1. Placed(list, c, k, e)[c][k] = e
  <2>1. list \in [Clients -> [Kinds -> Entry]] /\ c \in Clients /\ k \in Kinds /\ e \in Entry BY DEF Held
  <2>2. IsPut(list, c, k, e, Placed(list, c, k, e)) BY ONLY <2>1, PutIs
  <2> QED BY <2>2 DEF IsPut
<1>2. Fits(c, k, Placed(list, c, k, e)[c][k], s)
  <2>1. Right(Placed(list, c, k, e), s, offers, dk, size) BY DEF Held
  <2> QED BY <2>1, RightParts
<1> QED BY <1>1, <1>2

\* From one entry in hand to the next
LEMMA HeldNext ==
    ASSUME NEW c \in Clients, NEW k \in Kinds, NEW e, NEW s, NEW dk, Held(c, k, e, s, dk),
           NEW x \in Entry, NEW s2, DOMAIN s2 = DOMAIN s, NEW dk2,
           Right(Placed(Placed(list, c, k, e), c, k, x), s2, offers, dk2, size)
    PROVE  Held(c, k, x, s2, dk2)
<1>1. Placed(Placed(list, c, k, e), c, k, x) = Placed(list, c, k, x)
  <2>1. list \in [Clients -> [Kinds -> Entry]] BY DEF Held
  <2> QED BY <2>1, PutTwice
<1> QED BY <1>1 DEF Held

\* dcc_check() first notes that a connection has been made.
LEMMA HeldAnswered ==
    ASSUME DccRight, NEW c \in Clients, NEW k \in Kinds
    PROVE  Held(c, k, Answered(c, list[c][k]), sock, disk)
<1> DEFINE e == list[c][k]
           x == [e EXCEPT !.flags = @ \ {"PEND", "OFFER"}]
<1>1. /\ Types(list, sock, offers, disk) /\ e \in Entry
      /\ Right(list, sock, offers, disk, size)
  BY RightParts DEF DccRight
<1>2. list \in [Clients -> [Kinds -> Entry]] BY <1>1 DEF Types
<1>3. Held(c, k, e, sock, disk)
  <2>1. Placed(list, c, k, e) = list BY <1>2, PutSame
  <2> QED BY <1>1, <1>2, <2>1 DEF Held, Used
<1>4. x \in Entry BY <1>1 DEF Entry, Flags
<1>5. Answered(c, e) = e \/ (Answered(c, e) = x /\ e.fd # 0) BY DEF Answered, Connected
<1>6. CASE Answered(c, e) = e BY <1>3, <1>6
<1>7. CASE Answered(c, e) = x /\ e.fd # 0
  <2>1. Right(Placed(list, c, k, x), sock, offers, disk, size) BY <1>1, <1>7, NoteConnected
  <2> HIDE DEF e, x
  <2>2. Held(c, k, x, sock, disk) BY <1>2, <1>4, <2>1 DEF Held, Used
  <2> QED BY <1>7, <2>2 DEF e
<1> QED BY <1>5, <1>6, <1>7

\* dcc_check() ends with dcc_really_erase().
LEMMA HeldErased ==
    ASSUME NEW c \in Clients, NEW k \in Kinds, NEW e, NEW s, NEW dk, Held(c, k, e, s, dk),
           ReallyErase(c, k, e, s)
    PROVE  Right(list', sock', offers, dk, size)
<1> DEFINE held == Placed(list, c, k, e)
           dies == {m \in Kinds : "DELETE" \in held[c][m].flags}
           r == [m \in Kinds |-> IF m \in dies THEN Nobody ELSE held[c][m]]
<1>1. Right(held, s, offers, dk, size) /\ DOMAIN s = Used BY DEF Held
<1>2. held \in [Clients -> [Kinds -> Entry]] BY <1>1 DEF Right, Types
<1>3. held = Set(c, k, e) BY DEF Placed, Set
<1>4. /\ list' = [held EXCEPT ![c] = r]
      /\ sock' = [p \in DOMAIN s |-> IF \E m \in dies : held[c][m].fd = p THEN ClosedBy(s[p], c) ELSE s[p]]
  <2> HIDE DEF held
  <2>1. /\ list' = [Set(c, k, e) EXCEPT ![c] = [m \in Kinds |-> IF m \in {h \in Kinds : "DELETE" \in Set(c, k, e)[c][h].flags}
                                                               THEN Nobody ELSE @[m]]]
        /\ sock' = [p \in Used |-> IF \E m \in {h \in Kinds : "DELETE" \in Set(c, k, e)[c][h].flags} : Set(c, k, e)[c][m].fd = p
                                   THEN ClosedBy(s[p], c) ELSE s[p]]
    BY DEF ReallyErase
  <2>2. sock' = [p \in DOMAIN s |-> IF \E m \in dies : held[c][m].fd = p THEN ClosedBy(s[p], c) ELSE s[p]]
    BY <1>1, <1>3, <2>1
  <2>3. list' = [held EXCEPT ![c] = [m \in Kinds |-> IF m \in dies THEN Nobody ELSE held[c][m]]]
    BY <1>3, <2>1
  <2> QED BY <2>2, <2>3
<1> HIDE DEF held
<1>5. \A m \in Kinds : r[m] = IF m \in dies THEN Nobody ELSE held[c][m] OBVIOUS
<1>6. dies \subseteq Kinds OBVIOUS
<1>7. r \in [Kinds -> Entry]
  <2>1. Nobody \in Entry BY NobodyIs DEF NobodyIsEntry
  <2>2. \A m \in Kinds : held[c][m] \in Entry BY <1>2
  <2> HIDE DEF dies
  <2> QED BY <2>1, <2>2
<1> HIDE DEF dies, r
<1>8. /\ list' \in [Clients -> [Kinds -> Entry]] /\ list'[c] = r
      /\ \A d \in Clients : d # c => list'[d] = held[d]
  BY <1>2, <1>4, <1>7
<1>9. \A m \in Kinds : list'[c][m] = IF m \in dies THEN Nobody ELSE held[c][m] BY <1>5, <1>8
<1>10. /\ sock' = [p \in DOMAIN s |-> sock'[p]]
       /\ \A p \in DOMAIN s : sock'[p] = IF \E m \in dies : held[c][m].fd = p THEN ClosedBy(s[p], c) ELSE s[p]
  BY <1>4
<1> DEFINE l2 == list'
           s2 == sock'
<1>11. /\ l2 \in [Clients -> [Kinds -> Entry]] /\ \A d \in Clients : d # c => l2[d] = held[d]
       /\ \A m \in Kinds : l2[c][m] = IF m \in dies THEN Nobody ELSE held[c][m]
       /\ s2 = [p \in DOMAIN s |-> s2[p]]
       /\ \A p \in DOMAIN s : s2[p] = IF \E m \in dies : held[c][m].fd = p THEN ClosedBy(s[p], c) ELSE s[p]
  BY <1>8, <1>9, <1>10
<1> HIDE DEF l2, s2
<1>12. AreErased(held, s, c, dies, l2, s2) BY <1>6, <1>11 DEF AreErased
<1>13. Right(l2, s2, offers, dk, size) BY <1>1, <1>12, ErasedIsRight
<1> QED BY <1>13 DEF l2, s2

\* The connection is closed, and the entry marked DCC_DELETE.
LEMMA HeldLost ==
    ASSUME NEW c \in Clients, NEW k \in Kinds, NEW e, NEW s, NEW dk, Held(c, k, e, s, dk), Lost(c, k, e, s)
    PROVE  Right(list', sock', offers, dk, size)
<1> DEFINE l == Placed(list, c, k, e)
           x == Gone(e)
           s2 == Close(s, c, e.fd)
<1>1. e \in Entry /\ Right(l, s, offers, dk, size) BY DEF Held
<1>2. l[c][k] = e /\ Fits(c, k, e, s) BY HeldIs
<1>3. x \in Entry /\ x.fd = 0 /\ x.port = e.port /\ x.flags = e.flags \cup {"DELETE"} BY <1>1 DEF Gone, Entry, Flags
<1>4. Left(k, e, x) BY <1>2, <1>3 DEF Left, Fits, Offered
<1> HIDE DEF l, x
<1>5. Right(Placed(l, c, k, x), s2, offers, dk, size) BY <1>1, <1>2, <1>3, <1>4, CloseOne
<1>6. DOMAIN s2 = DOMAIN s BY DEF Close
<1> HIDE DEF s2
<1>7. Held(c, k, x, s2, dk) BY <1>3, <1>5, <1>6, HeldNext DEF l
<1>8. ReallyErase(c, k, x, s2) BY DEF Lost, x, s2
<1> QED BY <1>7, <1>8, HeldErased

\* The sender reads and sends another block, or is done.
LEMMA HeldBlock ==
    ASSUME NEW c \in Clients, NEW e, NEW s, NEW dk, Held(c, "send", e, s, dk), e.fd # 0, "WAIT" \notin e.flags,
           CaughtUp(c, e, s, dk), SendBlock(c, e, s)
    PROVE  Right(list', sock', offers, dk, size)
<1> DEFINE n == IF size - e.pos < Block THEN size - e.pos ELSE Block
           p == e.fd
           l == Placed(list, c, "send", e)
           x == Advanced(e, n)
           s2 == Carrying(s, p, e, n)
<1>1. "send" \in Kinds BY DEF Kinds
<1>2. e \in Entry /\ Right(l, s, offers, dk, size) BY DEF Held
<1>3. l[c]["send"] = e BY <1>1, HeldIs
<1>4. e.pos \in Nat /\ e.count \in Nat BY <1>2 DEF Entry
<1>5. size \in Nat /\ Data(c, l, s, dk, size) BY <1>2, RightParts
<1>6. e.pos <= size BY <1>3, <1>5 DEF Data, Sent
<1>7. n \in Nat /\ n <= Block /\ e.pos + n <= size
  <2> DEFINE a == e.pos
  <2>1. a \in Nat /\ a <= size BY <1>4, <1>6
  <2> HIDE DEF a
  <2>2. \A m : m = (IF size - a < Block THEN size - a ELSE Block) => m \in Nat /\ m <= Block /\ a + m <= size
    BY <1>5, <2>1, SizesAssumption
  <2> QED BY <2>2 DEF a
<1>8. IF n = 0 THEN Lost(c, "send", e, s) ELSE ReallyErase(c, "send", x, s2)
  BY DEF SendBlock, Counted, Advanced, Carrying
<1> HIDE DEF n
<1>9. CASE n = 0 BY <1>1, <1>8, <1>9, HeldLost
<1>10. CASE n # 0
  <2>1. Right(Placed(l, c, "send", x), s2, offers, dk, size)
    <3> HIDE DEF l
    <3>1. c \in Clients /\ p = l[c]["send"].fd /\ p # 0 /\ "WAIT" \notin l[c]["send"].flags BY <1>3
    <3>2. n \in Nat /\ n <= Block /\ l[c]["send"].pos + n <= size BY <1>3, <1>7
    <3>3. CaughtUp(c, l[c]["send"], s, dk) BY <1>3
    <3>4. Right(Placed(l, c, "send", Advanced(l[c]["send"], n)), Carrying(s, p, l[c]["send"], n), offers, dk, size)
      BY ONLY <1>2, <3>1, <3>2, <3>3, SentBlock
    <3> QED BY <1>3, <3>4
  <2>2. x \in Entry
    <3> DEFINE v == e.pos + n
               w == e.count + n
               y == [e EXCEPT !.pos = v, !.count = w]
    <3>1. v \in Nat /\ w \in Nat BY <1>4, <1>7
    <3>2. x = y BY DEF Advanced
    <3> HIDE DEF v, w, x
    <3>3. y \in Entry BY <1>2, <3>1 DEF Entry
    <3> QED BY <3>2, <3>3
  <2>3. DOMAIN s2 = DOMAIN s BY DEF Carrying
  <2> HIDE DEF x, s2
  <2>4. Held(c, "send", x, s2, dk) BY <1>1, <2>1, <2>2, <2>3, HeldNext DEF l
  <2> QED BY <1>1, <1>8, <1>10, <2>4, HeldErased
<1> QED BY <1>9, <1>10

\* Something was read or noted of the sender's connection.
LEMMA HeldRead ==
    ASSUME NEW c \in Clients, NEW e, NEW s, NEW dk, Held(c, "send", e, s, dk), e.fd # 0, "WAIT" \notin e.flags,
           NEW u, Heard(s[e.fd], u)
    PROVE  Held(c, "send", e, [s EXCEPT ![e.fd] = u], dk)
<1> DEFINE l == Placed(list, c, "send", e)
           s2 == [s EXCEPT ![e.fd] = u]
<1>1. "send" \in Kinds BY DEF Kinds
<1>2. Right(l, s, offers, dk, size) BY DEF Held
<1>3. l[c]["send"] = e BY <1>1, HeldIs
<1> HIDE DEF l
<1>4. Right(l, s2, offers, dk, size) BY <1>2, <1>3, SenderRead
<1>5. DOMAIN s2 = DOMAIN s OBVIOUS
<1> HIDE DEF s2
<1>6. Held(c, "send", e, s2, dk) BY <1>4, <1>5 DEF Held, l
<1> QED BY <1>6 DEF s2

\* accept()
LEMMA HeldAccepted ==
    ASSUME NEW c \in Clients, NEW k \in Kinds, NEW e, Held(c, k, e, sock, disk), e.fd # 0, "WAIT" \in e.flags,
           Readable(c, e.fd)
    PROVE  /\ Held(c, k, Accepting(e), Accepted(e.fd), disk)
           /\ Accepting(e).fd = e.fd /\ "WAIT" \notin Accepting(e).flags /\ Accepting(e).count = 0
           /\ k = "send" => Len(disk[Peer(c)]) = 0
<1> DEFINE l == Placed(list, c, k, e)
           p == e.fd
           x == Accepting(e)
           s2 == [sock EXCEPT ![p] = [@ EXCEPT !.listens = FALSE, !.near = TRUE]]
<1>1. l[c][k] = e /\ Fits(c, k, e, sock) BY HeldIs
<1>2. p \in DOMAIN sock /\ Owns(c, k, e, sock[p]) BY <1>1 DEF Fits, Uses
<1>3. sock[p].owner = c /\ sock[p].listens BY <1>2 DEF Owns
<1>4. sock[p].link = "up" BY <1>3 DEF Readable
<1>5. Right(l, sock, offers, disk, size) /\ e \in Entry BY DEF Held
<1>6. x \in Entry /\ x.fd = p /\ "WAIT" \notin x.flags /\ x.count = 0 BY <1>5 DEF Accepting, Entry, Flags
<1> HIDE DEF l
<1>7. Right(Placed(l, c, k, Accepting(l[c][k])), s2, offers, disk, size) BY <1>1, <1>4, <1>5, Accept
<1>8. Right(Placed(l, c, k, x), s2, offers, disk, size) BY <1>1, <1>7
<1>9. DOMAIN s2 = DOMAIN sock OBVIOUS
<1>10. s2 = Accepted(p) BY DEF Accepted
<1>11. ASSUME k = "send" PROVE Len(disk[Peer(c)]) = 0
  <2>1. Data(c, l, sock, disk, size) BY <1>5, RightParts
  <2>2. disk[Peer(c)] = <<>> BY <1>1, <1>4, <1>11, <2>1 DEF Data, Sent
  <2> QED BY <2>2
<1> HIDE DEF s2, x
<1>12. Held(c, k, x, s2, disk) BY <1>6, <1>8, <1>9, HeldNext DEF l
<1> QED BY <1>6, <1>10, <1>11, <1>12 DEF x

\* process_incoming_chat()
LEMMA ChatRight ==
    ASSUME NEW c \in Clients, NEW e, Held(c, "chat", e, sock, disk), Readable(c, e.fd),
           "accept" \notin Failures, ProcessIncomingChat(c, e)
    PROVE  Right(list', sock', offers, disk, size)
<1>1. "chat" \in Kinds /\ e.fd # 0 BY DEF Kinds, Readable
<1>2. CASE "WAIT" \in e.flags /\ ReallyErase(c, "chat", Accepting(e), Accepted(e.fd))
  <2>1. Held(c, "chat", Accepting(e), Accepted(e.fd), disk) BY <1>1, <1>2, HeldAccepted
  <2> QED BY <1>1, <1>2, <2>1, HeldErased
<1>3. CASE "WAIT" \notin e.flags /\ Lost(c, "chat", e, sock) BY <1>1, <1>3, HeldLost
<1> QED BY <1>2, <1>3 DEF ProcessIncomingChat

\* process_outgoing_file()
LEMMA OutgoingRight ==
    ASSUME NEW c \in Clients, NEW e, Held(c, "send", e, sock, disk), Readable(c, e.fd),
           "accept" \notin Failures, ProcessOutgoingFile(c, e)
    PROVE  Right(list', sock', offers, disk, size)
<1> DEFINE p == e.fd
           t == sock[p]
           noted == [sock EXCEPT ![p].err = FALSE]
           read == [sock EXCEPT ![p].toNear = Tail(@)]
<1>1. "send" \in Kinds /\ p # 0 BY DEF Kinds, Readable
<1>2. Fits(c, "send", e, sock) /\ Placed(list, c, "send", e)[c]["send"] = e BY <1>1, HeldIs
<1>3. p \in DOMAIN sock /\ Owns(c, "send", e, t) BY <1>1, <1>2 DEF Fits, Uses
<1>4. Right(Placed(list, c, "send", e), sock, offers, disk, size) BY DEF Held
<1>5. Stream(t) BY <1>3, <1>4, RightParts
<1>6. CASE "WAIT" \in e.flags /\ SendBlock(c, Accepting(e), Accepted(e.fd))
  <2>1. /\ Held(c, "send", Accepting(e), Accepted(e.fd), disk)
        /\ Accepting(e).fd = e.fd /\ "WAIT" \notin Accepting(e).flags /\ Accepting(e).count = 0
        /\ Len(disk[Peer(c)]) = 0
    BY <1>1, <1>6, HeldAccepted
  <2>2. CaughtUp(c, Accepting(e), Accepted(e.fd), disk) BY <2>1 DEF CaughtUp
  <2> QED BY <1>1, <1>6, <2>1, <2>2, HeldBlock
<1>7. CASE "WAIT" \notin e.flags /\ t.err /\ (SendBlock(c, e, noted) \/ ReallyErase(c, "send", e, noted))
  <2> DEFINE u == [sock[e.fd] EXCEPT !.err = FALSE]
  <2>1. noted = [sock EXCEPT ![e.fd] = u] BY <1>3
  <2>2. t.link = "dead"
    <3>1. t.near /\ t.kind = "send" BY <1>3, <1>7 DEF Owns
    <3> QED BY <1>5, <1>7, <3>1 DEF Stream
  <2>3. noted[p].link = "dead"
    <3>1. noted[p] = u BY <1>3
    <3>2. u.link = sock[e.fd].link OBVIOUS
    <3> QED BY <2>2, <3>1, <3>2
  <2> HIDE DEF u, noted
  <2>4. Held(c, "send", e, [sock EXCEPT ![e.fd] = u], disk)
    <3>1. Heard(sock[e.fd], u) BY <1>7 DEF Heard, u
    <3> QED BY <1>1, <1>7, <3>1, HeldRead
  <2>5. Held(c, "send", e, noted, disk) BY <2>1, <2>4
  <2>6. CASE SendBlock(c, e, noted)
    <3>1. CaughtUp(c, e, noted, disk) BY <2>3 DEF CaughtUp
    <3> QED BY <1>1, <1>7, <2>5, <2>6, <3>1, HeldBlock
  <2>7. CASE ReallyErase(c, "send", e, noted) BY <1>1, <2>5, <2>7, HeldErased
  <2> QED BY <1>7, <2>6, <2>7
<1>8. CASE "WAIT" \notin e.flags /\ Lost(c, "send", e, sock) BY <1>1, <1>8, HeldLost
<1>9. CASE /\ "WAIT" \notin e.flags /\ t.toNear # <<>>
           /\ IF Acknowledged(e) THEN SendBlock(c, e, read) ELSE ReallyErase(c, "send", e, read)
  <2> DEFINE u == [sock[e.fd] EXCEPT !.toNear = Tail(@)]
  <2>1. read = [sock EXCEPT ![e.fd] = u] BY <1>3
  <2> HIDE DEF u, read
  <2>2. Held(c, "send", e, [sock EXCEPT ![e.fd] = u], disk)
    <3>1. Heard(sock[e.fd], u) BY <1>9 DEF Heard, u
    <3> QED BY <1>1, <1>9, <3>1, HeldRead
  <2>3. Held(c, "send", e, read, disk) BY <2>1, <2>2
  <2>4. CASE Acknowledged(e)
    <3>1. Head(t.toNear) = e.count BY <2>4 DEF Acknowledged
    <3>2. Len(disk[Peer(c)]) = e.count BY <1>1, <1>2, <1>4, <1>9, <3>1, AcknowledgedIsWritten
    <3>3. SendBlock(c, e, read) /\ "WAIT" \notin e.flags /\ e.fd # 0 BY <1>1, <1>9, <2>4
    <3>4. c \in Clients OBVIOUS
    <3>5. CaughtUp(c, e, read, disk) BY <3>2 DEF CaughtUp
    <3> QED BY ONLY <2>3, <3>3, <3>4, <3>5, HeldBlock
  <2>5. CASE ~Acknowledged(e) BY <1>1, <1>9, <2>3, <2>5, HeldErased, SMTT(30)
  <2> QED BY <2>4, <2>5
<1> QED BY <1>6, <1>7, <1>8, <1>9 DEF ProcessOutgoingFile

\* process_incoming_file()
LEMMA IncomingRight ==
    ASSUME NEW c \in Clients, NEW e, Held(c, "get", e, sock, disk), Readable(c, e.fd), ProcessIncomingFile(c, e)
    PROVE  Right(list', sock', offers, disk', size)
<1> DEFINE p == e.fd
           t == sock[p]
           l == Placed(list, c, "get", e)
           Taken(n) == [t EXCEPT !.toFar = SubSeq(@, n + 1, Len(@))]
           Acked(n) == [Taken(n) EXCEPT !.toNear = Append(@, Ack(e, n))]
<1>1. "get" \in Kinds /\ p # 0 BY DEF Kinds, Readable
<1>2. Fits(c, "get", e, sock) /\ l[c]["get"] = e BY <1>1, HeldIs
<1>3. p \in DOMAIN sock /\ Uses(c, "get", e, t) BY <1>1, <1>2 DEF Fits, Owns
<1>4. Right(l, sock, offers, disk, size) /\ e \in Entry BY DEF Held
<1>5. t \in Socket /\ Stream(t) BY <1>3, <1>4, RightParts
<1>6. t.owner = Peer(c) /\ Peer(c) # c BY <1>3, TwoClients DEF Uses
<1>7. t.toFar \in Seq(Nat) /\ t.toNear \in Seq(Nat) /\ disk \in [Clients -> Seq(Nat)] BY <1>4, <1>5 DEF Socket, Right, Types
<1>8. CASE Lost(c, "get", e, sock) /\ UNCHANGED disk BY <1>1, <1>8, HeldLost
<1>9. ASSUME NEW n \in DOMAIN t.toFar, disk' = [disk EXCEPT ![c] = @ \o SubSeq(t.toFar, 1, n)],
             ReallyErase(c, "get", [e EXCEPT !.count = @ + n],
                         [sock EXCEPT ![p] = Pushed(Taken(n), t.near, Acked(n))])
      PROVE  Right(list', sock', offers, disk', size)
  <2> DEFINE x == [e EXCEPT !.count = @ + n]
             v == Taken(n)
             w == Ack(e, n)
             u == Pushed(v, t.near, [v EXCEPT !.toNear = Append(@, w)])
             f2 == disk[c] \o SubSeq(t.toFar, 1, n)
             rest == SubSeq(t.toFar, n + 1, Len(t.toFar))
             s2 == [sock EXCEPT ![p] = u]
             dk2 == [disk EXCEPT ![c] = f2]
  <2>1. AreParts(disk[c], t.toFar, n, rest, f2)
    <3> DEFINE f == disk[c]
               r == t.toFar
    <3>1. f \in Seq(Nat) /\ r \in Seq(Nat) /\ n \in DOMAIN r BY <1>7, <1>9
    <3> HIDE DEF f, r
    <3>2. AreParts(f, r, n, SubSeq(r, n + 1, Len(r)), f \o SubSeq(r, 1, n)) BY <3>1, Pieces
    <3> QED BY <3>2 DEF f, r
  <2>2. n \in Nat /\ 1 <= n /\ t.toFar # <<>> /\ f2 \in Seq(Nat) BY <2>1 DEF AreParts
  <2>3. e.count \in Nat BY <1>4 DEF Entry
  <2>4. w \in Nat
    <3>1. e.count + n \in Nat BY <2>2, <2>3
    <3> QED BY <3>1, SizesAssumption, ModIsLess DEF Ack
  <2>5. x \in Entry /\ x.fd = p /\ x.on = e.on /\ x.port = e.port /\ x.flags = e.flags /\ x.count = e.count + n
    <3> DEFINE y == e.count + n
               h == [e EXCEPT !.count = y]
    <3>1. y \in Nat BY <2>2, <2>3
    <3>2. x = h OBVIOUS
    <3> HIDE DEF y, x
    <3>3. h \in Entry /\ h.fd = e.fd /\ h.on = e.on /\ h.port = e.port /\ h.flags = e.flags /\ h.count = y
      BY <1>4, <3>1 DEF Entry
    <3> HIDE DEF h
    <3> QED BY <3>2, <3>3 DEF y
  <2>6. Rest(t, u, n) /\ (u.link = "up" => u.toNear = Append(t.toNear, w))
    <3> HIDE DEF w, u
    <3>1. v = [t EXCEPT !.toFar = SubSeq(@, n + 1, Len(@))] OBVIOUS
    <3> HIDE DEF v, t
    <3>2. u = Pushed(v, t.near, [v EXCEPT !.toNear = Append(@, w)]) BY DEF u
    <3>3. n \in DOMAIN t.toFar BY <1>9 DEF t
    <3> QED BY <1>5, <2>4, <3>1, <3>2, <3>3, TakenAndAcked
  <2>7. s2 = [sock EXCEPT ![p] = Pushed(Taken(n), t.near, Acked(n))] /\ disk' = dk2 BY <1>9
  <2>8. dk2 \in [Clients -> Seq(Nat)] /\ dk2[c] = f2 /\ \A b \in Clients : b # c => dk2[b] = disk[b]
    <3> HIDE DEF f2
    <3> QED BY <1>7, <2>2
  <2>9. ReallyErase(c, "get", x, s2) BY <1>9, <2>7
  <2> HIDE DEF u, v, w, x, f2, rest, dk2
  <2>10. u.link = "up" => /\ AreParts(disk[c], t.toFar, n, u.toFar, f2)
                          /\ IsOneMore(t.toNear, Ack(e, n), u.toNear)
    <3> SUFFICES ASSUME u.link = "up"
                 PROVE  AreParts(disk[c], t.toFar, n, u.toFar, f2) /\ IsOneMore(t.toNear, Ack(e, n), u.toNear)
      OBVIOUS
    <3>1. u.toFar = rest /\ u.toNear = Append(t.toNear, w) BY <2>6 DEF Rest, rest
    <3>2. IsOneMore(t.toNear, w, u.toNear) BY <1>7, <2>4, <3>1, OneMore
    <3> QED BY <2>1, <3>1, <3>2 DEF w
  <2>11. Right(Placed(l, c, "get", x), s2, offers, dk2, size)
    <3> HIDE DEF l, s2
    <3>1. /\ p = l[c]["get"].fd /\ x.on = l[c]["get"].on /\ x.port = l[c]["get"].port /\ x.flags = l[c]["get"].flags
          /\ x.count = l[c]["get"].count + n
      BY <1>2, <2>5
    <3>2. Ack(e, n) = Ack(l[c]["get"], n) BY <1>2
    <3>3. /\ c \in Clients /\ p # 0 /\ x \in Entry /\ x.fd = p /\ f2 \in Seq(Nat)
          /\ sock[p].toFar # <<>> /\ Rest(sock[p], u, n)
      BY <1>1, <2>2, <2>5, <2>6
    <3>4. u.link = "up" => /\ AreParts(disk[c], sock[p].toFar, n, u.toFar, f2)
                           /\ IsOneMore(sock[p].toNear, Ack(l[c]["get"], n), u.toNear)
      BY <2>10, <3>2
    <3>5. Right(l, sock, offers, disk, size) BY <1>4
    <3> HIDE DEF p
    <3>6. Right(Placed(l, c, "get", x), [sock EXCEPT ![p] = u], offers, dk2, size)
      BY ONLY <2>8, <3>1, <3>3, <3>4, <3>5, Received, ZenonT(60)
    <3> QED BY <3>6 DEF s2, p
  <2>12. DOMAIN s2 = DOMAIN sock OBVIOUS
  <2> HIDE DEF s2
  <2>13. Held(c, "get", x, s2, dk2) BY <1>1, <2>5, <2>11, <2>12, HeldNext DEF l
  <2> QED BY <1>1, <2>7, <2>9, <2>13, HeldErased
<1>10. ASSUME NEW n \in DOMAIN t.toFar, Lost(c, "get", e, [sock EXCEPT ![p] = Taken(n)]), UNCHANGED disk
       PROVE  Right(list', sock', offers, disk', size)
  <2> DEFINE v == Taken(n)
             s2 == [sock EXCEPT ![p] = v]
             s3 == Close(s2, c, p)
             x == Gone(e)
             u == ClosedBy(v, c)
  <2>1. /\ v \in Socket /\ Stream(v) /\ v.owner = t.owner /\ v.kind = t.kind /\ v.listens = t.listens
        /\ v.near = t.near /\ v.far = t.far /\ v.link = t.link /\ v.err = t.err /\ v.toNear = t.toNear
    <3> HIDE DEF t
    <3>1. n \in DOMAIN t.toFar BY <1>10 DEF t
    <3>2. t \in Socket /\ Stream(t) BY <1>5
    <3> QED BY <3>1, <3>2, TakenIs, ZenonT(60)
  <2> HIDE DEF v
  <2>2. Released(v, c, u) BY <2>1, ClosedIsReleased
  <2>3. Released(t, c, u)
    <3> HIDE DEF t, u
    <3> QED BY <1>6, <2>1, <2>2 DEF Released
  <2>4. s3 = [sock EXCEPT ![p] = u]
    <3>1. s2[p] = v BY <1>3
    <3>2. s3 = [s2 EXCEPT ![p] = ClosedBy(s2[p], c)] BY <1>1 DEF Close
    <3> QED BY <3>1, <3>2
  <2>5. x \in Entry /\ x.fd = 0 /\ x.port = e.port /\ x.flags = e.flags \cup {"DELETE"} BY <1>4 DEF Gone, Entry, Flags
  <2>6. Left("get", e, x) BY <1>2, <2>5 DEF Left, Fits, Offered
  <2>7. ReallyErase(c, "get", x, s3) BY <1>10 DEF Lost, v
  <2> HIDE DEF u, x, s2, s3
  <2>8. Right(Placed(l, c, "get", x), s3, offers, disk, size)
    <3> HIDE DEF l
    <3>1. /\ l[c]["get"].fd # 0
          /\ \E y : s3 = [sock EXCEPT ![l[c]["get"].fd] = y] /\ Released(sock[l[c]["get"].fd], c, y)
      BY <1>1, <1>2, <2>3, <2>4
    <3>2. Left("get", l[c]["get"], x) BY <1>2, <2>6
    <3>3. c \in Clients /\ "get" \in Kinds /\ x \in Entry /\ Right(l, sock, offers, disk, size) BY <1>1, <1>4, <2>5
    <3> QED BY ONLY <3>1, <3>2, <3>3, LetOne
  <2>9. DOMAIN s3 = DOMAIN sock BY <2>4
  <2>10. Held(c, "get", x, s3, disk) BY <1>1, <2>5, <2>8, <2>9, HeldNext DEF l
  <2> QED BY <1>1, <1>10, <2>7, <2>10, HeldErased
<1> QED BY <1>8, <1>9, <1>10 DEF ProcessIncomingFile

\* One round of dcc_check() for one entry
LEMMA CheckRight ==
    ASSUME DccRight, "accept" \notin Failures, NEW c \in Clients, NEW k \in Kinds, DccCheck(c, k)
    PROVE  DccRight'
<1> DEFINE e == Answered(c, list[c][k])
<1>1. Held(c, k, e, sock, disk) BY HeldAnswered
<1>2. UNCHANGED <<offers, size>> BY DEF DccCheck
<1>3. Right(list', sock', offers, disk', size)
  <2>1. CASE Readable(c, e.fd) /\ Process(c, k, e)
    <3> HIDE DEF e
    <3>1. CASE k = "chat" /\ ProcessIncomingChat(c, e) /\ UNCHANGED disk BY <1>1, <2>1, <3>1, ChatRight
    <3>2. CASE k = "send" /\ ProcessOutgoingFile(c, e) /\ UNCHANGED disk BY <1>1, <2>1, <3>2, OutgoingRight
    <3>3. CASE k = "get" /\ ProcessIncomingFile(c, e) BY <1>1, <2>1, <3>3, IncomingRight
    <3> QED BY <2>1, <3>1, <3>2, <3>3 DEF Process
  <2>2. CASE ReallyErase(c, k, e, sock) /\ UNCHANGED disk
    <3> HIDE DEF e
    <3> QED BY <1>1, <2>2, HeldErased
  <2> QED BY <2>1, <2>2 DEF DccCheck
<1> QED BY <1>2, <1>3 DEF DccRight

-----------------------------------------------------------------------------
(* What the user types, and the offers of the peer                          *)

\* dcc_erase() of an entry in hand
LEMMA EraseRight ==
    ASSUME list \in [Clients -> [Kinds -> Entry]], NEW c \in Clients, NEW k \in Kinds, NEW e \in Entry,
           NEW s, NEW o, NEW dk, NEW z, Right(Placed(list, c, k, e), s, o, dk, z), DccErase(c, k, e, s)
    PROVE  Right(list', sock', o, dk, z)
<1> DEFINE l == Placed(list, c, k, e)
<1>1. l[c][k] = e
  <2>1. list \in [Clients -> [Kinds -> Entry]] /\ c \in Clients /\ k \in Kinds /\ e \in Entry OBVIOUS
  <2>2. IsPut(list, c, k, e, Placed(list, c, k, e)) BY ONLY <2>1, PutIs
  <2> QED BY <2>2 DEF IsPut
<1>2. Nobody \in Entry /\ Left(k, e, Nobody) BY NobodyIs DEF NobodyIsEntry
<1>3. list' = Placed(list, c, k, Nobody) /\ sock' = Close(s, c, e.fd) BY DEF DccErase, Set, Placed
<1>4. Placed(l, c, k, Nobody) = Placed(list, c, k, Nobody) BY PutTwice
<1> HIDE DEF l
<1>5. Right(l, s, o, dk, z) BY DEF l
<1>6. Right(Placed(l, c, k, Nobody), Close(s, c, l[c][k].fd), o, dk, z) BY <1>1, <1>2, <1>5, CloseOne
<1> QED BY <1>1, <1>3, <1>4, <1>6

\* dcc_open() of an offer
LEMMA DialRight ==
    ASSUME list \in [Clients -> [Kinds -> Entry]], NEW c \in Clients, NEW k \in Kinds, NEW e \in Entry,
           NEW s, NEW o, NEW dk, NEW z, Right(Placed(list, c, k, e), s, o, dk, z), Dial(c, k, e, s),
           e.on, "OFFER" \in e.flags, ~Busy(e), k = "get" => dk[c] = <<>>
    PROVE  Right(list', sock', o, dk, z)
<1> DEFINE l == Placed(list, c, k, e)
           p == e.port
           t == s[p]
           x == [e EXCEPT !.fd = e.port, !.count = 0, !.flags = @ \cup {"PEND", "ACTIVE"}]
           u == [t EXCEPT !.link = "syn", !.far = TRUE]
<1>1. l[c][k] = e
  <2>1. list \in [Clients -> [Kinds -> Entry]] /\ c \in Clients /\ k \in Kinds /\ e \in Entry OBVIOUS
  <2>2. IsPut(list, c, k, e, Placed(list, c, k, e)) BY ONLY <2>1, PutIs
  <2> QED BY <2>2 DEF IsPut
<1>2. Fits(c, k, e, s) /\ \A q \in DOMAIN s : s[q] \in Socket
  <2>1. Fits(c, k, l[c][k], s) /\ \A q \in DOMAIN s : s[q] \in Socket BY RightParts
  <2> QED BY <1>1, <2>1
<1>3. p \in DOMAIN s BY <1>2 DEF Fits
<1>4. t \in Socket BY <1>2, <1>3
<1>5. /\ u \in Socket /\ u.link = "syn" /\ u.far /\ u.owner = t.owner /\ u.kind = t.kind
      /\ u.listens = t.listens /\ u.near = t.near /\ u.err = t.err /\ u.toFar = t.toFar /\ u.toNear = t.toNear
  BY <1>4 DEF Socket
<1>6. /\ x \in Entry /\ x.fd = p /\ x.on = e.on /\ x.port = p /\ x.count = 0
      /\ x.flags = e.flags \cup {"PEND", "ACTIVE"}
  BY DEF Entry, Flags
<1>7. list' = Placed(list, c, k, x) /\ sock' = [s EXCEPT ![p] = u] BY DEF Dial, Set, Placed
<1>8. Placed(l, c, k, x) = Placed(list, c, k, x) BY PutTwice
<1>9. Offered(e) /\ "WAIT" \notin e.flags BY DEF Offered, Busy
<1> HIDE DEF l, x, u, p, t
<1>10. Right(l, s, o, dk, z) BY SMTT(30) DEF l
<1>11. Right(Placed(l, c, k, x), [s EXCEPT ![p] = u], o, dk, z)
  <2>1. /\ p = l[c][k].port /\ l[c][k].on /\ Offered(l[c][k]) /\ "WAIT" \notin l[c][k].flags
        /\ x.flags = l[c][k].flags \cup {"PEND", "ACTIVE"} /\ x.on
    BY <1>1, <1>6, <1>9 DEF p
  <2> QED BY <1>5, <1>6, <1>10, <2>1, Dialed DEF t
<1> QED BY <1>7, <1>8, <1>11

\* dcc_open() of what is to be offered
LEMMA ListenRight ==
    ASSUME list \in [Clients -> [Kinds -> Entry]], NEW c \in Clients, NEW k \in Kinds, NEW e \in Entry,
           NEW dk, Right(Placed(list, c, k, e), sock, offers, dk, size), Listen(c, k, e, sock),
           e.on, "OFFER" \notin e.flags, ~Busy(e), k # "get", k = "send" => e.pos = 0
    PROVE  Right(list', sock', offers', dk, size)
<1> DEFINE l == Placed(list, c, k, e)
           N == Cardinality(Used)
           p == N + 1
           u == [owner |-> c, kind |-> k, listens |-> TRUE, link |-> "none", err |-> FALSE,
                 near |-> FALSE, far |-> FALSE, toFar |-> <<>>, toNear |-> <<>>]
           x == [e EXCEPT !.fd = p, !.flags = @ \cup {"PEND", "WAIT"}]
           v == e.filesize
           of == [kind |-> k, port |-> p, size |-> v]
<1>1. l[c][k] = e
  <2>1. list \in [Clients -> [Kinds -> Entry]] /\ c \in Clients /\ k \in Kinds /\ e \in Entry OBVIOUS
  <2>2. IsPut(list, c, k, e, Placed(list, c, k, e)) BY ONLY <2>1, PutIs
  <2> QED BY <2>2 DEF IsPut
<1>2. Fits(c, k, e, sock) /\ Types(l, sock, offers, dk)
  <2>1. Fits(c, k, l[c][k], sock) /\ Types(l, sock, offers, dk) BY RightParts
  <2> QED BY <1>1, <2>1
<1>3. e.fd = 0 BY <1>2 DEF Fits, Owns, Uses, Busy
<1>4. N \in Nat /\ DOMAIN sock = 1 .. N
  <2>1. PICK n \in Nat : DOMAIN sock = 1 .. n BY <1>2 DEF Types
  <2>2. Cardinality(1 .. n) = n
    <3>1. Cardinality(1 .. n) = IF 1 > n THEN 0 ELSE n - 1 + 1 BY FS_Interval
    <3> QED BY <3>1
  <2>3. N = n BY <2>1, <2>2 DEF Used
  <2> QED BY <2>1, <2>3
<1>5. u \in Socket /\ v \in Nat BY EmptySeq DEF Socket, Entry
<1> HIDE DEF N
<1>6. p \in Nat BY <1>4
<1> HIDE DEF p
<1>7. /\ x \in Entry /\ x.fd = p /\ x.on = e.on /\ "WAIT" \in x.flags /\ x.pos = e.pos
      /\ ("ACTIVE" \in x.flags <=> "ACTIVE" \in e.flags) /\ ("OFFER" \in x.flags <=> "OFFER" \in e.flags)
  BY <1>6 DEF Entry, Flags
<1>8. /\ list' = Placed(list, c, k, x)
      /\ sock' = [q \in Used \cup {p} |-> IF q = p THEN u ELSE sock[q]]
      /\ offers' = [offers EXCEPT ![Peer(c)] = Append(@, of)]
  BY DEF Listen, Set, Placed, p, N
<1>9. Placed(l, c, k, x) = Placed(list, c, k, x) BY PutTwice
<1> DEFINE s2 == sock'
           o2 == offers'
<1>10. /\ DOMAIN s2 = 1 .. p /\ s2[p] = u /\ \A q \in 1 .. N : s2[q] = sock[q]
       /\ s2 = [q \in 1 .. p |-> s2[q]]
  <2>1. Used \cup {p} = 1 .. p
    <3>1. Used = 1 .. N BY <1>4 DEF Used
    <3>2. 1 .. p = 1 .. N \cup {p} BY <1>4 DEF p
    <3> QED BY <3>1, <3>2
  <2>2. \A q \in 1 .. N : q \in 1 .. p /\ q # p BY <1>4 DEF p
  <2>3. p \in 1 .. p BY <1>4 DEF p
  <2> HIDE DEF u
  <2>4. s2 = [q \in 1 .. p |-> IF q = p THEN u ELSE sock[q]] BY <1>8, <2>1
  <2> HIDE DEF s2
  <2> QED BY <2>2, <2>3, <2>4
<1>11. /\ o2[Peer(c)] = Append(offers[Peer(c)], of)
       /\ \A b \in Clients : b # Peer(c) => o2[b] = offers[b]
       /\ o2 = [b \in Clients |-> o2[b]]
  <2>1. DOMAIN offers = Clients /\ offers = [b \in Clients |-> offers[b]] BY <1>2 DEF Types
  <2>2. Peer(c) \in Clients BY TwoClients
  <2> HIDE DEF of
  <2> QED BY <1>8, <2>1, <2>2
<1>12. p = N + 1 BY DEF p
<1>13. /\ u.owner = c /\ u.kind = k /\ u.listens /\ ~u.near /\ ~u.far /\ ~u.err /\ u.link = "none"
       /\ u.toFar = <<>> /\ u.toNear = <<>>
  OBVIOUS
<1>14. "ACTIVE" \notin e.flags BY DEF Busy
<1> HIDE DEF l, x, u, s2, o2, v
<1>15. Right(l, sock, offers, dk, size) BY DEF l
<1>16. l[c][k].fd = 0 /\ x.on /\ "ACTIVE" \notin x.flags /\ "OFFER" \notin x.flags /\ (k = "send" => x.pos = 0)
  BY <1>1, <1>3, <1>7, <1>14
<1>17. o2[Peer(c)] = Append(offers[Peer(c)], [kind |-> k, port |-> p, size |-> v]) BY <1>11
<1> HIDE DEF of
<1>18. Right(Placed(l, c, k, x), s2, o2, dk, size)
  <2>1. IsNewSocket(sock, N, p, u, s2) BY <1>4, <1>10, <1>12 DEF IsNewSocket
  <2>2. IsOfferedTo(offers, c, k, p, v, o2) BY <1>5, <1>11, <1>17 DEF IsOfferedTo
  <2>3. u \in Socket /\ x \in Entry /\ x.fd = p /\ "WAIT" \in x.flags BY <1>5, <1>7
  <2> QED BY <1>13, <1>15, <1>16, <2>1, <2>2, <2>3, Listened
<1> QED BY <1>8, <1>9, <1>18 DEF s2, o2

\* dcc_open()
LEMMA OpenRight ==
    ASSUME NEW c \in Clients, NEW k \in Kinds, NEW e, NEW dk, Held(c, k, e, sock, dk), DccOpen(c, k, e, sock),
           e.on, ~Busy(e), k = "send" => e.pos = 0,
           k = "get" => dk[c] = <<>> /\ "OFFER" \in e.flags
    PROVE  Right(list', sock', offers', dk, size)
<1>1. /\ list \in [Clients -> [Kinds -> Entry]] /\ e \in Entry
      /\ Right(Placed(list, c, k, e), sock, offers, dk, size)
  BY DEF Held
<1>2. CASE "OFFER" \in e.flags /\ Dial(c, k, e, sock) /\ UNCHANGED offers BY <1>1, <1>2, DialRight
<1>3. CASE "OFFER" \notin e.flags /\ Listen(c, k, e, sock) BY <1>1, <1>3, ListenRight
<1>4. CASE DccErase(c, k, e, sock) /\ UNCHANGED offers BY <1>1, <1>4, EraseRight
<1> QED BY <1>2, <1>3, <1>4 DEF DccOpen

\* dcc_searchlist() gives an entry of the list, or a new one.
LEMMA SearchIs ==
    ASSUME DccRight, NEW c \in Clients, NEW k \in Kinds, NEW v \in Nat
    PROVE  LET e == Search(c, k, v)
           IN  /\ e \in Entry /\ e.on
               /\ e = list[c][k] \/ (e.fd = 0 /\ e.flags = {} /\ list[c][k].fd = 0)
               /\ ~Busy(e) => list[c][k].fd = 0
<1> DEFINE e == list[c][k]
           x == [Nobody EXCEPT !.on = TRUE, !.filesize = v]
<1>1. e \in Entry /\ Fits(c, k, e, sock)
  <2>1. Right(list, sock, offers, disk, size) BY DEF DccRight
  <2> QED BY <2>1, RightParts
<1>2. x \in Entry /\ x.on /\ x.fd = 0 /\ x.flags = {} BY DEF Nobody, Entry, Flags
<1>3. Search(c, k, v) = IF e.on THEN e ELSE x BY DEF Search
<1> HIDE DEF e, x
<1>4. e.fd # 0 => e.on /\ Busy(e) BY <1>1 DEF Fits, Owns, Uses, Busy
<1>5. CASE e.on BY <1>1, <1>3, <1>4, <1>5 DEF e
<1>6. CASE ~e.on BY <1>2, <1>3, <1>4, <1>6 DEF e
<1> QED BY <1>5, <1>6

\* An entry that holds no descriptor may take the place of another.
LEMMA HeldIdle ==
    ASSUME DccRight, NEW c \in Clients, NEW k \in Kinds, list[c][k].fd = 0, NEW x \in Entry, Left(k, list[c][k], x)
    PROVE  Held(c, k, x, sock, disk)
<1>1. Right(list, sock, offers, disk, size) BY DEF DccRight
<1>2. list \in [Clients -> [Kinds -> Entry]] BY <1>1 DEF Right, Types
<1>3. Right(Placed(list, c, k, x), sock, offers, disk, size) BY <1>1, LetOne
<1> QED BY <1>2, <1>3 DEF Held, Used

\* What dcc_check() and the user can rely on
DccInv == DccRight /\ filesize \in [Clients -> Nat]

\* The commands of the user: /DCC CHAT, SEND, GET and CLOSE.
LEMMA UserRight ==
    ASSUME DccInv, ~SendsAgain, NEW c \in Clients, DccUser(c)
    PROVE  DccRight'
<1>1. DccRight /\ Right(list, sock, offers, disk, size) BY DEF DccInv, DccRight
<1>2. size \in Nat /\ filesize[c] \in Nat /\ list \in [Clients -> [Kinds -> Entry]]
  BY <1>1 DEF Right, DccInv, Types
<1>3. "chat" \in Kinds /\ "send" \in Kinds /\ "get" \in Kinds BY DEF Kinds
<1>4. CASE DccChat(c)
  <2> DEFINE e == Search(c, "chat", filesize[c])
  <2>1. ~Busy(e) /\ DccOpen(c, "chat", e, sock) /\ UNCHANGED <<disk, size>> BY <1>4 DEF DccChat
  <2>2. /\ e \in Entry /\ e.on
        /\ e = list[c]["chat"] \/ (e.fd = 0 /\ e.flags = {} /\ list[c]["chat"].fd = 0)
        /\ list[c]["chat"].fd = 0
    BY <1>1, <1>2, <1>3, <2>1, SearchIs
  <2> HIDE DEF e
  <2>3. Left("chat", list[c]["chat"], e) BY <2>2 DEF Left, Offered
  <2>4. Held(c, "chat", e, sock, disk) BY <1>1, <1>3, <2>2, <2>3, HeldIdle
  <2>5. Right(list', sock', offers', disk, size) BY <1>3, <2>1, <2>2, <2>4, OpenRight
  <2> QED BY <2>1, <2>5 DEF DccRight
<1>5. CASE DccFilesend(c)
  <2> DEFINE h == Search(c, "send", size)
             e == [h EXCEPT !.pos = 0]
  <2>1. ~Busy(e) /\ DccOpen(c, "send", e, sock) /\ UNCHANGED <<disk, size>> BY <1>5 DEF DccFilesend
  <2>2. h \in Entry BY <1>1, <1>2, <1>3, SearchIs
  <2>3. e \in Entry /\ e.pos = 0 /\ e.on = h.on /\ e.fd = h.fd /\ e.flags = h.flags /\ e.port = h.port
    <3> HIDE DEF h
    <3> QED BY <2>2 DEF Entry
  <2>4. ~Busy(h) BY <2>1, <2>3 DEF Busy
  <2>5. /\ h.on /\ list[c]["send"].fd = 0
        /\ h = list[c]["send"] \/ (h.fd = 0 /\ h.flags = {})
    BY <1>1, <1>2, <1>3, <2>4, SearchIs
  <2> HIDE DEF e, h
  <2>6. Left("send", list[c]["send"], e) BY <2>3, <2>5 DEF Left, Offered
  <2>7. Held(c, "send", e, sock, disk) BY <1>1, <1>3, <2>3, <2>5, <2>6, HeldIdle
  <2>8. Right(list', sock', offers', disk, size) BY <1>3, <2>1, <2>3, <2>5, <2>7, OpenRight
  <2> QED BY <2>1, <2>8 DEF DccRight
<1>6. CASE DccFilesendFails(c)
  <2> DEFINE e == Search(c, "send", size)
             x == [e EXCEPT !.fd = 0, !.flags = @ \cup {"DELETE"}]
             g == list[c]["send"]
  <2>1. list' = Placed(list, c, "send", x) /\ sock' = Close(sock, c, e.fd) /\ UNCHANGED <<offers, disk, size>>
    BY <1>6 DEF DccFilesendFails, Set, Placed
  <2>2. e \in Entry /\ (e = g \/ (e.fd = 0 /\ e.flags = {} /\ g.fd = 0))
    BY <1>1, <1>2, <1>3, SearchIs
  <2> HIDE DEF e
  <2>3. x \in Entry /\ x.fd = 0 /\ x.port = e.port /\ x.flags = e.flags \cup {"DELETE"} BY <2>2 DEF Entry, Flags
  <2> HIDE DEF x, g
  <2>4. Left("send", g, x) BY <2>2, <2>3 DEF Left, Offered
  <2>5. Right(Placed(list, c, "send", x), Close(sock, c, list[c]["send"].fd), offers, disk, size)
    BY <1>1, <1>3, <2>3, <2>4, CloseOne DEF g
  <2>6. e.fd = list[c]["send"].fd BY <2>2 DEF g
  <2>7. Right(list', sock', offers, disk, size) BY <2>1, <2>5, <2>6
  <2> QED BY <2>1, <2>7 DEF DccRight
<1>7. CASE DccGetfile(c)
  <2> DEFINE e == list[c]["get"]
             x == [e EXCEPT !.count = 0]
             dk2 == [disk EXCEPT ![c] = <<>>]
  <2>1. e \in Entry /\ Fits(c, "get", e, sock) /\ Placed(list, c, "get", e) = list
    BY <1>1, <1>2, <1>3, RightParts, PutSame
  <2>2. e.on /\ ~Busy(e) /\ UNCHANGED size BY <1>7 DEF DccGetfile
  <2>3. CASE "OFFER" \in e.flags
    <3>1. DccOpen(c, "get", x, sock) /\ disk' = dk2 BY <1>7, <2>3 DEF DccGetfile
    <3>2. x \in Entry /\ x.fd = e.fd /\ x.port = e.port /\ x.flags = e.flags /\ x.on = e.on
      <4> HIDE DEF e
      <4> QED BY <2>1 DEF Entry
    <3>3. Offered(e) BY <2>2, <2>3 DEF Offered, Busy
    <3>4. Right(list, sock, offers, dk2, size) BY <1>1, <3>3, NewFile
    <3>5. dk2[c] = <<>>
      <4>1. disk \in [Clients -> Seq(Nat)] BY <1>1 DEF Right, Types
      <4> QED BY <4>1
    <3> HIDE DEF dk2, x
    <3>6. e.fd = 0 BY <2>1, <2>2 DEF Fits, Owns, Uses, Busy
    <3>7. Left("get", e, x) BY <2>1, <3>2, <3>6 DEF Left, Offered, Fits
    <3>8. Right(Placed(list, c, "get", x), sock, offers, dk2, size) BY <1>3, <3>2, <3>4, <3>6, <3>7, LetOne
    <3>9. Held(c, "get", x, sock, dk2) BY <1>2, <3>2, <3>8 DEF Held, Used
    <3>10. ~Busy(x) BY <2>2, <3>2 DEF Busy
    <3>11. Right(list', sock', offers', dk2, size) BY <1>3, <2>2, <2>3, <3>1, <3>2, <3>5, <3>9, <3>10, OpenRight
    <3> QED BY <2>2, <3>1, <3>11 DEF DccRight
  <2>4. CASE "OFFER" \notin e.flags
    <3>1. DccErase(c, "get", e, sock) /\ UNCHANGED <<offers, disk>> BY <1>7, <2>4 DEF DccGetfile
    <3>2. Right(list', sock', offers, disk, size) BY <1>1, <1>2, <1>3, <2>1, <3>1, EraseRight
    <3> QED BY <2>2, <3>1, <3>2 DEF DccRight
  <2> QED BY <2>3, <2>4
<1>8. ASSUME NEW k \in Kinds, DccClose(c, k) PROVE DccRight'
  <2>1. DccErase(c, k, list[c][k], sock) /\ UNCHANGED <<offers, disk, size>> BY <1>8 DEF DccClose
  <2>2. list[c][k] \in Entry /\ Placed(list, c, k, list[c][k]) = list BY <1>1, <1>2, RightParts, PutSame
  <2>3. Right(list', sock', offers, disk, size) BY <1>1, <1>2, <2>1, <2>2, EraseRight
  <2> QED BY <2>1, <2>3 DEF DccRight
<1> QED BY <1>4, <1>5, <1>6, <1>7, <1>8 DEF DccUser

\* register_dcc_offer()
LEMMA RegisterRight ==
    ASSUME DccInv, NEW c \in Clients, RegisterDccOffer(c)
    PROVE  DccRight'
<1> DEFINE o == Head(offers[c])
           k == IF o.kind = "chat" THEN "chat" ELSE "get"
           e == list[c][k]
           old == Search(c, k, o.size)
           o2 == offers'
<1>1. Right(list, sock, offers, disk, size) BY DEF DccInv, DccRight
<1>2. /\ list \in [Clients -> [Kinds -> Entry]]
      /\ offers \in [Clients -> Seq([kind: Kinds, port: Nat, size: Nat])]
  BY <1>1 DEF Right, Types
<1>3. offers[c] # <<>> /\ UNCHANGED <<disk, size>> /\ o2 = [offers EXCEPT ![c] = Tail(@)]
  BY DEF RegisterDccOffer
<1>4. DOMAIN o2 = Clients /\ o2[c] = Tail(offers[c]) /\ (\A b \in Clients : b # c => o2[b] = offers[b])
      /\ o2 = [b \in Clients |-> o2[b]]
  BY <1>2, <1>3
<1>5. o.port \in Nat /\ o.size \in Nat
  <2> DEFINE m == offers[c]
             S == [kind: Kinds, port: Nat, size: Nat]
  <2>1. m \in Seq(S) /\ m # <<>> BY <1>2, <1>3
  <2>2. Head(m) \in S
    <3> HIDE DEF m, S
    <3> QED BY <2>1, HeadTailProperties
  <2> QED BY <2>2
<1>6. k \in Kinds BY DEF Kinds
<1>7. Fits(c, k, e, sock) /\ e \in Entry
  <2> HIDE DEF k
  <2> QED BY <1>1, <1>6, RightParts
<1>8. /\ old \in Entry /\ old.on
      /\ old = e \/ (old.fd = 0 /\ old.flags = {} /\ e.fd = 0)
  <2>1. DccRight BY DEF DccInv
  <2> HIDE DEF k, o
  <2> QED BY <1>5, <1>6, <2>1, SearchIs
<1> HIDE DEF o2
<1>9. CASE "WAIT" \in old.flags
  <2> DEFINE x0 == [Nobody EXCEPT !.on = TRUE]
             x == [x0 EXCEPT !.flags = @ \cup {"OFFER"}, !.port = o.port]
             l1 == Placed(list, c, k, x0)
             s1 == Close(sock, c, e.fd)
  <2>1. old = e BY <1>8, <1>9, SMTT(30)
  <2>2. k = "chat" BY <1>7, <1>9, <2>1 DEF Fits
  <2>3. Dial(c, k, x, s1) \/ DccErase(c, k, x, s1)
    BY <1>9, <2>1 DEF RegisterDccOffer, Withdrawn
  <2>4. x0 \in Entry /\ x0.fd = 0 /\ x0.on /\ x0.flags = {} BY DEF Nobody, Entry, Flags
  <2>5. /\ x \in Entry /\ x.fd = 0 /\ x.on /\ x.flags = {"OFFER"} /\ x.port = o.port
    <3> HIDE DEF x0, o
    <3> QED BY <1>5, <2>4 DEF Entry, Flags
  <2> HIDE DEF x0, x, k
  <2>6. Left(k, e, x0) BY <2>4 DEF Left, Offered
  <2>7. Right(l1, s1, offers, disk, size) BY <1>1, <1>6, <2>4, <2>6, CloseOne
  <2>8. l1[c][k] = x0
    <3>1. list \in [Clients -> [Kinds -> Entry]] /\ c \in Clients /\ k \in Kinds /\ x0 \in Entry
      BY <1>2, <1>6, <2>4
    <3>2. IsPut(list, c, k, x0, Placed(list, c, k, x0)) BY ONLY <3>1, PutIs
    <3> QED BY <3>2 DEF IsPut
  <2>9. Placed(l1, c, k, x) = Placed(list, c, k, x) BY <1>2, <1>6, PutTwice
  <2> HIDE DEF l1, s1, e, old
  <2>10. Right(Placed(l1, c, k, x), s1, o2, disk, size)
    <3>1. /\ l1[c][k].fd = 0 /\ x.fd = 0 /\ x.on /\ x.port = Head(offers[c]).port
          /\ "ACTIVE" \notin x.flags /\ "WAIT" \notin x.flags
      BY <2>4, <2>5, <2>8 DEF o
    <3>2. k = IF Head(offers[c]).kind = "chat" THEN "chat" ELSE "get" BY DEF k, o
    <3>3. IsAnOffer(l1, offers, c, k, x) BY <3>1, <3>2 DEF IsAnOffer
    <3>4. IsRead(offers, c, o2) BY <1>3, <1>4 DEF IsRead
    <3>5. c \in Clients /\ k \in Kinds /\ x \in Entry BY <1>6, <2>5
    <3> QED BY ONLY <2>7, <3>3, <3>4, <3>5, OfferTaken
  <2>11. Right(Placed(list, c, k, x), s1, o2, disk, size) BY <2>9, <2>10
  <2>12. ~Busy(x) /\ "OFFER" \in x.flags BY <2>5 DEF Busy
  <2>13. Right(list', sock', o2, disk, size)
    <3>1. CASE Dial(c, k, x, s1) BY <1>2, <1>6, <2>2, <2>5, <2>11, <2>12, <3>1, DialRight
    <3>2. CASE DccErase(c, k, x, s1) BY <1>2, <1>6, <2>5, <2>11, <3>2, EraseRight
    <3> QED BY <2>3, <3>1, <3>2
  <2> QED BY <1>3, <2>13 DEF DccRight, o2
<1>10. CASE "WAIT" \notin old.flags
  <2> DEFINE offered == [old EXCEPT !.flags = @ \cup {"OFFER"}, !.port = o.port]
             x == IF "ACTIVE" \in old.flags THEN e ELSE offered
  <2>1. sock' = sock /\ list' = IF "ACTIVE" \in old.flags THEN list ELSE Placed(list, c, k, offered)
    BY <1>10 DEF RegisterDccOffer, Set, Placed
  <2>2. list' = Placed(list, c, k, x)
    <3>1. Placed(list, c, k, e) = list
      <4> HIDE DEF k
      <4> QED BY <1>2, <1>6, PutSame
    <3> QED BY <2>1, <3>1
  <2>3. /\ offered \in Entry /\ offered.fd = old.fd /\ offered.on /\ offered.port = o.port
        /\ offered.flags = old.flags \cup {"OFFER"}
    <3> HIDE DEF old, o
    <3> QED BY <1>5, <1>8 DEF Entry, Flags
  <2> HIDE DEF offered
  <2>4. /\ x \in Entry
        /\ \/ x = e
           \/ /\ e.fd = 0 /\ x.fd = 0 /\ x.on /\ x.port = o.port
              /\ "ACTIVE" \notin x.flags /\ "WAIT" \notin x.flags
    <3> HIDE DEF e, old, o, k
    <3>1. CASE "ACTIVE" \in old.flags BY <1>7, <3>1
    <3>2. CASE "ACTIVE" \notin old.flags
      <4>1. e.fd = 0 /\ old.fd = 0 BY <1>7, <1>8, <1>10, <3>2 DEF Fits, Owns, Uses
      <4> QED BY <1>10, <2>3, <3>2, <4>1
    <3> QED BY <3>1, <3>2
  <2> HIDE DEF x, old
  <2>5. Right(Placed(list, c, k, x), sock, o2, disk, size)
    <3>1. k = IF Head(offers[c]).kind = "chat" THEN "chat" ELSE "get" OBVIOUS
    <3> HIDE DEF k
    <3>2. IsAnOffer(list, offers, c, k, x) BY <2>4, <3>1 DEF IsAnOffer, o, e
    <3>3. IsRead(offers, c, o2) BY <1>3, <1>4 DEF IsRead
    <3>4. c \in Clients /\ k \in Kinds /\ x \in Entry BY <1>6, <2>4
    <3> QED BY ONLY <1>1, <3>2, <3>3, <3>4, OfferTaken
  <2>6. Right(list', sock', o2, disk, size) BY <2>1, <2>2, <2>5
  <2> QED BY <1>3, <2>6 DEF DccRight, o2
<1> QED BY <1>9, <1>10

\* The kernel
LEMMA NetworkRight ==
    ASSUME DccRight, NEW p \in Used, NetConnect(p) \/ NetReset(p)
    PROVE  DccRight'
<1> DEFINE t == sock[p]
<1>1. Right(list, sock, offers, disk, size) /\ p \in DOMAIN sock BY DEF DccRight, Used
<1>2. CASE NetConnect(p)
  <2> DEFINE u == IF t.listens THEN [t EXCEPT !.link = "up"] ELSE Dead(t)
  <2>1. t.link = "syn" /\ sock' = [sock EXCEPT ![p] = u] /\ UNCHANGED <<list, offers, disk, size>>
    BY <1>2 DEF NetConnect
  <2>2. Right(list, [sock EXCEPT ![p] = u], offers, disk, size) BY <1>1, <2>1, NetRight
  <2> QED BY <2>1, <2>2 DEF DccRight
<1>3. CASE NetReset(p)
  <2> DEFINE u == Dead(t)
  <2>1. t.link = "up" /\ ~t.listens /\ sock' = [sock EXCEPT ![p] = u] /\ UNCHANGED <<list, offers, disk, size>>
    BY <1>3 DEF NetReset
  <2>2. Right(list, [sock EXCEPT ![p] = u], offers, disk, size) BY <1>1, <2>1, NetRight
  <2> QED BY <2>1, <2>2 DEF DccRight
<1> QED BY <1>2, <1>3

-----------------------------------------------------------------------------
(* The invariant                                                            *)

\* Nothing is open, offered or written at first.
LEMMA DccStarts ==
    ASSUME DccInit
    PROVE  DccInv
<1>1. /\ list \in [Clients -> [Kinds -> Entry]]
      /\ \A c \in Clients, k \in Kinds : list[c][k] = Nobody
  BY NobodyIs DEF DccInit, NobodyIsEntry
<1>2. sock \in [1 .. 0 -> Socket] /\ DOMAIN sock = {}
  <2>1. <<>> \in Seq(Socket) /\ Len(<<>>) = 0 BY EmptySeq
  <2>2. <<>> \in [1 .. Len(<<>>) -> Socket] BY <2>1, LenProperties
  <2>3. sock = <<>> BY DEF DccInit
  <2>4. 1 .. 0 = {} OBVIOUS
  <2> QED BY <2>1, <2>2, <2>3, <2>4
<1>3. /\ offers \in [Clients -> Seq([kind: Kinds, port: Nat, size: Nat])] /\ disk \in [Clients -> Seq(Nat)]
      /\ \A c \in Clients : offers[c] = <<>>
  <2>1. <<>> \in Seq([kind: Kinds, port: Nat, size: Nat]) /\ <<>> \in Seq(Nat) BY EmptySeq
  <2> QED BY <2>1 DEF DccInit
<1>4. Types(list, sock, offers, disk) BY <1>1, <1>2, <1>3 DEF Types
<1>5. size \in Nat /\ filesize \in [Clients -> Nat] BY SizesAssumption DEF DccInit
<1>6. Nobody.fd = 0 /\ Nobody.flags = {} BY DEF Nobody
<1>7. \A c \in Clients, k \in Kinds : Fits(c, k, list[c][k], sock)
  <2>1. \A c \in Clients, k \in Kinds : list[c][k].fd = 0 /\ list[c][k].flags = {} BY <1>1, <1>6
  <2> QED BY <2>1 DEF Fits
<1>8. ASSUME NEW c \in Clients PROVE Queued(c, sock, offers) /\ Once(c, list, sock, offers) /\ Data(c, list, sock, disk, size)
  <2>1. DOMAIN offers[c] = {}
    <3>1. DOMAIN <<>> = {} BY EmptySeq
    <3> QED BY <1>3, <3>1
  <2>2. list[c]["send"].fd = 0 BY <1>1, <1>6 DEF Kinds
  <2> QED BY <2>1, <2>2 DEF Queued, Once, Data
<1> QED BY <1>2, <1>4, <1>5, <1>7, <1>8 DEF DccInv, DccRight, Right

\* Every step keeps the invariant.
LEMMA DccSteps ==
    ASSUME DccInv, ~SendsAgain, "accept" \notin Failures, [DccNext]_dccVars
    PROVE  DccInv'
<1>1. DccRight /\ size \in Nat /\ filesize \in [Clients -> Nat] BY DEF DccInv, DccRight, Right
<1>2. CASE Network
  <2>1. PICK p \in Used : NetConnect(p) \/ NetReset(p) BY <1>2 DEF Network
  <2>2. UNCHANGED filesize BY <2>1 DEF NetConnect, NetReset
  <2>3. DccRight' BY <1>1, <2>1, NetworkRight
  <2> QED BY <1>1, <2>2, <2>3 DEF DccInv
<1>3. ASSUME NEW c \in Clients, DccUser(c) PROVE DccInv'
  <2>1. filesize' \in [Clients -> Nat]
    BY <1>1, <1>3 DEF DccUser, DccChat, DccFilesend, DccFilesendFails, DccGetfile, DccClose
  <2>2. DccRight' BY <1>3, UserRight
  <2> QED BY <2>1, <2>2 DEF DccInv
<1>4. ASSUME NEW c \in Clients, RegisterDccOffer(c) PROVE DccInv'
  <2>1. filesize' \in [Clients -> Nat]
    <3>1. filesize' = [filesize EXCEPT ![c] = 0] BY <1>4 DEF RegisterDccOffer
    <3> QED BY <1>1, <3>1
  <2>2. DccRight' BY <1>4, RegisterRight
  <2> QED BY <2>1, <2>2 DEF DccInv
<1>5. ASSUME NEW c \in Clients, NEW k \in Kinds, DccCheck(c, k) PROVE DccInv'
  <2>1. UNCHANGED filesize BY <1>5 DEF DccCheck
  <2>2. DccRight' BY <1>1, <1>5, CheckRight
  <2> QED BY <1>1, <2>1, <2>2 DEF DccInv
<1>6. CASE UNCHANGED dccVars
  <2>1. UNCHANGED <<list, filesize, offers, sock, disk, size>> BY <1>6 DEF dccVars
  <2> QED BY <1>1, <2>1 DEF DccInv, DccRight
<1> QED BY <1>2, <1>3, <1>4, <1>5, <1>6 DEF DccNext

-----------------------------------------------------------------------------
(* What it means for a transfer                                             *)

\* The last acknowledgement finds the whole file written.
LEMMA RightIsWhole ==
    ASSUME DccRight, NEW c \in Clients, Completes(c)
    PROVE  disk[Peer(c)] = [i \in 1 .. size |-> i]
<1> DEFINE e == list[c]["send"]
           p == e.fd
           f == disk[Peer(c)]
<1>1. Right(list, sock, offers, disk, size) /\ "send" \in Kinds /\ Peer(c) \in Clients
  BY TwoClients DEF DccRight, Kinds
<1>2. Types(list, sock, offers, disk) /\ e \in Entry /\ Fits(c, "send", e, sock) /\ Data(c, list, sock, disk, size)
  BY <1>1, RightParts
<1>3. /\ "ACTIVE" \in e.flags /\ p # 0 /\ sock[p].toNear # <<>>
      /\ Head(sock[p].toNear) = e.count /\ e.pos = size
  BY DEF Completes, Acknowledged
<1>4. "WAIT" \notin e.flags BY <1>2, <1>3 DEF Fits, Owns, Uses
<1>5. e.pos = e.count BY <1>2, <1>3, <1>4 DEF Data, Sent
<1>6. Len(f) = e.count /\ Written(sock[p], e, list[Peer(c)]["get"], f)
  BY <1>1, <1>3, <1>4, AcknowledgedIsWritten
<1>7. f \in Seq(Nat) BY <1>1, <1>2 DEF Types
<1> HIDE DEF e, f
<1>8. \A i \in 1 .. Len(f) : f[i] = i BY <1>6 DEF Written
<1>9. Len(f) = size BY <1>3, <1>5, <1>6
<1>10. f = [i \in 1 .. size |-> i] BY <1>7, <1>8, <1>9
<1> QED BY <1>10 DEF f

\* The invariant says what a transfer promises.
LEMMA RightIsInOrder == DccRight => TransfersInOrder
<1> SUFFICES ASSUME DccRight PROVE TransfersInOrder OBVIOUS
<1>1. Right(list, sock, offers, disk, size) BY DEF DccRight
<1>2. CompletedIsWhole BY RightIsWhole DEF CompletedIsWhole
<1>3. OneBlock
  <2>1. \A p \in DOMAIN sock : Stream(sock[p]) BY <1>1, RightParts
  <2> QED BY <2>1 DEF OneBlock, Stream, Used
<1>4. ASSUME NEW p \in Used
      PROVE  /\ sock[p].listens \/ sock[p].near => Owned(sock[p].owner, p)
             /\ sock[p].far => Owned(Peer(sock[p].owner), p)
  <2> DEFINE a == sock[p].owner
             k == sock[p].kind
  <2>1. HasEntry(p, sock[p], list) /\ sock[p] \in Socket /\ p # 0 BY <1>1, RightParts DEF Used
  <2>2. a \in Clients /\ k \in Kinds /\ Peer(a) \in Clients /\ Partner(k) \in Kinds
    BY <2>1, TwoClients, Partners DEF Socket
  <2>3. \A d \in Clients, m \in Kinds : list[d][m].fd # 0 => list[d][m].on
    <3>1. \A d \in Clients, m \in Kinds : Fits(d, m, list[d][m], sock) BY <1>1, RightParts
    <3> QED BY <3>1 DEF Fits
  <2> QED BY <2>1, <2>2, <2>3 DEF HasEntry, Owned
<1>5. NoStrayDescriptor BY <1>4 DEF NoStrayDescriptor
<1> QED BY <1>2, <1>3, <1>5 DEF TransfersInOrder

\* A transfer gives the peer the file and nothing else, block by block, and no descriptor is lost
\* (dcc.c), for files of every size, blocks and acknowledgements of every width and as many
\* listeners as the clients make.  A file must not be sent again while it is being sent, nor
\* accept() fail: of both the code makes what the runs show.
THEOREM TransfersAreInOrder ==
    ASSUME ~SendsAgain, "accept" \notin Failures
    PROVE  DccSpec => []TransfersInOrder
<1>1. DccInit => DccInv BY DccStarts
<1>2. DccInv /\ [DccNext]_dccVars => DccInv' BY DccSteps
<1>3. DccInv => TransfersInOrder BY RightIsInOrder DEF DccInv
<1> QED BY <1>1, <1>2, <1>3, PTL DEF DccSpec

============================================================================
