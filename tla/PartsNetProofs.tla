----------------------------- MODULE PartsNetProofs -----------------------------
(***************************************************************************)
(* What the parts of MCPartsNet do for every value of their constants.     *)
(*                                                                         *)
(* Ignores, for any kinds of messages and any commands: who was last said  *)
(* to be ignored is, what is saved is the list, and whoever is ignored by  *)
(* their user@host is looked up.                                           *)
(*                                                                         *)
(* Floods, for any lengths of the table and of the memory for replies, any *)
(* rates and sizes: each slot of the table counts no more than came since  *)
(* it was taken, and the ring of the limit holds the bytes of each of the  *)
(* last seconds, so that its sum is what came in the window.  The sums are *)
(* functions defined by recursion: what is said of them is shown of the    *)
(* least number for which it would be wrong.                               *)
(*                                                                         *)
(* Login, for any servers, nicknames and commands of the careful user:     *)
(* what the client holds of itself on a server follows from what the       *)
(* server holds and the lines on their way between them, in the order in   *)
(* which they will be read, so that both agree once they have been.        *)
(***************************************************************************)
EXTENDS Floods, Ignores, Login, FiniteSetTheorems, SequenceTheorems, WellFoundedInduction, TLAPS

-----------------------------------------------------------------------------
(* Ignores.                                                                *)

\* What an entry says is what was said last of its pattern.
Agrees(entry, said) ==
    \A l \in IgnoreLevels : /\ l \in entry.type <=> said[l] = "IGNORED"
                            /\ l \in entry.dont <=> said[l] = "DONT_IGNORE"
                            /\ l \in entry.high <=> said[l] = "HIGHLIGHTED"

\* How much of a count an entry needs.
Needs(entry, l) == IF l \in entry.type THEN 1 ELSE 0

\* The list agrees with what was said, and each count is as high as the entries need: it may be
\* higher, as ignore_nickname() counts more than remove_ignore() takes off.
Kept(list, s, said) ==
    /\ list \in [Patterns -> IgnoreEntry]
    /\ s \in [IgnoreLevels -> Nat]
    /\ said \in [Patterns -> [IgnoreLevels -> IgnoreFlags]]
    /\ \A p \in Patterns : Agrees(list[p], said[p])
    /\ \A l \in IgnoreLevels : Needs(list["host"], l) + Needs(list["@"], l) <= s[l]

IgnoresInv ==
    /\ Kept(ignored, sums, lastSaid)
    /\ sums \in [IgnoreLevels -> 0 .. MaxSums]
    /\ lookUp = MaskOf(sums)
    /\ ignoreEnv \subseteq Patterns

\* What was said, with something more.
SaidOf(said, patterns, levels, flag) ==
    [p \in Patterns |-> [l \in IgnoreLevels |->
        IF p \in patterns /\ l \in levels THEN flag ELSE said[p][l]]]

-----------------------------------------------------------------------------
(* One entry.                                                              *)

\* The parts of an entry.
LEMMA EntryParts ==
    ASSUME NEW e \in IgnoreEntry
    PROVE  e.type \subseteq IgnoreLevels /\ e.dont \subseteq IgnoreLevels /\ e.high \subseteq IgnoreLevels
BY DEF IgnoreEntry

\* An entry is known by its parts.
LEMMA EntryIsItsParts ==
    ASSUME NEW e \in IgnoreEntry, NEW f \in IgnoreEntry, e.type = f.type, e.dont = f.dont, e.high = f.high
    PROVE  e = f
BY DEF IgnoreEntry

\* What an entry of nothing has.
LEMMA NoIgnoreParts ==
    /\ NoIgnore \in IgnoreEntry
    /\ NoIgnore.type = {} /\ NoIgnore.dont = {} /\ NoIgnore.high = {}
BY DEF NoIgnore, IgnoreEntry

\* What ignore_nickname() marks an entry with.
LEMMA MarkedParts ==
    ASSUME NEW e \in IgnoreEntry, NEW levels \in SUBSET IgnoreLevels, NEW flag \in IgnoreFlags
    PROVE  /\ Marked(e, levels, flag) \in IgnoreEntry
           /\ \A l : IF l \in levels
                    THEN /\ l \in Marked(e, levels, flag).type <=> flag = "IGNORED"
                         /\ l \in Marked(e, levels, flag).dont <=> flag = "DONT_IGNORE"
                         /\ l \in Marked(e, levels, flag).high <=> flag = "HIGHLIGHTED"
                    ELSE /\ l \in Marked(e, levels, flag).type <=> l \in e.type
                         /\ l \in Marked(e, levels, flag).dont <=> l \in e.dont
                         /\ l \in Marked(e, levels, flag).high <=> l \in e.high
<1> DEFINE set(is, with) == IF flag = with THEN is \cup levels ELSE is \ levels
           type == set(e.type, "IGNORED")
           dont == set(e.dont, "DONT_IGNORE")
           high == set(e.high, "HIGHLIGHTED")
<1>1. e.type \subseteq IgnoreLevels /\ e.dont \subseteq IgnoreLevels /\ e.high \subseteq IgnoreLevels
    BY EntryParts
<1>2. Marked(e, levels, flag) = [type |-> type, dont |-> dont, high |-> high]
    BY DEF Marked
<1>3. type \subseteq IgnoreLevels /\ dont \subseteq IgnoreLevels /\ high \subseteq IgnoreLevels
    BY <1>1
<1>4. \A l : IF l \in levels
            THEN /\ l \in type <=> flag = "IGNORED"
                 /\ l \in dont <=> flag = "DONT_IGNORE"
                 /\ l \in high <=> flag = "HIGHLIGHTED"
            ELSE /\ l \in type <=> l \in e.type
                 /\ l \in dont <=> l \in e.dont
                 /\ l \in high <=> l \in e.high
    OBVIOUS
<1> HIDE DEF type, dont, high
<1>5. /\ Marked(e, levels, flag).type = type /\ Marked(e, levels, flag).dont = dont
      /\ Marked(e, levels, flag).high = high
    BY <1>2
<1>6. QED BY <1>2, <1>3, <1>4, <1>5 DEF IgnoreEntry

\* A marked entry agrees with what was said now.
LEMMA MarkedAgrees ==
    ASSUME NEW e \in IgnoreEntry, NEW said \in [IgnoreLevels -> IgnoreFlags], Agrees(e, said),
           NEW levels \in SUBSET IgnoreLevels, NEW flag \in IgnoreFlags,
           NEW said2 \in [IgnoreLevels -> IgnoreFlags],
           \A l \in IgnoreLevels : said2[l] = IF l \in levels THEN flag ELSE said[l]
    PROVE  Agrees(Marked(e, levels, flag), said2)
<1> DEFINE m == Marked(e, levels, flag)
<1>1. \A l : IF l \in levels
            THEN /\ l \in m.type <=> flag = "IGNORED"
                 /\ l \in m.dont <=> flag = "DONT_IGNORE"
                 /\ l \in m.high <=> flag = "HIGHLIGHTED"
            ELSE /\ l \in m.type <=> l \in e.type
                 /\ l \in m.dont <=> l \in e.dont
                 /\ l \in m.high <=> l \in e.high
    BY MarkedParts
<1> HIDE DEF m
<1>2. Agrees(m, said2)
    <2> SUFFICES ASSUME NEW l \in IgnoreLevels
                 PROVE  /\ l \in m.type <=> said2[l] = "IGNORED"
                        /\ l \in m.dont <=> said2[l] = "DONT_IGNORE"
                        /\ l \in m.high <=> said2[l] = "HIGHLIGHTED"
        BY DEF Agrees
    <2>1. CASE l \in levels
        BY <2>1, <1>1 DEF IgnoreFlags
    <2>2. CASE l \notin levels
        BY <2>2, <1>1 DEF Agrees
    <2>3. QED BY <2>1, <2>2
<1>3. QED BY <1>2 DEF m

\* An entry that agrees is none when all that was said was taken back.
LEMMA NoneIsTakenBack ==
    ASSUME NEW e \in IgnoreEntry, NEW said \in [IgnoreLevels -> IgnoreFlags], Agrees(e, said)
    PROVE  e = NoIgnore <=> \A l \in IgnoreLevels : said[l] = "REMOVE"
<1>1. ASSUME e = NoIgnore PROVE \A l \in IgnoreLevels : said[l] = "REMOVE"
    BY <1>1, NoIgnoreParts DEF Agrees, IgnoreFlags
<1>2. ASSUME \A l \in IgnoreLevels : said[l] = "REMOVE" PROVE e = NoIgnore
    <2>1. e.type = {} /\ e.dont = {} /\ e.high = {}
        BY <1>2, EntryParts DEF Agrees
    <2>2. QED BY <2>1, NoIgnoreParts, EntryIsItsParts
<1>3. QED BY <1>1, <1>2

-----------------------------------------------------------------------------
(* The list.                                                               *)

\* ignore_nickname() for one pattern.
LEMMA NicknameKeeps ==
    ASSUME NEW list, NEW s, NEW said, Kept(list, s, said),
           NEW pattern \in Patterns, NEW levels \in SUBSET IgnoreLevels, NEW flag \in IgnoreFlags
    PROVE  LET state == IgnoreNickname([list |-> list, sums |-> s], pattern, levels, flag)
           IN  /\ state = [list |-> state.list, sums |-> state.sums]
               /\ Kept(state.list, state.sums, SaidOf(said, {pattern}, levels, flag))
<1> DEFINE e == list[pattern]
           m == Marked(e, levels, flag)
           counted == IF pattern \in WithAt THEN MaskAdd(s, levels) ELSE s
           goes == m = NoIgnore \/ (levels = IgnoreLevels /\ flag = "REMOVE")
           said2 == SaidOf(said, {pattern}, levels, flag)
           state == IgnoreNickname([list |-> list, sums |-> s], pattern, levels, flag)
<1>1. /\ e \in IgnoreEntry /\ said[pattern] \in [IgnoreLevels -> IgnoreFlags]
      /\ Agrees(e, said[pattern])
    BY DEF Kept
<1>2. /\ said2 \in [Patterns -> [IgnoreLevels -> IgnoreFlags]]
      /\ \A l \in IgnoreLevels : said2[pattern][l] = IF l \in levels THEN flag ELSE said[pattern][l]
      /\ \A p \in Patterns \ {pattern} : said2[p] = said[p]
    <2>1. \A p \in Patterns, l \in IgnoreLevels : said[p][l] \in IgnoreFlags
        BY DEF Kept
    <2>2. said2 \in [Patterns -> [IgnoreLevels -> IgnoreFlags]]
        BY <2>1 DEF SaidOf
    <2>3. \A p \in Patterns \ {pattern} : said2[p] = said[p]
        <3> SUFFICES ASSUME NEW p \in Patterns \ {pattern} PROVE said2[p] = said[p]
            OBVIOUS
        <3>1. said2[p] \in [IgnoreLevels -> IgnoreFlags] /\ said[p] \in [IgnoreLevels -> IgnoreFlags]
            BY <2>2 DEF Kept
        <3>2. \A l \in IgnoreLevels : said2[p][l] = said[p][l]
            BY DEF SaidOf
        <3> HIDE DEF said2
        <3>3. QED BY <3>1, <3>2
    <2>4. QED BY <2>2, <2>3 DEF SaidOf
<1>3. m \in IgnoreEntry /\ Agrees(m, said2[pattern])
    <2>1. said2[pattern] \in [IgnoreLevels -> IgnoreFlags]
        BY <1>2
    <2>2. /\ e \in IgnoreEntry /\ levels \in SUBSET IgnoreLevels /\ flag \in IgnoreFlags
          /\ \A l \in IgnoreLevels : said2[pattern][l] = IF l \in levels THEN flag ELSE said[pattern][l]
        BY <1>1, <1>2
    <2> HIDE DEF said2, e
    <2>3. m \in IgnoreEntry
        BY <2>2, MarkedParts
    <2>4. Agrees(m, said2[pattern])
        BY <1>1, <2>1, <2>2, MarkedAgrees
    <2>5. QED BY <2>3, <2>4
<1>4. counted \in [IgnoreLevels -> Nat] /\ \A l \in IgnoreLevels :
          counted[l] = IF pattern \in WithAt /\ l \in levels THEN s[l] + 1 ELSE s[l]
    BY DEF MaskAdd, Kept
<1>5. levels = IgnoreLevels /\ flag = "REMOVE" => m = NoIgnore
    <2> HIDE DEF e
    <2>1. levels = IgnoreLevels /\ flag = "REMOVE" => m.type = {} /\ m.dont = {} /\ m.high = {}
        <3>1. m.type \subseteq IgnoreLevels /\ m.dont \subseteq IgnoreLevels /\ m.high \subseteq IgnoreLevels
            BY <1>3, EntryParts
        <3>2. levels = IgnoreLevels /\ flag = "REMOVE" =>
                 \A l \in IgnoreLevels : l \notin m.type /\ l \notin m.dont /\ l \notin m.high
            BY <1>1, MarkedParts
        <3> HIDE DEF m
        <3>3. QED BY <3>1, <3>2
    <2> HIDE DEF m
    <2>2. QED BY <2>1, <1>3, NoIgnoreParts, EntryIsItsParts
<1> HIDE DEF m, counted, said2
<1>6. CASE e = NoIgnore /\ flag = "REMOVE"
    <2>1. state = [list |-> list, sums |-> counted]
        BY <1>6 DEF IgnoreNickname, counted
    <2>2. Agrees(e, said2[pattern])
        BY <1>1, <1>2, <1>6, NoIgnoreParts DEF Agrees, IgnoreFlags
    <2>3. \A p \in Patterns : Agrees(list[p], said2[p])
        BY <2>2, <1>2 DEF Kept
    <2>4. \A l \in IgnoreLevels : s[l] <= counted[l] /\ s[l] \in Nat /\ counted[l] \in Nat
        BY <1>4 DEF Kept
    <2>5. Kept(list, counted, said2)
        BY <1>2, <1>4, <2>3, <2>4 DEF Kept, Needs
    <2>6. QED BY <2>1, <2>5 DEF said2
<1>7. CASE ~(e = NoIgnore /\ flag = "REMOVE")
    <2> DEFINE sub == IF goes /\ pattern \in WithAt THEN MaskSub(counted, m.type) ELSE counted
               list2 == [list EXCEPT ![pattern] = IF goes THEN NoIgnore ELSE m]
    <2>1. state = [list |-> list2, sums |-> sub]
        BY <1>7 DEF IgnoreNickname, counted, m
    <2>2. goes => m.type = {}
        BY <1>5, NoIgnoreParts
    <2>3. sub = counted
        <3>1. \A l \in IgnoreLevels : MaskSub(counted, {})[l] = counted[l]
            BY DEF MaskSub
        <3>2. MaskSub(counted, {}) = counted
            BY <1>4 DEF MaskSub
        <3>3. QED BY <3>2, <2>2
    <2>4. list2 = [list EXCEPT ![pattern] = m]
        BY <1>5
    <2>5. /\ list2 \in [Patterns -> IgnoreEntry] /\ list2[pattern] = m
          /\ \A p \in Patterns \ {pattern} : list2[p] = list[p]
        BY <2>4, <1>3 DEF Kept
    <2> HIDE DEF list2, sub
    <2>6. \A p \in Patterns : Agrees(list2[p], said2[p])
        BY <2>5, <1>2, <1>3 DEF Kept
    <2>7. \A l \in IgnoreLevels : Needs(list2["host"], l) + Needs(list2["@"], l) <= counted[l]
        <3> SUFFICES ASSUME NEW l \in IgnoreLevels
                     PROVE  Needs(list2["host"], l) + Needs(list2["@"], l) <= counted[l]
            OBVIOUS
        <3>1. /\ Needs(list["host"], l) + Needs(list["@"], l) <= s[l] /\ s[l] \in Nat
              /\ Needs(list["host"], l) \in 0 .. 1 /\ Needs(list["@"], l) \in 0 .. 1
            BY DEF Kept, Needs
        <3>2. l \notin levels => Needs(m, l) <= Needs(e, l)
            <4> HIDE DEF e
            <4>1. l \notin levels => (l \in m.type <=> l \in e.type)
                BY <1>1, MarkedParts DEF m
            <4>2. QED BY <4>1 DEF Needs
        <3>3. Needs(m, l) \in 0 .. 1
            BY DEF Needs
        <3>4. CASE pattern = "host"
            BY <3>1, <3>2, <3>3, <3>4, <2>5, <1>4 DEF WithAt, Patterns
        <3>5. CASE pattern = "@"
            BY <3>1, <3>2, <3>3, <3>5, <2>5, <1>4 DEF WithAt, Patterns
        <3>6. CASE pattern \notin {"host", "@"}
            BY <3>1, <3>6, <2>5, <1>4 DEF WithAt, Patterns
        <3>7. QED BY <3>4, <3>5, <3>6
    <2>8. Kept(list2, counted, said2)
        BY <2>5, <2>6, <2>7, <1>2, <1>4 DEF Kept
    <2>9. QED BY <2>1, <2>3, <2>8 DEF said2
<1>8. QED BY <1>6, <1>7

\* What one command leaves.
LEMMA BecomesInv ==
    ASSUME NEW list, NEW s, NEW said, Kept(list, s, said),
           Becomes([list |-> list, sums |-> s]), lastSaid' = said,
           ignoreEnv' \subseteq Patterns
    PROVE  IgnoresInv'
<1>1. ignored' = list /\ sums' = s /\ lookUp' = MaskOf(s) /\ \A l \in IgnoreLevels : s[l] <= MaxSums
    BY DEF Becomes
<1>2. s \in [IgnoreLevels -> 0 .. MaxSums]
    BY <1>1, IgnoresAssumption DEF Kept
<1>3. QED BY <1>1, <1>2 DEF IgnoresInv, Kept, MaskOf

\* ignore_nickname() keeps the list, the counts and the mask in step.
LEMMA IgnoreInv ==
    ASSUME IgnoresInv, Ignore PROVE IgnoresInv'
<1>1. PICK p \in ignoreEnv, levels \in SUBSET IgnoreLevels, flag \in IgnoreFlags :
         /\ Becomes(IgnoreNickname(Present, p, levels, flag)) /\ Say({p}, levels, flag)
    BY DEF Ignore
<1>2. p \in Patterns
    BY DEF IgnoresInv
<1> DEFINE state == IgnoreNickname(Present, p, levels, flag)
           said == SaidOf(lastSaid, {p}, levels, flag)
<1>3. state = [list |-> state.list, sums |-> state.sums] /\ Kept(state.list, state.sums, said)
    BY <1>2, NicknameKeeps DEF Present, IgnoresInv
<1>4. lastSaid' = said
    BY <1>1 DEF Say, SaidOf
<1>5. Becomes([list |-> state.list, sums |-> state.sums])
    BY <1>1, <1>3
<1> HIDE DEF state, said
<1>6. ignoreEnv' \subseteq Patterns
    BY DEF Ignore, IgnoresInv
<1>7. QED BY <1>3, <1>4, <1>5, <1>6, BecomesInv

\* So does a command with several patterns.
LEMMA IgnoreSeveralInv ==
    ASSUME IgnoresInv, IgnoreSeveral PROVE IgnoresInv'
<1>1. PICK p \in ignoreEnv, q \in ignoreEnv, levels \in SUBSET IgnoreLevels, flag \in IgnoreFlags :
         LET first == IgnoreNickname(Present, p, levels, flag)
             returns == levels = IgnoreLevels /\ ~(flag = "REMOVE" /\ ignored[p] = NoIgnore)
         IN  /\ p # q
             /\ Becomes(IF returns THEN first ELSE IgnoreNickname(first, q, levels, flag))
             /\ Say(IF returns THEN {p} ELSE {p, q}, levels, flag)
    BY DEF IgnoreSeveral
<1>2. p \in Patterns /\ q \in Patterns
    BY DEF IgnoresInv
<1> DEFINE first == IgnoreNickname(Present, p, levels, flag)
           second == IgnoreNickname(first, q, levels, flag)
           returns == levels = IgnoreLevels /\ ~(flag = "REMOVE" /\ ignored[p] = NoIgnore)
           said1 == SaidOf(lastSaid, {p}, levels, flag)
           said2 == SaidOf(said1, {q}, levels, flag)
<1>3. first = [list |-> first.list, sums |-> first.sums] /\ Kept(first.list, first.sums, said1)
    BY <1>2, NicknameKeeps DEF Present, IgnoresInv
<1>4. /\ returns => Becomes(first) /\ Say({p}, levels, flag)
      /\ ~returns => Becomes(second) /\ Say({p, q}, levels, flag)
    BY <1>1
<1>5. ignoreEnv' \subseteq Patterns
    BY DEF IgnoreSeveral, IgnoresInv
<1> HIDE DEF first, returns
<1>6. second = [list |-> second.list, sums |-> second.sums] /\ Kept(second.list, second.sums, said2)
    <2> DEFINE l == first.list
               s == first.sums
    <2>1. first = [list |-> l, sums |-> s] /\ Kept(l, s, said1)
        BY <1>3
    <2>2. second = IgnoreNickname([list |-> l, sums |-> s], q, levels, flag)
        BY <2>1
    <2> HIDE DEF l, s, said1, second
    <2>3. LET state == IgnoreNickname([list |-> l, sums |-> s], q, levels, flag)
          IN  /\ state = [list |-> state.list, sums |-> state.sums]
              /\ Kept(state.list, state.sums, SaidOf(said1, {q}, levels, flag))
        BY <2>1, <1>2, NicknameKeeps
    <2>4. QED BY <2>2, <2>3
<1>7. CASE returns
    <2>1. lastSaid' = said1
        BY <1>4, <1>7 DEF Say, SaidOf
    <2>2. Becomes([list |-> first.list, sums |-> first.sums])
        BY <1>3, <1>4, <1>7
    <2> HIDE DEF said1
    <2>3. QED BY <2>1, <2>2, <1>3, <1>5, BecomesInv
<1>8. CASE ~returns
    <2>1. lastSaid' = said2
        <3>1. lastSaid' = SaidOf(lastSaid, {p, q}, levels, flag)
            BY <1>4, <1>8 DEF Say, SaidOf
        <3>2. \A x \in Patterns, l \in IgnoreLevels : said2[x][l] = SaidOf(lastSaid, {p, q}, levels, flag)[x][l]
            BY DEF SaidOf
        <3>3. said2 = SaidOf(lastSaid, {p, q}, levels, flag)
            BY <3>2 DEF SaidOf
        <3>4. QED BY <3>1, <3>3
    <2>2. Becomes([list |-> second.list, sums |-> second.sums])
        BY <1>4, <1>6, <1>8
    <2> HIDE DEF said2, second
    <2>3. QED BY <2>1, <2>2, <1>5, <1>6, BecomesInv
<1>9. QED BY <1>7, <1>8

\* And one that takes a pattern off.
LEMMA IgnoreNoneInv ==
    ASSUME IgnoresInv, IgnoreNone PROVE IgnoresInv'
<1>1. PICK p \in ignoreEnv :
         /\ Becomes([list |-> [ignored EXCEPT ![p] = NoIgnore],
                     sums |-> IF p \in WithAt THEN MaskSub(sums, ignored[p].type) ELSE sums])
         /\ Say({p}, IgnoreLevels, "REMOVE")
    BY DEF IgnoreNone
<1> DEFINE list == [ignored EXCEPT ![p] = NoIgnore]
           s == IF p \in WithAt THEN MaskSub(sums, ignored[p].type) ELSE sums
           said == SaidOf(lastSaid, {p}, IgnoreLevels, "REMOVE")
<1>2. p \in Patterns /\ ignoreEnv' \subseteq Patterns
    BY DEF IgnoresInv, IgnoreNone
<1>3. /\ list \in [Patterns -> IgnoreEntry] /\ list[p] = NoIgnore
      /\ \A x \in Patterns \ {p} : list[x] = ignored[x]
    BY <1>2, NoIgnoreParts DEF IgnoresInv, Kept
<1>4. \A l \in IgnoreLevels : s[l] = IF p \in WithAt /\ l \in ignored[p].type THEN sums[l] - 1 ELSE sums[l]
    BY DEF MaskSub
<1>5. \A l \in IgnoreLevels : /\ Needs(list["host"], l) + Needs(list["@"], l) <= s[l]
                              /\ s[l] \in Nat
    <2> SUFFICES ASSUME NEW l \in IgnoreLevels
                 PROVE  Needs(list["host"], l) + Needs(list["@"], l) <= s[l] /\ s[l] \in Nat
        OBVIOUS
    <2>1. /\ Needs(ignored["host"], l) + Needs(ignored["@"], l) <= sums[l] /\ sums[l] \in Nat
          /\ Needs(ignored["host"], l) \in 0 .. 1 /\ Needs(ignored["@"], l) \in 0 .. 1
        BY DEF IgnoresInv, Kept, Needs
    <2>2. Needs(NoIgnore, l) = 0 /\ (l \in ignored[p].type <=> Needs(ignored[p], l) = 1)
        BY NoIgnoreParts DEF Needs
    <2> HIDE DEF list, s
    <2>3. CASE p = "host"
        BY <2>1, <2>2, <2>3, <1>3, <1>4 DEF WithAt, Patterns
    <2>4. CASE p = "@"
        BY <2>1, <2>2, <2>4, <1>3, <1>4 DEF WithAt, Patterns
    <2>5. CASE p \notin {"host", "@"}
        BY <2>1, <2>5, <1>3, <1>4 DEF WithAt, Patterns
    <2>6. QED BY <2>3, <2>4, <2>5
<1>6. s \in [IgnoreLevels -> Nat]
    <2>1. DOMAIN s = IgnoreLevels /\ s = [l \in IgnoreLevels |-> s[l]]
        BY DEF MaskSub, IgnoresInv, Kept
    <2> HIDE DEF s
    <2>2. QED BY <2>1, <1>5
<1>7. /\ said \in [Patterns -> [IgnoreLevels -> IgnoreFlags]]
      /\ \A x \in Patterns, l \in IgnoreLevels :
            said[x][l] = IF x = p THEN "REMOVE" ELSE lastSaid[x][l]
    <2>1. \A x \in Patterns, l \in IgnoreLevels : lastSaid[x][l] \in IgnoreFlags
        BY DEF IgnoresInv, Kept
    <2>2. QED BY <2>1 DEF SaidOf, IgnoreFlags
<1>8. \A x \in Patterns : Agrees(list[x], said[x])
    <2> HIDE DEF list, said
    <2>1. Agrees(list[p], said[p])
        BY <1>2, <1>3, <1>7, NoIgnoreParts DEF Agrees
    <2>2. \A x \in Patterns \ {p} : Agrees(list[x], said[x])
        BY <1>3, <1>7 DEF IgnoresInv, Kept, Agrees
    <2>3. QED BY <2>1, <2>2
<1>9. lastSaid' = said
    BY <1>1 DEF Say, SaidOf
<1>10. Becomes([list |-> list, sums |-> s])
    BY <1>1
<1> HIDE DEF list, s, said
<1>11. Kept(list, s, said)
    BY <1>3, <1>5, <1>6, <1>7, <1>8 DEF Kept
<1>12. QED BY <1>2, <1>9, <1>10, <1>11, BecomesInv

\* The invariant holds in every state.
LEMMA IgnoresInvHolds == IgnoresSpec => []IgnoresInv
<1>1. IgnoresInit => IgnoresInv
    <2> SUFFICES ASSUME IgnoresInit PROVE IgnoresInv
        OBVIOUS
    <2>1. ignored \in [Patterns -> IgnoreEntry] /\ \A p \in Patterns : ignored[p] = NoIgnore
        BY NoIgnoreParts DEF IgnoresInit
    <2>2. /\ sums \in [IgnoreLevels -> 0 .. MaxSums] /\ \A l \in IgnoreLevels : sums[l] = 0
          /\ lookUp = MaskOf(sums)
        BY IgnoresAssumption DEF IgnoresInit, MaskOf
    <2>3. /\ lastSaid \in [Patterns -> [IgnoreLevels -> IgnoreFlags]]
          /\ \A p \in Patterns, l \in IgnoreLevels : lastSaid[p][l] = "REMOVE"
        BY DEF IgnoresInit, IgnoreFlags
    <2>4. \A p \in Patterns : Agrees(ignored[p], lastSaid[p])
        BY <2>1, <2>3, NoIgnoreParts DEF Agrees
    <2>5. \A l \in IgnoreLevels : Needs(ignored["host"], l) + Needs(ignored["@"], l) <= sums[l]
        BY <2>1, <2>2, NoIgnoreParts DEF Needs, Patterns
    <2>6. sums \in [IgnoreLevels -> Nat]
        BY <2>2
    <2>7. ignoreEnv \subseteq Patterns
        BY IgnoresAssumption DEF IgnoresInit
    <2>8. QED BY <2>1, <2>2, <2>3, <2>4, <2>5, <2>6, <2>7 DEF IgnoresInv, Kept
<1>2. IgnoresInv /\ [IgnoresNext]_ignoresVars => IgnoresInv'
    <2> SUFFICES ASSUME IgnoresInv, [IgnoresNext]_ignoresVars PROVE IgnoresInv'
        OBVIOUS
    <2>1. CASE Ignore
        BY <2>1, IgnoreInv
    <2>2. CASE IgnoreSeveral
        BY <2>2, IgnoreSeveralInv
    <2>3. CASE IgnoreNone
        BY <2>3, IgnoreNoneInv
    <2>4. CASE UNCHANGED ignoresVars
        BY <2>4 DEF ignoresVars, IgnoresInv, Kept, MaskOf
    <2>5. QED BY <2>1, <2>2, <2>3, <2>4 DEF IgnoresNext
<1>3. QED BY <1>1, <1>2, PTL DEF IgnoresSpec

-----------------------------------------------------------------------------
(* What is right of it.                                                    *)

\* Of some patterns one is the strongest.
LEMMA Strongest ==
    ASSUME NEW M \in SUBSET Patterns, M # {}
    PROVE  \E q \in M : \A r \in M : Strength(r) <= Strength(q)
<1>1. \A r \in Patterns : Strength(r) \in 1 .. 3 /\ (r \notin {"nick", "host"} => Strength(r) <= 2)
    BY DEF Strength
<1>2. Strength("nick") = 3 /\ Strength("host") = 3 /\ Strength("@") = 2 /\ Strength("*") = 1
    BY DEF Strength
<1>3. CASE \E q \in M : q \in {"nick", "host"}
    BY <1>1, <1>2, <1>3
<1>4. CASE ~(\E q \in M : q \in {"nick", "host"}) /\ "@" \in M
    BY <1>1, <1>2, <1>4
<1>5. CASE ~(\E q \in M : q \in {"nick", "host"}) /\ "@" \notin M
    <2>1. M = {"*"}
        BY <1>5 DEF Patterns
    <2>2. QED BY <2>1, <1>2
<1>6. QED BY <1>3, <1>4, <1>5

\* The strongest pattern of which anything holds says what was said last of it.
LEMMA StrongestSays ==
    ASSUME IgnoresInv PROVE LastSaidHolds
<1> SUFFICES ASSUME NEW name \in {"nick", "host"}, NEW level \in IgnoreLevels
             PROVE  LET holds == {p \in Patterns : (p = name \/ p = "*" \/ (p = "@" /\ name = "host"))
                                     /\ \E l \in IgnoreLevels : lastSaid[p][l] # "REMOVE"}
                        p == CHOOSE q \in holds : \A r \in holds : Strength(r) <= Strength(q)
                    IN  IsIgnored(name, level) =
                            IF holds = {} \/ lastSaid[p][level] = "REMOVE" THEN "no" ELSE lastSaid[p][level]
    BY DEF LastSaidHolds
<1> DEFINE holds == {p \in Patterns : (p = name \/ p = "*" \/ (p = "@" /\ name = "host"))
                        /\ \E l \in IgnoreLevels : lastSaid[p][l] # "REMOVE"}
           p == CHOOSE q \in holds : \A r \in holds : Strength(r) <= Strength(q)
<1>1. \A x \in Patterns : ignored[x] # NoIgnore <=> \E l \in IgnoreLevels : lastSaid[x][l] # "REMOVE"
    <2> SUFFICES ASSUME NEW x \in Patterns
                 PROVE  ignored[x] # NoIgnore <=> \E l \in IgnoreLevels : lastSaid[x][l] # "REMOVE"
        OBVIOUS
    <2>1. /\ ignored[x] \in IgnoreEntry /\ lastSaid[x] \in [IgnoreLevels -> IgnoreFlags]
          /\ Agrees(ignored[x], lastSaid[x])
        BY DEF IgnoresInv, Kept
    <2>2. QED BY <2>1, NoneIsTakenBack
<1>2. Matching(name) = holds
    BY <1>1 DEF Matching
<1>3. CASE holds = {}
    BY <1>2, <1>3 DEF IsIgnored
<1>4. CASE holds # {}
    <2>1. holds \in SUBSET Patterns
        OBVIOUS
    <2> HIDE DEF holds
    <2>2. p \in Patterns
        BY <2>1, <1>4, Strongest
    <2>3. IsIgnored(name, level) =
             IF level \in ignored[p].dont THEN "DONT_IGNORE"
             ELSE IF level \in ignored[p].type THEN "IGNORED"
             ELSE IF level \in ignored[p].high THEN "HIGHLIGHTED" ELSE "no"
        BY <1>2, <1>4 DEF IsIgnored
    <2> HIDE DEF p
    <2>4. /\ level \in ignored[p].type <=> lastSaid[p][level] = "IGNORED"
          /\ level \in ignored[p].dont <=> lastSaid[p][level] = "DONT_IGNORE"
          /\ level \in ignored[p].high <=> lastSaid[p][level] = "HIGHLIGHTED"
        BY <2>2 DEF IgnoresInv, Kept, Agrees
    <2>5. lastSaid[p][level] \in IgnoreFlags
        BY <2>2 DEF IgnoresInv, Kept
    <2>6. QED BY <2>3, <2>4, <2>5, <1>4 DEF IgnoreFlags, p, holds
<1>5. QED BY <1>3, <1>4

\* What SAVE writes of an entry reads back as it, when no kind of message is in two of its parts.
LEMMA SavedIsLoaded ==
    ASSUME NEW e \in IgnoreEntry,
           e.type \cap e.dont = {}, e.type \cap e.high = {}, e.dont \cap e.high = {}
    PROVE  Loaded(SavedWords(e)) = e
<1> DEFINE words == SavedWords(e)
           of(flag) == UNION {w[2] : w \in {v \in words : v[1] = flag}}
<1>1. e.type \subseteq IgnoreLevels /\ e.dont \subseteq IgnoreLevels /\ e.high \subseteq IgnoreLevels
    BY EntryParts
<1>2. Loaded(words) = [type |-> of("IGNORED"), dont |-> of("DONT_IGNORE"), high |-> of("HIGHLIGHTED")]
    BY DEF Loaded
<1> HIDE DEF words
<1>3. \A flag, l : l \in of(flag) <=> \E w \in words : w[1] = flag /\ l \in w[2]
    OBVIOUS
<1> HIDE DEF of
<1>4. of("IGNORED") = e.type /\ of("DONT_IGNORE") = e.dont /\ of("HIGHLIGHTED") = e.high
    <2>1. CASE e.type = IgnoreLevels
        <3>1. words = {<<"IGNORED", IgnoreLevels>>}
            BY <2>1 DEF words, SavedWords
        <3>2. /\ \A l : l \in of("IGNORED") <=> l \in IgnoreLevels
              /\ \A l : l \notin of("DONT_IGNORE") /\ l \notin of("HIGHLIGHTED")
            BY <3>1, <1>3
        <3>3. QED BY <3>2, <2>1, <1>1
    <2>2. CASE e.type # IgnoreLevels /\ e.high = IgnoreLevels
        <3>1. words = {<<"HIGHLIGHTED", IgnoreLevels>>}
            BY <2>2 DEF words, SavedWords
        <3>2. /\ \A l : l \in of("HIGHLIGHTED") <=> l \in IgnoreLevels
              /\ \A l : l \notin of("DONT_IGNORE") /\ l \notin of("IGNORED")
            BY <3>1, <1>3
        <3>3. QED BY <3>2, <2>2, <1>1
    <2>3. CASE e.type # IgnoreLevels /\ e.high # IgnoreLevels /\ e.dont = IgnoreLevels
        <3>1. words = {<<"DONT_IGNORE", IgnoreLevels>>}
            BY <2>3 DEF words, SavedWords
        <3>2. /\ \A l : l \in of("DONT_IGNORE") <=> l \in IgnoreLevels
              /\ \A l : l \notin of("HIGHLIGHTED") /\ l \notin of("IGNORED")
            BY <3>1, <1>3
        <3>3. QED BY <3>2, <2>3, <1>1
    <2>4. CASE e.type # IgnoreLevels /\ e.high # IgnoreLevels /\ e.dont # IgnoreLevels
        <3>1. words = {<<"IGNORED", {l}>> : l \in e.type}
                        \cup {<<"HIGHLIGHTED", {l}>> : l \in e.high \ e.type}
                        \cup {<<"DONT_IGNORE", {l}>> : l \in e.dont \ (e.type \cup e.high)}
            BY <2>4 DEF words, SavedWords
        <3>2. \A w : w \in words <=>
                 \/ \E l \in e.type : w = <<"IGNORED", {l}>>
                 \/ \E l \in e.high : w = <<"HIGHLIGHTED", {l}>>
                 \/ \E l \in e.dont : w = <<"DONT_IGNORE", {l}>>
            BY <3>1
        <3>3. ASSUME NEW l PROVE l \in of("IGNORED") <=> l \in e.type
            <4>1. l \in e.type => <<"IGNORED", {l}>> \in words
                BY <3>2
            <4>2. l \in e.type => l \in of("IGNORED")
                BY <4>1, <1>3
            <4>3. ASSUME l \in of("IGNORED") PROVE l \in e.type
                <5>1. PICK w \in words : w[1] = "IGNORED" /\ l \in w[2]
                    BY <4>3, <1>3
                <5>2. QED BY <5>1, <3>2
            <4>4. QED BY <4>2, <4>3
        <3>4. ASSUME NEW l PROVE l \in of("HIGHLIGHTED") <=> l \in e.high
            <4>1. l \in e.high => <<"HIGHLIGHTED", {l}>> \in words
                BY <3>2
            <4>2. l \in e.high => l \in of("HIGHLIGHTED")
                BY <4>1, <1>3
            <4>3. ASSUME l \in of("HIGHLIGHTED") PROVE l \in e.high
                <5>1. PICK w \in words : w[1] = "HIGHLIGHTED" /\ l \in w[2]
                    BY <4>3, <1>3
                <5>2. QED BY <5>1, <3>2
            <4>4. QED BY <4>2, <4>3
        <3>5. ASSUME NEW l PROVE l \in of("DONT_IGNORE") <=> l \in e.dont
            <4>1. l \in e.dont => <<"DONT_IGNORE", {l}>> \in words
                BY <3>2
            <4>2. l \in e.dont => l \in of("DONT_IGNORE")
                BY <4>1, <1>3
            <4>3. ASSUME l \in of("DONT_IGNORE") PROVE l \in e.dont
                <5>1. PICK w \in words : w[1] = "DONT_IGNORE" /\ l \in w[2]
                    BY <4>3, <1>3
                <5>2. QED BY <5>1, <3>2
            <4>4. QED BY <4>2, <4>3
        <3>6. QED BY <3>3, <3>4, <3>5
    <2>5. QED BY <2>1, <2>2, <2>3, <2>4
<1>5. Loaded(words) \in IgnoreEntry
    BY <1>1, <1>2, <1>4 DEF IgnoreEntry
<1>6. Loaded(words).type = e.type /\ Loaded(words).dont = e.dont /\ Loaded(words).high = e.high
    BY <1>2, <1>4
<1>7. Loaded(words) = e
    BY <1>5, <1>6, EntryIsItsParts
<1>8. QED BY <1>7 DEF words

\* What was said last holds, what is saved is the list, and whoever is ignored by their
\* user@host is looked up (ignore.c, ignore_nickname(), is_ignored(), ignore_usernames_mask()).
THEOREM IgnoresAreRight == IgnoresSpec => []IgnoresHold
<1>1. IgnoresInv => IgnoresHold
    <2> SUFFICES ASSUME IgnoresInv PROVE IgnoresHold
        OBVIOUS
    <2>1. SavedComesBack
        <3> SUFFICES ASSUME NEW p \in Patterns PROVE Loaded(SavedWords(ignored[p])) = ignored[p]
            BY DEF SavedComesBack
        <3>1. ignored[p] \in IgnoreEntry /\ Agrees(ignored[p], lastSaid[p])
            BY DEF IgnoresInv, Kept
        <3> DEFINE e == ignored[p]
        <3> HIDE DEF e
        <3>2. e.type \subseteq IgnoreLevels /\ e.dont \subseteq IgnoreLevels /\ e.high \subseteq IgnoreLevels
            BY <3>1, EntryParts DEF e
        <3>3. e.type \cap e.dont = {} /\ e.type \cap e.high = {} /\ e.dont \cap e.high = {}
            BY <3>1, <3>2 DEF Agrees, e
        <3>4. QED BY <3>1, <3>3, SavedIsLoaded DEF e
    <2>2. LookedUpIfNeeded
        <3> SUFFICES ASSUME NEW p \in WithAt, NEW l \in ignored[p].type PROVE l \in lookUp
            BY DEF LookedUpIfNeeded
        <3>1. l \in IgnoreLevels
            BY EntryParts DEF IgnoresInv, Kept, WithAt, Patterns
        <3>2. /\ Needs(ignored["host"], l) + Needs(ignored["@"], l) <= sums[l] /\ sums[l] \in Nat
              /\ Needs(ignored["host"], l) \in 0 .. 1 /\ Needs(ignored["@"], l) \in 0 .. 1
              /\ Needs(ignored[p], l) = 1
            BY <3>1 DEF IgnoresInv, Kept, Needs
        <3>3. sums[l] # 0
            BY <3>2 DEF WithAt
        <3>4. QED BY <3>1, <3>3 DEF IgnoresInv, MaskOf
    <2>3. QED BY <2>1, <2>2, StrongestSays DEF IgnoresHold, IgnoresAreKept
<1>2. QED BY <1>1, IgnoresInvHolds, PTL

-----------------------------------------------------------------------------
(* Floods: numbers.                                                        *)

Less == {p \in Nat \X Nat : p[1] < p[2]}

\* The library's theorem for the order of the numbers, as a set of pairs.
LEMMA LessIsWellFounded == IsWellFoundedOn(Less, Nat)
BY NatLessThanWellFounded DEF OpToRel, Less

\* A set of numbers has a least one: what stands for induction here.
LEMMA LeastOf ==
    ASSUME NEW T \in SUBSET Nat, T # {}
    PROVE  \E m \in T : \A k \in T : m <= k
<1>1. PICK m \in T : \A k \in T : ~(<<k, m>> \in Less)
  BY LessIsWellFounded, WFMin
<1>2. \A k \in T : ~(k < m)
  BY <1>1 DEF Less
<1>3. QED
  BY <1>2

-----------------------------------------------------------------------------
(* Sums.                                                                   *)

Totals(e, n, g) ==
    g = [i \in 0 .. n |-> IF i = 0 THEN 0 ELSE g[i - 1] + e[i]]

\* The sum of the first n of e.
Total(n, e) == (CHOOSE g : Totals(e, n, g))[n]

\* There are sums: the recursion defines a function.
LEMMA TotalExists ==
    ASSUME NEW n \in Nat, NEW e \in [1 .. n -> Nat]
    PROVE  \E g \in [0 .. n -> Nat] : Totals(e, n, g)
<1> DEFINE Good(m) == \E g \in [0 .. m -> Nat] : Totals(e, m, g)
           Bad == {m \in 0 .. n : ~Good(m)}
<1>1. ASSUME Bad # {} PROVE FALSE
  <2>1. PICK m \in Bad : \A k \in Bad : m <= k
    <3>1. Bad \in SUBSET Nat
      OBVIOUS
    <3> HIDE DEF Bad
    <3>2. QED
      BY <1>1, <3>1, LeastOf
  <2>2. m \in 0 .. n /\ ~Good(m)
    OBVIOUS
  <2>3. m # 0
    <3>1. Good(0)
      <4> DEFINE g == [i \in 0 .. 0 |-> 0]
      <4>1. g \in [0 .. 0 -> Nat]
        OBVIOUS
      <4>2. g = [i \in 0 .. 0 |-> IF i = 0 THEN 0 ELSE g[i - 1] + e[i]]
        OBVIOUS
      <4> HIDE DEF g
      <4>3. QED
        BY <4>1, <4>2 DEF Totals
    <3> HIDE DEF Good
    <3>2. QED
      BY <2>2, <3>1
  <2>4. m - 1 \in 0 .. n /\ m - 1 \notin Bad
    <3> HIDE DEF Bad
    <3>1. QED
      BY <2>1, <2>2, <2>3
  <2>5. PICK h \in [0 .. m - 1 -> Nat] : Totals(e, m - 1, h)
    BY <2>4
  <2> DEFINE g == [i \in 0 .. m |-> IF i = m THEN h[m - 1] + e[m] ELSE h[i]]
  <2>6. \A i \in 0 .. m - 1 : h[i] = IF i = 0 THEN 0 ELSE h[i - 1] + e[i]
    BY <2>5 DEF Totals
  <2> HIDE DEF Good, Bad
  <2>7. g \in [0 .. m -> Nat]
    BY <2>2, <2>3
  <2>8. ASSUME NEW i \in 0 .. m PROVE g[i] = IF i = 0 THEN 0 ELSE g[i - 1] + e[i]
    <3>1. CASE i = m
      <4>1. g[i] = h[m - 1] + e[m] /\ g[i - 1] = h[i - 1]
        BY <2>2, <2>3, <3>1
      <4>2. QED
        BY <2>3, <3>1, <4>1
    <3>2. CASE i # m /\ i # 0
      <4>1. i \in 0 .. m - 1 /\ g[i] = h[i] /\ g[i - 1] = h[i - 1]
        BY <2>2, <2>3, <3>2
      <4>2. QED
        BY <2>6, <3>2, <4>1
    <3>3. CASE i = 0
      <4>1. 0 \in 0 .. m - 1 /\ g[0] = h[0]
        BY <2>2, <2>3, <3>3
      <4>2. QED
        BY <2>6, <3>3, <4>1
    <3>4. QED
      BY <3>1, <3>2, <3>3
  <2>9. Totals(e, m, g)
    <3> HIDE DEF g
    <3>1. QED
      BY <2>7, <2>8 DEF Totals
  <2> HIDE DEF g
  <2>10. Good(m)
    BY <2>7, <2>9 DEF Good
  <2>11. QED
    BY <2>2, <2>10
<1>2. n \notin Bad /\ n \in 0 .. n
  <2> HIDE DEF Bad
  <2>1. QED
    BY <1>1
<1>3. QED
  BY <1>2

\* And no others.
LEMMA TotalIsOne ==
    ASSUME NEW n \in Nat, NEW e, NEW g, NEW h, Totals(e, n, g), Totals(e, n, h)
    PROVE  g = h
<1> DEFINE Bad == {m \in 0 .. n : g[m] # h[m]}
<1>1. /\ \A i \in 0 .. n : g[i] = IF i = 0 THEN 0 ELSE g[i - 1] + e[i]
      /\ \A i \in 0 .. n : h[i] = IF i = 0 THEN 0 ELSE h[i - 1] + e[i]
  BY DEF Totals
<1>2. ASSUME Bad # {} PROVE FALSE
  <2>1. PICK m \in Bad : \A k \in Bad : m <= k
    <3>1. Bad \in SUBSET Nat
      OBVIOUS
    <3> HIDE DEF Bad
    <3>2. QED
      BY <1>2, <3>1, LeastOf
  <2>2. m \in 0 .. n /\ g[m] # h[m]
    OBVIOUS
  <2>3. m # 0
    BY <1>1, <2>2
  <2>4. m - 1 \in 0 .. n /\ ~(m <= m - 1)
    BY <2>2, <2>3
  <2>5. g[m - 1] = h[m - 1]
    BY <2>1, <2>4
  <2> HIDE DEF Bad
  <2>6. QED
    BY <1>1, <2>2, <2>3, <2>5
<1>3. \A m \in 0 .. n : g[m] = h[m]
  BY <1>2
<1>4. /\ g = [i \in 0 .. n |-> g[i]]
      /\ h = [i \in 0 .. n |-> h[i]]
  BY DEF Totals
<1> HIDE DEF Bad
<1>5. QED
  BY <1>3, <1>4

\* The facts about sums that the others follow from.
LEMMA TotalStep ==
    ASSUME NEW n \in Nat, NEW e, \A i \in 1 .. n : e[i] \in Nat
    PROVE  /\ Total(n, e) \in Nat
           /\ n = 0 => Total(n, e) = 0
           /\ n # 0 => Total(n, e) = Total(n - 1, e) + e[n]
<1> DEFINE d == [i \in 1 .. n |-> e[i]]
<1>1. d \in [1 .. n -> Nat]
  OBVIOUS
<1>2. \A i \in 1 .. n : d[i] = e[i]
  OBVIOUS
<1> HIDE DEF d
<1>3. PICK g \in [0 .. n -> Nat] : Totals(d, n, g)
  BY <1>1, TotalExists
<1>4. \A i \in 0 .. n : g[i] = IF i = 0 THEN 0 ELSE g[i - 1] + e[i]
  BY <1>2, <1>3 DEF Totals
<1>5. ASSUME NEW m \in 0 .. n PROVE Total(m, e) = g[m]
  <2> DEFINE h == [i \in 0 .. m |-> g[i]]
             c == CHOOSE f : Totals(e, m, f)
  <2>1. \A i \in 0 .. m : h[i] = g[i] /\ i \in 0 .. n
    OBVIOUS
  <2>2. \A i \in 0 .. m : i # 0 => i - 1 \in 0 .. m
    OBVIOUS
  <2>3. h = [i \in 0 .. m |-> h[i]]
    OBVIOUS
  <2> HIDE DEF h
  <2>4. \A i \in 0 .. m : h[i] = IF i = 0 THEN 0 ELSE h[i - 1] + e[i]
    BY <1>4, <2>1, <2>2
  <2>5. Totals(e, m, h)
    BY <2>3, <2>4 DEF Totals
  <2>6. Totals(e, m, c)
    BY <2>5, Zenon
  <2> HIDE DEF c
  <2>7. c = h
    BY <2>5, <2>6, TotalIsOne
  <2>8. m \in 0 .. m /\ Total(m, e) = c[m]
    BY DEF Total, c
  <2>9. QED
    BY <2>1, <2>7, <2>8
<1>6. QED
  <2>1. n \in 0 .. n /\ (n # 0 => n - 1 \in 0 .. n)
    OBVIOUS
  <2>2. g[n] \in Nat
    BY <2>1
  <2>3. QED
    BY <1>4, <1>5, <2>1, <2>2

\* Sums of the same numbers are the same.
LEMMA TotalSame ==
    ASSUME NEW n \in Nat, NEW d, NEW e, \A i \in 1 .. n : e[i] \in Nat /\ d[i] = e[i]
    PROVE  Total(n, d) = Total(n, e)
<1> DEFINE Bad == {m \in 0 .. n : Total(m, d) # Total(m, e)}
<1>1. ASSUME Bad # {} PROVE FALSE
  <2>1. PICK m \in Bad : \A k \in Bad : m <= k
    <3>1. Bad \in SUBSET Nat
      OBVIOUS
    <3> HIDE DEF Bad
    <3>2. QED
      BY <1>1, <3>1, LeastOf
  <2>2. m \in 0 .. n /\ Total(m, d) # Total(m, e)
    OBVIOUS
  <2>3. \A i \in 1 .. m : e[i] \in Nat /\ d[i] \in Nat /\ d[i] = e[i]
    BY <2>2
  <2>4. m \in Nat
    BY <2>2
  <2>5. /\ m = 0 => Total(m, d) = 0
        /\ m # 0 => Total(m, d) = Total(m - 1, d) + d[m]
    BY <2>3, <2>4, TotalStep
  <2>6. /\ m = 0 => Total(m, e) = 0
        /\ m # 0 => Total(m, e) = Total(m - 1, e) + e[m]
    BY <2>3, <2>4, TotalStep
  <2>7. m # 0
    BY <2>2, <2>5, <2>6
  <2>8. m - 1 \in 0 .. n /\ ~(m <= m - 1) /\ m \in 1 .. m
    BY <2>2, <2>7
  <2>9. Total(m - 1, d) = Total(m - 1, e)
    BY <2>1, <2>8
  <2> HIDE DEF Bad
  <2>10. QED
    BY <2>2, <2>3, <2>5, <2>6, <2>7, <2>8, <2>9
<1>2. n \in 0 .. n
  OBVIOUS
<1>3. QED
  BY <1>1, <1>2

\* A sum of sums.
LEMMA TotalAdds ==
    ASSUME NEW n \in Nat, NEW e, NEW a, NEW b,
           \A i \in 1 .. n : a[i] \in Nat /\ b[i] \in Nat /\ e[i] = a[i] + b[i]
    PROVE  Total(n, e) = Total(n, a) + Total(n, b)
<1> DEFINE Bad == {m \in 0 .. n : Total(m, e) # Total(m, a) + Total(m, b)}
<1>1. ASSUME Bad # {} PROVE FALSE
  <2>1. PICK m \in Bad : \A k \in Bad : m <= k
    <3>1. Bad \in SUBSET Nat
      OBVIOUS
    <3> HIDE DEF Bad
    <3>2. QED
      BY <1>1, <3>1, LeastOf
  <2>2. m \in 0 .. n /\ Total(m, e) # Total(m, a) + Total(m, b)
    OBVIOUS
  <2>3. \A i \in 1 .. m : a[i] \in Nat /\ b[i] \in Nat /\ e[i] \in Nat /\ e[i] = a[i] + b[i]
    BY <2>2
  <2>4. m \in Nat
    BY <2>2
  <2>5. /\ m = 0 => Total(m, e) = 0
        /\ m # 0 => Total(m, e) = Total(m - 1, e) + e[m]
    BY <2>3, <2>4, TotalStep
  <2>6. /\ m = 0 => Total(m, a) = 0
        /\ m # 0 => Total(m, a) = Total(m - 1, a) + a[m]
    BY <2>3, <2>4, TotalStep
  <2>7. /\ m = 0 => Total(m, b) = 0
        /\ m # 0 => Total(m, b) = Total(m - 1, b) + b[m]
    BY <2>3, <2>4, TotalStep
  <2>8. m # 0
    BY <2>2, <2>5, <2>6, <2>7
  <2>9. m - 1 \in 0 .. n /\ m - 1 \in Nat /\ ~(m <= m - 1) /\ m \in 1 .. m
    BY <2>2, <2>8
  <2>10. Total(m - 1, e) = Total(m - 1, a) + Total(m - 1, b)
    BY <2>1, <2>9
  <2>11. \A i \in 1 .. m - 1 : a[i] \in Nat /\ b[i] \in Nat
    BY <2>3, <2>9
  <2>12. Total(m - 1, a) \in Nat /\ Total(m - 1, b) \in Nat
    BY <2>9, <2>11, TotalStep
  <2> HIDE DEF Bad
  <2>13. QED
    BY <2>2, <2>3, <2>5, <2>6, <2>7, <2>8, <2>9, <2>10, <2>12
<1>2. n \in 0 .. n
  OBVIOUS
<1>3. QED
  BY <1>1, <1>2

\* A sum of nothing.
LEMMA TotalZero ==
    ASSUME NEW n \in Nat, NEW e, \A i \in 1 .. n : e[i] = 0
    PROVE  Total(n, e) = 0
<1>1. \A i \in 1 .. n : e[i] \in Nat /\ e[i] = e[i] + e[i]
  OBVIOUS
<1>2. Total(n, e) = Total(n, e) + Total(n, e)
  BY <1>1, TotalAdds
<1>3. PICK x \in Nat : x = Total(n, e)
  BY <1>1, TotalStep
<1>4. x = x + x
  BY <1>2, <1>3, Zenon
<1>5. x = 0
  BY <1>4
<1>6. QED
  BY <1>3, <1>5, Zenon

-----------------------------------------------------------------------------
(* The sums of the module.                                                 *)

\* The bytes of the requests of ks.
BytesOf(r, ks) == Total(Len(r), [i \in 1 .. Len(r) |-> IF i \in ks THEN r[i].bytes ELSE 0])

Counts(r) == Len(r) \in Nat /\ \A i \in 1 .. Len(r) : r[i].bytes \in Nat

\* Bytes() of the module is such a sum.
LEMMA BytesAre ==
    ASSUME Counts(requests), NEW ks
    PROVE  Bytes(ks) = BytesOf(requests, ks)
<1> DEFINE n == Len(requests)
           e == [i \in 1 .. n |-> IF i \in ks THEN requests[i].bytes ELSE 0]
           P(f) == f = [i \in 0 .. n |-> IF i = 0 THEN 0
                                         ELSE f[i - 1] + (IF i \in ks THEN requests[i].bytes ELSE 0)]
           c == CHOOSE f : P(f)
<1>1. Bytes(ks) = c[n]
  BY DEF Bytes
<1>2. n \in Nat /\ \A i \in 1 .. n : requests[i].bytes \in Nat
  BY DEF Counts
<1> HIDE DEF n
<1>3. e \in [1 .. n -> Nat]
  BY <1>2
<1>4. PICK g \in [0 .. n -> Nat] : Totals(e, n, g)
  BY <1>2, <1>3, TotalExists
<1>5. \A f : P(f) => Totals(e, n, f)
  <2> SUFFICES ASSUME NEW f, P(f) PROVE Totals(e, n, f)
    OBVIOUS
  <2>1. \A i \in 0 .. n : i = 0 \/ i \in 1 .. n
    BY <1>2
  <2>2. f = [i \in 0 .. n |-> f[i]]
    OBVIOUS
  <2>3. \A i \in 0 .. n : f[i] = IF i = 0 THEN 0 ELSE f[i - 1] + e[i]
    BY <2>1
  <2> HIDE DEF P, e
  <2>4. QED
    BY <2>2, <2>3 DEF Totals
<1>6. P(g)
  <2>1. \A i \in 0 .. n : i = 0 \/ i \in 1 .. n
    BY <1>2
  <2>2. g = [i \in 0 .. n |-> g[i]]
    OBVIOUS
  <2>3. \A i \in 0 .. n : g[i] = IF i = 0 THEN 0 ELSE g[i - 1] + e[i]
    <3> HIDE DEF e
    <3>1. QED
      BY <1>4 DEF Totals
  <2>4. \A i \in 0 .. n : g[i] = IF i = 0 THEN 0
                                 ELSE g[i - 1] + (IF i \in ks THEN requests[i].bytes ELSE 0)
    BY <2>1, <2>3
  <2>5. QED
    BY <2>2, <2>4
<1>7. P(c)
  <2> HIDE DEF P
  <2>1. QED
    BY <1>6, Zenon
<1>8. Totals(e, n, c)
  <2> HIDE DEF c, P, e
  <2>1. QED
    BY <1>5, <1>7
<1> DEFINE d == CHOOSE f : Totals(e, n, f)
<1>9. Totals(e, n, d)
  <2> HIDE DEF e
  <2>1. QED
    BY <1>4, Zenon
<1>10. c = d
  <2> HIDE DEF c, d, e, P
  <2>1. QED
    BY <1>2, <1>8, <1>9, TotalIsOne
<1>11. BytesOf(requests, ks) = d[n]
  BY DEF BytesOf, Total, n
<1> HIDE DEF c, d
<1>12. QED
  BY <1>1, <1>10, <1>11

\* The first m of s, or all of it when it has less.
Upto(s, m) == IF m < Len(s) THEN m ELSE Len(s)

\* And so is what ctcp.c adds up, total_of() of the ring.
LEMMA TotalOfIs ==
    ASSUME NEW s, Len(s) \in Nat, \A i \in 1 .. Len(s) : s[i] \in Nat, NEW m \in Nat
    PROVE  TotalOf(s, m) = Total(Upto(s, m), s)
<1>0. Upto(s, m) \in 0 .. Len(s) /\ Upto(s, m) \in Nat
  BY DEF Upto
<1>1. CASE m = 0 \/ Len(s) = 0
  <2>1. Upto(s, m) = 0 /\ TotalOf(s, m) = 0
    BY <1>1 DEF Upto, TotalOf
  <2>2. \A i \in 1 .. 0 : s[i] \in Nat
    OBVIOUS
  <2>3. QED
    BY <2>1, <2>2, TotalStep
<1>2. CASE ~(m = 0 \/ Len(s) = 0)
  <2> DEFINE P(f) == f = [i \in 0 .. Len(s) |-> IF i = 0 THEN 0 ELSE f[i - 1] + s[i]]
             c == CHOOSE f : P(f)
  <2>1. TotalOf(s, m) = c[Upto(s, m)]
    BY <1>2 DEF TotalOf, Upto
  <2> DEFINE e == [i \in 1 .. Len(s) |-> s[i]]
  <2>2. e \in [1 .. Len(s) -> Nat]
    OBVIOUS
  <2>3. PICK g \in [0 .. Len(s) -> Nat] : Totals(e, Len(s), g)
    <3> HIDE DEF e
    <3>1. QED
      BY <2>2, TotalExists
  <2>4. \A i \in 0 .. Len(s) : i = 0 \/ i \in 1 .. Len(s)
    OBVIOUS
  <2>5. \A i \in 1 .. Len(s) : e[i] = s[i]
    OBVIOUS
  <2> HIDE DEF e
  <2>6. P(g)
    <3>1. g = [i \in 0 .. Len(s) |-> g[i]]
      OBVIOUS
    <3>2. \A i \in 0 .. Len(s) : g[i] = IF i = 0 THEN 0 ELSE g[i - 1] + s[i]
      BY <2>3, <2>4, <2>5 DEF Totals
    <3>3. QED
      BY <3>1, <3>2
  <2>7. P(c)
    <3> HIDE DEF P
    <3>1. QED
      BY <2>6, Zenon
  <2> HIDE DEF c
  <2>8. \A i \in 0 .. Len(s) : c[i] = IF i = 0 THEN 0 ELSE c[i - 1] + s[i]
    BY <2>7
  <2> DEFINE k == Upto(s, m)
             h == [i \in 0 .. k |-> c[i]]
             d == CHOOSE f : Totals(s, k, f)
  <2>9. \A i \in 0 .. k : h[i] = c[i] /\ i \in 0 .. Len(s) /\ (i # 0 => i - 1 \in 0 .. k)
    BY <1>0
  <2>10. h = [i \in 0 .. k |-> h[i]] /\ k \in 0 .. k /\ k \in Nat
    BY <1>0
  <2> HIDE DEF h, P
  <2>11. Totals(s, k, h)
    <3>1. \A i \in 0 .. k : h[i] = IF i = 0 THEN 0 ELSE h[i - 1] + s[i]
      BY <2>8, <2>9
    <3> HIDE DEF k
    <3>2. QED
      BY <2>10, <3>1 DEF Totals
  <2>12. Totals(s, k, d)
    BY <2>11, Zenon
  <2>13. Total(k, s) = d[k]
    BY DEF Total
  <2> HIDE DEF d, k
  <2>14. d = h
    BY <2>10, <2>11, <2>12, TotalIsOne
  <2>15. QED
    BY <2>1, <2>9, <2>10, <2>13, <2>14 DEF k
<1>3. QED
  BY <1>1, <1>2

Part(r, ks) == [i \in 1 .. Len(r) |-> IF i \in ks THEN r[i].bytes ELSE 0]

\* What is added up for the requests of ks.
LEMMA PartIs ==
    ASSUME NEW r, Counts(r), NEW ks
    PROVE  /\ \A i \in 1 .. Len(r) : /\ Part(r, ks)[i] \in Nat
                                     /\ Part(r, ks)[i] = IF i \in ks THEN r[i].bytes ELSE 0
           /\ Len(r) \in Nat
           /\ BytesOf(r, ks) = Total(Len(r), Part(r, ks))
BY DEF Part, Counts, BytesOf

\* The bytes of some requests are a number:
LEMMA BytesNat ==
    ASSUME NEW r, Counts(r), NEW ks
    PROVE  BytesOf(r, ks) \in Nat
BY PartIs, TotalStep

\* none of none,
LEMMA BytesNone ==
    ASSUME NEW r, Counts(r), NEW ks, \A i \in 1 .. Len(r) : i \notin ks
    PROVE  BytesOf(r, ks) = 0
BY PartIs, TotalZero

\* the same of the same,
LEMMA BytesSame ==
    ASSUME NEW r, Counts(r), NEW ks, NEW ls, \A i \in 1 .. Len(r) : i \in ks <=> i \in ls
    PROVE  BytesOf(r, ks) = BytesOf(r, ls)
<1>1. \A i \in 1 .. Len(r) : Part(r, ls)[i] \in Nat /\ Part(r, ks)[i] = Part(r, ls)[i]
  BY PartIs
<1>2. QED
  BY <1>1, PartIs, TotalSame

\* of either, when none is in both,
LEMMA BytesAdd ==
    ASSUME NEW r, Counts(r), NEW js, NEW ks, NEW ls,
           \A i \in 1 .. Len(r) : /\ i \in js <=> (i \in ks \/ i \in ls)
                                  /\ ~(i \in ks /\ i \in ls)
    PROVE  BytesOf(r, js) = BytesOf(r, ks) + BytesOf(r, ls)
<1>1. ASSUME NEW i \in 1 .. Len(r)
      PROVE  /\ Part(r, ks)[i] \in Nat /\ Part(r, ls)[i] \in Nat
             /\ Part(r, js)[i] = Part(r, ks)[i] + Part(r, ls)[i]
  <2>1. /\ Part(r, ks)[i] \in Nat /\ Part(r, ls)[i] \in Nat
        /\ Part(r, ks)[i] = IF i \in ks THEN r[i].bytes ELSE 0
        /\ Part(r, ls)[i] = IF i \in ls THEN r[i].bytes ELSE 0
        /\ Part(r, js)[i] = IF i \in js THEN r[i].bytes ELSE 0
        /\ r[i].bytes \in Nat
    BY PartIs DEF Counts
  <2>2. QED
    BY <2>1
<1>2. QED
  BY <1>1, PartIs, TotalAdds

\* and with one more request.
LEMMA BytesAppend ==
    ASSUME NEW T, NEW r \in Seq(T), Counts(r), NEW q \in T, q.bytes \in Nat, NEW ks
    PROVE  /\ Counts(Append(r, q))
           /\ BytesOf(Append(r, q), ks) =
                  BytesOf(r, ks) + IF Len(r) + 1 \in ks THEN q.bytes ELSE 0
<1> DEFINE a == Append(r, q)
           n == Len(r)
<1>1. /\ Len(a) = n + 1 /\ n \in Nat
      /\ \A i \in 1 .. n : a[i] = r[i]
      /\ a[n + 1] = q
  OBVIOUS
<1> HIDE DEF a, n
<1>2. \A i \in 1 .. n + 1 : i \in 1 .. n \/ i = n + 1
  BY <1>1
<1>3. Counts(a)
  BY <1>1, <1>2 DEF Counts, n
<1>4. \A i \in 1 .. n + 1 : Part(a, ks)[i] \in Nat
  BY <1>1, <1>3, PartIs
<1>5. /\ n + 1 \in Nat /\ n + 1 # 0 /\ n + 1 - 1 = n
      /\ n + 1 \in 1 .. n + 1
      /\ \A i \in 1 .. n : i \in 1 .. n + 1
  BY <1>1
<1>6. Total(n + 1, Part(a, ks)) = Total(n, Part(a, ks)) + Part(a, ks)[n + 1]
  <2>1. PICK k \in Nat : k = n + 1
    BY <1>5
  <2>2. \A i \in 1 .. k : Part(a, ks)[i] \in Nat
    BY <1>4, <2>1
  <2>3. k # 0 => Total(k, Part(a, ks)) = Total(k - 1, Part(a, ks)) + Part(a, ks)[k]
    BY <2>2, TotalStep
  <2>4. k # 0 /\ k - 1 = n
    BY <1>1, <2>1
  <2>5. QED
    BY <2>1, <2>3, <2>4
<1>7. Part(a, ks)[n + 1] = IF n + 1 \in ks THEN q.bytes ELSE 0
  BY <1>1, <1>3, <1>5, PartIs
<1>8. \A i \in 1 .. n : Part(r, ks)[i] \in Nat /\ Part(a, ks)[i] = Part(r, ks)[i]
  <2>1. \A i \in 1 .. n : Part(r, ks)[i] \in Nat
                          /\ Part(r, ks)[i] = IF i \in ks THEN r[i].bytes ELSE 0
    BY PartIs DEF n
  <2>2. \A i \in 1 .. n + 1 : Part(a, ks)[i] = IF i \in ks THEN a[i].bytes ELSE 0
    BY <1>1, <1>3, PartIs
  <2>3. QED
    BY <1>1, <1>5, <2>1, <2>2
<1>9. Total(n, Part(a, ks)) = Total(n, Part(r, ks))
  BY <1>1, <1>8, TotalSame
<1>10. /\ BytesOf(a, ks) = Total(n + 1, Part(a, ks))
       /\ BytesOf(r, ks) = Total(n, Part(r, ks))
  BY <1>1, <1>3, PartIs DEF n
<1>11. QED
  BY <1>3, <1>6, <1>7, <1>9, <1>10 DEF a, n

-----------------------------------------------------------------------------
(* The window of the limit.                                                *)

\* The requests of the last b seconds before request j, and of one second.
Window(r, j, b) == {i \in 1 .. j : r[i].at + b > r[j].at}
InSecond(r, last, i) == {k \in 1 .. Len(r) : r[k].at + i = last + 1}
Since(r, last, m) == {k \in 1 .. Len(r) : r[k].at + m > last}

Times(r, last) ==
    /\ \A i \in 1 .. Len(r) : r[i].at \in Nat /\ r[i].at <= last
    /\ last \in Nat

\* The ring holds the bytes of each second: its sum is that of the window.
LEMMA RingHoldsWindow ==
    ASSUME NEW r, Counts(r), NEW last, Times(r, last), NEW s, NEW b \in Nat,
           \A i \in 1 .. b : s[i] = BytesOf(r, InSecond(r, last, i))
    PROVE  Total(b, s) = BytesOf(r, Since(r, last, b))
<1> DEFINE Bad == {m \in 0 .. b : Total(m, s) # BytesOf(r, Since(r, last, m))}
<1>1. ASSUME Bad # {} PROVE FALSE
  <2>1. PICK m \in Bad : \A k \in Bad : m <= k
    <3>1. Bad \in SUBSET Nat
      OBVIOUS
    <3> HIDE DEF Bad
    <3>2. QED
      BY <1>1, <3>1, LeastOf
  <2>2. m \in 0 .. b /\ Total(m, s) # BytesOf(r, Since(r, last, m)) /\ m \in Nat
    OBVIOUS
  <2>3. \A i \in 1 .. m : s[i] \in Nat
    BY <2>2, BytesNat
  <2>4. /\ m = 0 => Total(m, s) = 0
        /\ m # 0 => Total(m, s) = Total(m - 1, s) + s[m]
    BY <2>2, <2>3, TotalStep
  <2>5. m # 0
    <3>1. \A i \in 1 .. Len(r) : i \notin Since(r, last, 0)
      BY DEF Since, Times
    <3>2. BytesOf(r, Since(r, last, 0)) = 0
      BY <3>1, BytesNone
    <3>3. QED
      BY <2>2, <2>4, <3>2
  <2>6. m - 1 \in 0 .. b /\ ~(m <= m - 1) /\ m \in 1 .. b
    BY <2>2, <2>5
  <2>7. Total(m - 1, s) = BytesOf(r, Since(r, last, m - 1))
    BY <2>1, <2>6
  <2>8. ASSUME NEW i \in 1 .. Len(r)
        PROVE  /\ i \in Since(r, last, m) <=> (i \in Since(r, last, m - 1) \/ i \in InSecond(r, last, m))
               /\ ~(i \in Since(r, last, m - 1) /\ i \in InSecond(r, last, m))
    <3>1. r[i].at \in Nat /\ last \in Nat /\ m \in Nat
      BY <2>2 DEF Times
    <3>2. /\ i \in Since(r, last, m) <=> r[i].at + m > last
          /\ i \in Since(r, last, m - 1) <=> r[i].at + (m - 1) > last
          /\ i \in InSecond(r, last, m) <=> r[i].at + m = last + 1
      BY DEF Since, InSecond
    <3>3. QED
      BY <3>1, <3>2
  <2> HIDE DEF Bad
  <2>9. BytesOf(r, Since(r, last, m)) =
            BytesOf(r, Since(r, last, m - 1)) + BytesOf(r, InSecond(r, last, m))
    BY <2>8, BytesAdd
  <2>10. QED
    BY <2>2, <2>4, <2>5, <2>6, <2>7, <2>9
<1>2. b \in 0 .. b
  OBVIOUS
<1>3. QED
  BY <1>1, <1>2

-----------------------------------------------------------------------------
(* Types.                                                                  *)

Message == [nick: FloodNicks, type: FloodTypes, at: 1 .. MaxNow, flooding: BOOLEAN]
Request == [at: 1 .. MaxNow, bytes: Nat, sent: BOOLEAN]

FloodsKnown ==
    /\ FloodsTypeOK
    /\ floodUsers # 0 => Len(flood) = floodUsers
    /\ came \in Seq(Message)
    /\ requests \in Seq(Request)
    /\ limit.last <= now
    /\ \A k \in 1 .. Len(came) : came[k].at <= now
    /\ \A k \in 1 .. Len(requests) : requests[k].at <= limit.last

\* What a run may be set to.
LEMMA FloodSettingIs ==
    ASSUME floodEnv \in FloodSettings
    PROVE  /\ floodEnv.nicks \subseteq FloodNicks /\ floodEnv.users \subseteq 0 .. 3
           /\ floodEnv.after \in Nat /\ floodEnv.rate \in Nat
           /\ floodEnv.bytes \subseteq Nat \ {0} /\ floodEnv.backlogs \subseteq Nat
           /\ floodEnv.size \in Nat /\ floodEnv.suspend \in Nat
           /\ floodEnv.noFloods \subseteq BOOLEAN
<1>1. floodEnv \in FloodSetting
  BY FloodsAssumption
<1>2. QED
  BY <1>1 DEF FloodSetting

\* What is known at the start.
LEMMA TypesInit == FloodsInit => FloodsKnown
<1> SUFFICES ASSUME FloodsInit PROVE FloodsKnown
  OBVIOUS
<1>1. backlogSeconds \in Nat /\ noFlood \in BOOLEAN /\ floodEnv \in FloodSettings
  BY FloodSettingIs DEF FloodsInit
<1>2. limit \in CtcpFlood
  <2>1. [i \in 1 .. backlogSeconds |-> 0] \in Seq(Nat)
    BY <1>1
  <2>2. 0 \in 0 .. MaxNow
    BY FloodsAssumption
  <2>3. limit = [last |-> 0, flooded |-> 0, sizes |-> [i \in 1 .. backlogSeconds |-> 0]]
    BY DEF FloodsInit, NewFlood
  <2>4. QED
    BY <2>1, <2>2, <2>3 DEF CtcpFlood
<1>3. now \in 1 .. MaxNow /\ MaxArrivals \in Nat
  BY FloodsAssumption DEF FloodsInit
<1>4. /\ flood = <<>> /\ floodUsers = 0 /\ pos = 0 /\ came = <<>> /\ requests = <<>>
      /\ changed = FALSE
  BY DEF FloodsInit
<1>5. /\ flood \in Seq(Flooding) /\ floodUsers = 0
      /\ came \in Seq(Message) /\ requests \in Seq(Request)
      /\ Len(came) + Len(requests) <= MaxArrivals
      /\ changed \in BOOLEAN /\ floodUsers \in 0 .. 3 /\ pos \in Nat
  <2>1. changed \in BOOLEAN /\ floodUsers \in 0 .. 3 /\ pos \in Nat
    <3>1. floodUsers = 0 /\ pos = 0
      BY <1>4, Zenon
    <3>2. changed = FALSE
      BY <1>4, Zenon
    <3>3. changed \in BOOLEAN
      BY <3>2, Zenon
    <3>4. QED
      BY <3>1, <3>3
  <2>2. \A S : <<>> \in Seq(S)
    OBVIOUS
  <2>3. Len(<<>>) = 0
    OBVIOUS
  <2>4. flood \in Seq(Flooding) /\ came \in Seq(Message) /\ requests \in Seq(Request)
    BY <1>4, <2>2, Zenon
  <2>5. Len(flood) = 0 /\ Len(came) = 0 /\ Len(requests) = 0
    BY <1>4, <2>3, Zenon
  <2>6. QED
    BY <1>3, <1>4, <2>1, <2>4, <2>5
<1>6. Len(came) = 0 /\ Len(requests) = 0
  BY <1>4
<1>7. limit.last <= now
  BY DEF FloodsInit, NewFlood
<1>8. QED
  BY <1>1, <1>2, <1>3, <1>5, <1>6, <1>7 DEF FloodsKnown, FloodsTypeOK

\* What the table is after a message.
LEMMA TableIs ==
    ASSUME FloodsKnown, NEW users \in 1 .. 3
    PROVE  TableOf(users) \in Seq(Flooding) /\ Len(TableOf(users)) = users
<1>1. CASE users = floodUsers
  BY <1>1 DEF FloodsKnown, FloodsTypeOK, TableOf
<1>2. CASE users # floodUsers
  <2>1. NobodyFlooding \in Flooding
    BY FloodsAssumption DEF NobodyFlooding, Flooding
  <2>2. TableOf(users) = [i \in 1 .. users |-> NobodyFlooding]
    BY <1>2 DEF TableOf
  <2> HIDE DEF NobodyFlooding, Flooding
  <2>3. QED
    BY <2>1, <2>2
<1>3. QED
  BY <1>1, <1>2

\* A record with one field set.
LEMMA SlotSet ==
    ASSUME NEW a, NEW b, NEW c, NEW d, NEW x,
           NEW m, m = [nick |-> a, type |-> b, cnt |-> c, start |-> d]
    PROVE  /\ [m EXCEPT !.cnt = x] = [nick |-> a, type |-> b, cnt |-> x, start |-> d]
           /\ [m EXCEPT !.start = x] = [nick |-> a, type |-> b, cnt |-> c, start |-> x]
OBVIOUS

\* A record counted once more, and started again.
LEMMA SlotCounted ==
    ASSUME NEW N, NEW T, NEW S, NEW slot \in [nick: N, type: T, cnt: Nat, start: S], NEW at \in S,
           NEW more, more = [slot EXCEPT !.cnt = @ + 1],
           NEW one, one = [more EXCEPT !.cnt = 1],
           NEW again, again = [one EXCEPT !.start = at]
    PROVE  /\ more \in [nick: N, type: T, cnt: Nat, start: S]
           /\ more.nick = slot.nick /\ more.type = slot.type /\ more.start = slot.start
           /\ more.cnt = slot.cnt + 1
           /\ again \in [nick: N, type: T, cnt: Nat, start: S]
           /\ again.nick = slot.nick /\ again.type = slot.type
           /\ again.cnt = 1 /\ again.start = at
<1>1. slot = [nick |-> slot.nick, type |-> slot.type, cnt |-> slot.cnt, start |-> slot.start]
      /\ slot.nick \in N /\ slot.type \in T /\ slot.cnt \in Nat /\ slot.start \in S
  OBVIOUS
<1>2. more = [nick |-> slot.nick, type |-> slot.type, cnt |-> slot.cnt + 1, start |-> slot.start]
  BY <1>1, SlotSet, Zenon
<1>3. one = [nick |-> slot.nick, type |-> slot.type, cnt |-> 1, start |-> slot.start]
  BY <1>2, SlotSet, Zenon
<1>4. again = [nick |-> slot.nick, type |-> slot.type, cnt |-> 1, start |-> at]
  BY <1>3, SlotSet, Zenon
<1>5. more \in [nick: N, type: T, cnt: Nat, start: S]
  BY <1>1, <1>2
<1>6. again \in [nick: N, type: T, cnt: Nat, start: S]
  BY <1>1, <1>4
<1>7. /\ more.nick = slot.nick /\ more.type = slot.type /\ more.start = slot.start
      /\ more.cnt = slot.cnt + 1
  BY <1>2
<1>8. /\ again.nick = slot.nick /\ again.type = slot.type
      /\ again.cnt = 1 /\ again.start = at
  BY <1>4
<1>9. QED
  BY <1>5, <1>6, <1>7, <1>8

\* What Counted() makes of a slot.
LEMMA CountedIs ==
    ASSUME FloodsKnown, NEW slot \in Flooding
    PROVE  /\ Counted(slot) \in Flooding
           /\ Counted(slot).nick = slot.nick /\ Counted(slot).type = slot.type
           /\ \/ Counted(slot).cnt = slot.cnt + 1 /\ Counted(slot).start = slot.start
              \/ Counted(slot).cnt = 1 /\ Counted(slot).start = now
<1>1. now \in 0 .. MaxNow
  BY FloodsAssumption DEF FloodsKnown, FloodsTypeOK
<1> DEFINE more == [slot EXCEPT !.cnt = @ + 1]
           one == [more EXCEPT !.cnt = 1]
           again == [one EXCEPT !.start = now]
           N == FloodNicks \cup {""}
           T == FloodTypes \cup {""}
           S == 0 .. MaxNow
<1>2. Flooding = [nick: N, type: T, cnt: Nat, start: S]
  BY Zenon DEF Flooding
<1>3. Counted(slot) = more \/ Counted(slot) = again
  BY Zenon DEF Counted
<1>4. now \in S
  BY <1>1
<1>5. /\ more = [slot EXCEPT !.cnt = @ + 1]
      /\ one = [more EXCEPT !.cnt = 1]
      /\ again = [one EXCEPT !.start = now]
  OBVIOUS
<1> HIDE DEF more, one, again, N, T, S
<1>6. slot \in [nick: N, type: T, cnt: Nat, start: S]
  BY <1>2, Zenon
<1>7. /\ more \in [nick: N, type: T, cnt: Nat, start: S]
      /\ more.nick = slot.nick /\ more.type = slot.type /\ more.start = slot.start
      /\ more.cnt = slot.cnt + 1
      /\ again \in [nick: N, type: T, cnt: Nat, start: S]
      /\ again.nick = slot.nick /\ again.type = slot.type
      /\ again.cnt = 1 /\ again.start = now
  BY <1>4, <1>5, <1>6, SlotCounted, Zenon
<1>8. QED
  BY <1>2, <1>3, <1>7, Zenon

\* What a message does to slot i of the table.
SlotAfter(i, nick, type) ==
    \/ flood'[i].nick = ""
    \/ i \in 1 .. Len(flood) /\ flood'[i] = flood[i]
    \/ /\ flood'[i].nick = nick /\ flood'[i].type = type
       /\ flood'[i].cnt = 1 /\ flood'[i].start = now
    \/ /\ i \in 1 .. Len(flood)
       /\ flood[i].nick = nick /\ flood[i].type = type
       /\ flood'[i].nick = nick /\ flood'[i].type = type
       /\ flood'[i].cnt = flood[i].cnt + 1 /\ flood'[i].start = flood[i].start

SaidFlooding(i, nick, type) ==
    /\ i \in 1 .. Len(flood)
    /\ flood[i].nick = nick /\ flood[i].type = type
    /\ TooFast([flood[i] EXCEPT !.cnt = @ + 1])

\* What check_flooding() does to the table, and of whom it says that they flood.
LEMMA MessageDoes ==
    ASSUME FloodsKnown, NEW nick \in FloodNicks, NEW type \in FloodTypes, NEW users \in 0 .. 3,
           CheckFlooding(nick, type, users)
    PROVE  /\ floodUsers' = users /\ pos' \in Nat
           /\ flood' \in Seq(Flooding) /\ (users # 0 => Len(flood') = users)
           /\ \A i \in 1 .. Len(flood') : SlotAfter(i, nick, type)
           /\ \E fl \in BOOLEAN :
                 /\ came' = Append(came, [nick |-> nick, type |-> type, at |-> now, flooding |-> fl])
                 /\ fl => \E i \in 1 .. Len(flood) : SaidFlooding(i, nick, type)
<1> DEFINE table == TableOf(users)
           slots == SlotsOf(table, nick, type)
           at == CHOOSE i \in slots : \A j \in slots : i <= j
           q(fl) == [nick |-> nick, type |-> type, at |-> now, flooding |-> fl]
<1>1. users # 0 => table \in Seq(Flooding) /\ Len(table) = users
  <2>1. users # 0 => users \in 1 .. 3
    OBVIOUS
  <2>2. QED
    BY <2>1, TableIs, Zenon
<1>2. now \in 1 .. MaxNow /\ pos \in Nat /\ floodUsers \in 0 .. 3 /\ flood \in Seq(Flooding)
  BY DEF FloodsKnown, FloodsTypeOK
<1>3. users # 0 => \A i \in 1 .. users : \/ table[i].nick = ""
                                         \/ i \in 1 .. Len(flood) /\ table[i] = flood[i]
  <2>1. CASE users = floodUsers /\ users # 0
    <3>1. table = flood
      BY <2>1, Zenon DEF TableOf
    <3>2. Len(flood) = users
      BY <2>1 DEF FloodsKnown
    <3> HIDE DEF table
    <3>3. QED
      BY <3>1, <3>2, Zenon
  <2>2. CASE users # floodUsers
    <3>1. table = [i \in 1 .. users |-> NobodyFlooding]
      BY <2>2 DEF TableOf
    <3>2. NobodyFlooding.nick = ""
      BY DEF NobodyFlooding
    <3>3. ASSUME NEW i \in 1 .. users PROVE table[i].nick = ""
      <4>1. table[i] = NobodyFlooding
        <5> HIDE DEF table, NobodyFlooding
        <5>1. QED
          BY <3>1
      <4>2. QED
        BY <3>2, <4>1, Zenon
    <3>4. QED
      BY <3>3, Zenon
  <2>3. QED
    BY <2>1, <2>2, Zenon
<1>4. floodUsers' = users
  BY Zenon DEF CheckFlooding
<1>5. nick # "" /\ nick \in FloodNicks \cup {""} /\ type \in FloodTypes \cup {""}
  BY Zenon DEF FloodNicks
<1> HIDE DEF table
<1>6. CASE users = 0
  <2>1. flood' = flood /\ pos' = pos /\ came' = Append(came, q(FALSE))
    BY <1>6, Zenon DEF CheckFlooding
  <2>2. \A i \in 1 .. Len(flood') : SlotAfter(i, nick, type)
    BY <2>1, Zenon DEF SlotAfter
  <2>3. flood' \in Seq(Flooding) /\ pos' \in Nat
    BY <1>2, <2>1, Zenon
  <2>4. \E fl \in BOOLEAN :
           /\ came' = Append(came, [nick |-> nick, type |-> type, at |-> now, flooding |-> fl])
           /\ fl => \E i \in 1 .. Len(flood) : SaidFlooding(i, nick, type)
    BY <2>1, Zenon
  <2>5. QED
    BY <1>4, <1>6, <2>2, <2>3, <2>4, Zenon
<1>7. CASE users # 0 /\ slots = {}
  <2> DEFINE new == TakenOver(table[pos' + 1], nick, type)
  <2>1. /\ pos' = (pos + 1) % users
        /\ flood' = [table EXCEPT ![pos' + 1] = new]
        /\ came' = Append(came, q(FALSE))
    BY <1>7, Zenon DEF CheckFlooding, table
  <2>2. new = [nick |-> nick, type |-> type, cnt |-> 1, start |-> now]
    BY Zenon DEF TakenOver
  <2>3. new \in Flooding
    <3>1. now \in 0 .. MaxNow /\ 1 \in Nat
      BY <1>2
    <3> HIDE DEF new
    <3>2. QED
      BY <1>5, <2>2, <3>1, Zenon DEF Flooding
  <2>4. pos' \in Nat /\ pos' + 1 \in 1 .. users
    BY <1>2, <1>7, <2>1
  <2> HIDE DEF new
  <2>5. flood' \in Seq(Flooding) /\ Len(flood') = users
    BY <1>1, <1>7, <2>1, <2>3, <2>4
  <2>6. \A i \in 1 .. users : flood'[i] = IF i = pos' + 1 THEN new ELSE table[i]
    BY <1>1, <1>7, <2>1, <2>4
  <2>7. new.nick = nick /\ new.type = type /\ new.cnt = 1 /\ new.start = now
    BY <2>2
  <2>8. \A i \in 1 .. Len(flood') : SlotAfter(i, nick, type)
    BY <1>3, <1>7, <2>5, <2>6, <2>7, Zenon DEF SlotAfter
  <2>9. \E fl \in BOOLEAN :
           /\ came' = Append(came, [nick |-> nick, type |-> type, at |-> now, flooding |-> fl])
           /\ fl => \E i \in 1 .. Len(flood) : SaidFlooding(i, nick, type)
    BY <2>1, Zenon
  <2>10. QED
    BY <1>4, <2>4, <2>5, <2>8, <2>9, Zenon
<1>8. CASE users # 0 /\ slots # {}
  <2> DEFINE new == Counted(table[at])
             fl == TooFast([table[at] EXCEPT !.cnt = @ + 1])
  <2>1. /\ flood' = [table EXCEPT ![at] = new]
        /\ pos' = pos
        /\ came' = Append(came, q(fl))
    BY <1>8, Zenon DEF CheckFlooding, table
  <2>2. at \in slots
    <3>1. slots \in SUBSET Nat
      BY <1>1, <1>8 DEF SlotsOf
    <3> HIDE DEF slots
    <3>2. \E i \in slots : \A j \in slots : i <= j
      BY <1>8, <3>1, LeastOf
    <3>3. QED
      BY <3>2, Zenon
  <2>3. at \in 1 .. users /\ table[at].nick = nick /\ table[at].type = type
    <3> HIDE DEF at
    <3>1. QED
      BY <1>1, <1>8, <2>2 DEF SlotsOf
  <2> HIDE DEF at, slots
  <2>4. table[at] \in Flooding
    BY <1>1, <1>8, <2>3
  <2>5. at \in 1 .. Len(flood) /\ table[at] = flood[at]
    BY <1>3, <1>5, <1>8, <2>3, Zenon
  <2>6. /\ new \in Flooding /\ new.nick = nick /\ new.type = type
        /\ \/ new.cnt = flood[at].cnt + 1 /\ new.start = flood[at].start
           \/ new.cnt = 1 /\ new.start = now
    BY <2>3, <2>4, <2>5, CountedIs, Zenon
  <2> HIDE DEF new
  <2>7. flood' \in Seq(Flooding) /\ Len(flood') = users
    BY <1>1, <1>8, <2>1, <2>3, <2>6
  <2>8. \A i \in 1 .. users : flood'[i] = IF i = at THEN new ELSE table[i]
    BY <1>1, <1>8, <2>1, <2>3
  <2>9. \A i \in 1 .. Len(flood') : SlotAfter(i, nick, type)
    <3> SUFFICES ASSUME NEW i \in 1 .. users PROVE SlotAfter(i, nick, type)
      BY <2>7
    <3>1. CASE i = at
      BY <2>3, <2>5, <2>6, <2>8, <3>1, Zenon DEF SlotAfter
    <3>2. CASE i # at
      BY <1>3, <1>8, <2>8, <3>2, Zenon DEF SlotAfter
    <3>3. QED
      BY <3>1, <3>2
  <2>10. fl \in BOOLEAN
    BY DEF TooFast
  <2>11. fl => SaidFlooding(at, nick, type)
    BY <2>3, <2>5, Zenon DEF SaidFlooding
  <2> HIDE DEF fl
  <2>12. \E f \in BOOLEAN :
           /\ came' = Append(came, [nick |-> nick, type |-> type, at |-> now, flooding |-> f])
           /\ f => \E i \in 1 .. Len(flood) : SaidFlooding(i, nick, type)
    BY <2>1, <2>5, <2>10, <2>11, Zenon
  <2>13. QED
    BY <1>2, <1>4, <2>1, <2>7, <2>9, <2>12, Zenon
<1>9. QED
  BY <1>6, <1>7, <1>8, Zenon

\* What a request does.
NewSizes(bytes) == Sizes(limit.sizes, IF limit.last = 0 THEN 0 ELSE now - limit.last, bytes)

\* The ring and what came stay what they are.
LEMMA RequestDoes ==
    ASSUME FloodsKnown, NEW bytes \in Nat, Reply(bytes)
    PROVE  /\ limit' \in CtcpFlood
           /\ limit'.last = now /\ limit'.sizes = NewSizes(bytes)
           /\ \E s \in BOOLEAN : requests' = Append(requests, [at |-> now, bytes |-> bytes, sent |-> s])
<1>1. now \in 1 .. MaxNow /\ limit \in CtcpFlood /\ limit.last <= now
  BY DEF FloodsKnown, FloodsTypeOK
<1>2. /\ limit.last \in 0 .. MaxNow /\ limit.flooded \in 0 .. MaxNow /\ limit.sizes \in Seq(Nat)
      /\ limit = [last |-> limit.last, flooded |-> limit.flooded, sizes |-> limit.sizes]
  BY <1>1 DEF CtcpFlood
<1> DEFINE delta == IF limit.last = 0 THEN 0 ELSE now - limit.last
           flooded == IF Flooded(NewSizes(bytes)) THEN now ELSE limit.flooded
           noReply == flooded # 0 /\ now <= flooded + floodEnv.suspend
           sends == ~noFlood \/ ~noReply
<1>3. /\ limit' = [last |-> now, flooded |-> IF sends THEN 0 ELSE flooded, sizes |-> NewSizes(bytes)]
      /\ requests' = Append(requests, [at |-> now, bytes |-> bytes, sent |-> sends])
  BY Zenon DEF Reply, NewSizes
<1>4. now \in 0 .. MaxNow /\ 0 \in 0 .. MaxNow
  BY <1>1, FloodsAssumption
<1>5. flooded \in 0 .. MaxNow
  BY <1>2, <1>4
<1>6. sends \in BOOLEAN
  OBVIOUS
<1> HIDE DEF sends, flooded
<1>7. NewSizes(bytes) \in Seq(Nat)
  <2>1. delta \in Nat
    BY <1>1, <1>2
  <2>2. NewSizes(bytes) = [i \in 1 .. Len(limit.sizes) |->
            (IF i > delta THEN limit.sizes[i - delta] ELSE 0) + (IF i = 1 THEN bytes ELSE 0)]
    BY <1>2 DEF NewSizes, Sizes
  <2> HIDE DEF delta
  <2>3. Len(limit.sizes) \in Nat
    BY <1>2
  <2>4. \A i \in 1 .. Len(limit.sizes) :
            (IF i > delta THEN limit.sizes[i - delta] ELSE 0) + (IF i = 1 THEN bytes ELSE 0) \in Nat
    <3>1. \A i \in 1 .. Len(limit.sizes) : i > delta => limit.sizes[i - delta] \in Nat
      BY <1>2, <2>1, SMTT(30)
    <3>2. QED
      BY <3>1
  <2>5. QED
    BY <2>2, <2>3, <2>4
<1>8. QED
  <2>1. limit' \in CtcpFlood
    BY <1>3, <1>4, <1>5, <1>6, <1>7, Zenon DEF CtcpFlood
  <2>2. limit'.last = now /\ limit'.sizes = NewSizes(bytes)
    BY <1>3
  <2>3. QED
    BY <1>3, <1>6, <2>1, <2>2, Zenon

\* What is known stays so.
LEMMA TypesStep == FloodsKnown /\ [FloodsNext]_floodsVars => FloodsKnown'
<1> SUFFICES ASSUME FloodsKnown, [FloodsNext]_floodsVars PROVE FloodsKnown'
  OBVIOUS
<1>1. /\ now \in 1 .. MaxNow
      /\ floodUsers \in 0 .. 3 /\ flood \in Seq(Flooding) /\ pos \in Nat
      /\ limit \in CtcpFlood
      /\ backlogSeconds \in Nat /\ noFlood \in BOOLEAN /\ changed \in BOOLEAN
      /\ Len(came) + Len(requests) <= MaxArrivals
      /\ floodEnv \in FloodSettings
      /\ floodUsers # 0 => Len(flood) = floodUsers
      /\ came \in Seq(Message)
      /\ requests \in Seq(Request)
      /\ limit.last <= now
      /\ \A k \in 1 .. Len(came) : came[k].at <= now
      /\ \A k \in 1 .. Len(requests) : requests[k].at <= limit.last
  BY Zenon DEF FloodsKnown, FloodsTypeOK
<1>2. CASE Second
  <2>1. /\ now' = now + 1 /\ now < MaxNow
        /\ UNCHANGED <<flood, floodUsers, pos, limit, backlogSeconds, noFlood, came, requests, changed, floodEnv>>
    BY <1>2 DEF Second
  <2>2. limit.last \in Nat /\ \A k \in 1 .. Len(came) : came[k].at \in Nat
    <3>1. limit.last \in 0 .. MaxNow
      BY <1>1, Zenon DEF CtcpFlood
    <3>2. \A k \in 1 .. Len(came) : came[k].at \in 1 .. MaxNow
      <4>1. \A k \in 1 .. Len(came) : came[k] \in Message
        <5> HIDE DEF Message
        <5>1. QED
          BY <1>1
      <4>2. \A q \in Message : q.at \in 1 .. MaxNow
        BY Zenon DEF Message
      <4>3. QED
        BY <4>1, <4>2, Zenon
    <3>3. QED
      BY <3>1, <3>2
  <2>3. now' \in 1 .. MaxNow /\ limit.last <= now' /\ \A k \in 1 .. Len(came) : came[k].at <= now'
    <3>1. MaxNow \in Nat
      BY FloodsAssumption
    <3>2. now \in 1 .. MaxNow /\ limit.last <= now /\ \A k \in 1 .. Len(came) : came[k].at <= now
      BY <1>1
    <3>3. now' \in 1 .. MaxNow /\ now <= now' /\ now \in Nat /\ now' \in Nat
      BY ONLY <2>1, <3>1, <3>2
    <3>4. limit.last <= now'
      BY ONLY <2>2, <3>2, <3>3
    <3>5. \A k \in 1 .. Len(came) : came[k].at <= now'
      BY ONLY <2>2, <3>2, <3>3
    <3>6. QED
      BY ONLY <3>3, <3>4, <3>5
  <2>4. QED
    BY <1>1, <2>1, <2>3, Zenon DEF FloodsKnown, FloodsTypeOK
<1>3. CASE MessageArrives
  <2>1. PICK nick \in floodEnv.nicks, type \in FloodTypes, users \in floodEnv.users :
            CheckFlooding(nick, type, users)
    BY <1>3, Zenon DEF MessageArrives
  <2>2. nick \in FloodNicks /\ users \in 0 .. 3
    BY <1>1, FloodSettingIs, Zenon
  <2>3. /\ floodUsers' = users /\ pos' \in Nat
        /\ flood' \in Seq(Flooding) /\ (users # 0 => Len(flood') = users)
        /\ \E fl \in BOOLEAN :
              came' = Append(came, [nick |-> nick, type |-> type, at |-> now, flooding |-> fl])
    BY <2>1, <2>2, MessageDoes, Zenon
  <2>4. PICK fl \in BOOLEAN :
            came' = Append(came, [nick |-> nick, type |-> type, at |-> now, flooding |-> fl])
    BY <2>3
  <2>5. [nick |-> nick, type |-> type, at |-> now, flooding |-> fl] \in Message
    BY <1>1, <2>2, Zenon DEF Message
  <2>6. /\ UNCHANGED <<now, limit, backlogSeconds, noFlood, requests, changed, floodEnv>>
        /\ Len(came) + Len(requests) < MaxArrivals
    BY <1>3, Zenon DEF MessageArrives, MayArrive
  <2>7. came' \in Seq(Message) /\ Len(came') = Len(came) + 1
    <3> HIDE DEF Message
    <3>1. QED
      BY <1>1, <2>4, <2>5
  <2>8. \A k \in 1 .. Len(came') : came'[k].at <= now
    <3> DEFINE q == [nick |-> nick, type |-> type, at |-> now, flooding |-> fl]
    <3>1. q.at = now /\ q \in Message /\ came' = Append(came, q)
      BY <2>4, <2>5
    <3> HIDE DEF q, Message
    <3>2. \A k \in 1 .. Len(came') : came'[k] = IF k = Len(came) + 1 THEN q ELSE came[k]
      BY <1>1, <3>1
    <3>3. \A k \in 1 .. Len(came') : k = Len(came) + 1 \/ k \in 1 .. Len(came)
      BY <1>1, <2>7
    <3>4. now <= now
      BY <1>1
    <3>5. QED
      BY <1>1, <3>1, <3>2, <3>3, <3>4
  <2>9. Len(came') + Len(requests) <= MaxArrivals
    <3>1. Len(came) \in Nat /\ Len(requests) \in Nat /\ MaxArrivals \in Nat
      BY <1>1, FloodsAssumption
    <3>2. QED
      BY <2>6, <2>7, <3>1
  <2>10. QED
    BY <1>1, <2>2, <2>3, <2>6, <2>7, <2>8, <2>9, Zenon DEF FloodsKnown, FloodsTypeOK
<1>4. CASE RequestArrives
  <2>1. PICK bytes \in floodEnv.bytes : Reply(bytes)
    BY <1>4, Zenon DEF RequestArrives
  <2>2. bytes \in Nat
    BY <1>1, FloodSettingIs
  <2>3. /\ limit' \in CtcpFlood /\ limit'.last = now
        /\ \E s \in BOOLEAN : requests' = Append(requests, [at |-> now, bytes |-> bytes, sent |-> s])
    BY <2>1, <2>2, RequestDoes, Zenon
  <2>4. PICK s \in BOOLEAN : requests' = Append(requests, [at |-> now, bytes |-> bytes, sent |-> s])
    BY <2>3
  <2>5. [at |-> now, bytes |-> bytes, sent |-> s] \in Request
    BY <1>1, <2>2, Zenon DEF Request
  <2>6. /\ UNCHANGED <<now, flood, floodUsers, pos, backlogSeconds, noFlood, came, changed, floodEnv>>
        /\ Len(came) + Len(requests) < MaxArrivals
    BY <1>4, Zenon DEF RequestArrives, MayArrive
  <2>7. requests' \in Seq(Request) /\ Len(requests') = Len(requests) + 1
    <3> HIDE DEF Request
    <3>1. QED
      BY <1>1, <2>4, <2>5
  <2>8. \A k \in 1 .. Len(requests') : requests'[k].at <= now
    <3> DEFINE q == [at |-> now, bytes |-> bytes, sent |-> s]
    <3>1. q.at = now /\ q \in Request /\ requests' = Append(requests, q)
      BY <2>4, <2>5
    <3> HIDE DEF q, Request
    <3>2. \A k \in 1 .. Len(requests') : requests'[k] = IF k = Len(requests) + 1 THEN q ELSE requests[k]
      BY <1>1, <3>1
    <3>3. \A k \in 1 .. Len(requests') : k = Len(requests) + 1 \/ k \in 1 .. Len(requests)
      BY <1>1, <2>7
    <3>4. now <= now
      BY <1>1
    <3>5. \A k \in 1 .. Len(requests) : requests[k].at <= now
      <4>1. limit.last \in Nat /\ now \in Nat /\ \A k \in 1 .. Len(requests) : requests[k].at \in Nat
        <5>1. limit.last \in 0 .. MaxNow
          BY <1>1, Zenon DEF CtcpFlood
        <5>2. \A k \in 1 .. Len(requests) : requests[k] \in Request
          <6> HIDE DEF Request
          <6>1. QED
            BY <1>1
        <5>3. \A x \in Request : x.at \in 1 .. MaxNow
          BY Zenon DEF Request
        <5>4. \A k \in 1 .. Len(requests) : requests[k].at \in 1 .. MaxNow
          BY <5>2, <5>3, Zenon
        <5>5. QED
          BY <1>1, <5>1, <5>4
      <4>2. QED
        BY <1>1, <4>1
    <3>6. QED
      BY <3>1, <3>2, <3>3, <3>4, <3>5
  <2>9. Len(came) + Len(requests') <= MaxArrivals
    <3>1. Len(came) \in Nat /\ Len(requests) \in Nat /\ MaxArrivals \in Nat
      BY <1>1, FloodsAssumption
    <3>2. QED
      BY <2>6, <2>7, <3>1
  <2>10. now <= now
    BY <1>1
  <2>11. QED
    BY <1>1, <2>3, <2>6, <2>7, <2>8, <2>9, <2>10, Zenon DEF FloodsKnown, FloodsTypeOK
<1>5. CASE SetBacklogSeconds
  <2>1. PICK seconds \in floodEnv.backlogs :
            /\ backlogSeconds' = seconds
            /\ limit' = [limit EXCEPT !.sizes = [i \in 1 .. IF seconds = 0 THEN 1 ELSE seconds |->
                            IF i <= Len(limit.sizes) THEN limit.sizes[i] ELSE 0]]
    BY <1>5, Zenon DEF SetBacklogSeconds
  <2>2. seconds \in Nat
    BY <1>1, FloodSettingIs
  <2> DEFINE new == [i \in 1 .. IF seconds = 0 THEN 1 ELSE seconds |->
                            IF i <= Len(limit.sizes) THEN limit.sizes[i] ELSE 0]
  <2>3. new \in Seq(Nat)
    <3>1. limit.sizes \in Seq(Nat)
      BY <1>1 DEF CtcpFlood
    <3>2. PICK size \in Nat : size = IF seconds = 0 THEN 1 ELSE seconds
      BY <2>2
    <3>3. \A i \in 1 .. size : (IF i <= Len(limit.sizes) THEN limit.sizes[i] ELSE 0) \in Nat
      BY <3>1, <3>2
    <3>4. QED
      BY <3>2, <3>3
  <2>4. limit' = [limit EXCEPT !.sizes = new]
    BY <2>1
  <2> HIDE DEF new
  <2>5. limit' \in CtcpFlood /\ limit'.last = limit.last
    BY <1>1, <2>3, <2>4 DEF CtcpFlood
  <2>6. /\ changed' = TRUE
        /\ UNCHANGED <<now, flood, floodUsers, pos, noFlood, came, requests, floodEnv>>
    BY <1>5, Zenon DEF SetBacklogSeconds
  <2>7. changed' \in BOOLEAN
    BY <2>6, Zenon
  <2>8. QED
    BY <1>1, <2>1, <2>2, <2>5, <2>6, <2>7, Zenon DEF FloodsKnown, FloodsTypeOK
<1>6. CASE SetNoCtcpFlood
  <2>1. PICK on \in floodEnv.noFloods : noFlood' = on
    BY <1>6, Zenon DEF SetNoCtcpFlood
  <2>2. on \in BOOLEAN
    BY <1>1, FloodSettingIs, Zenon
  <2>3. /\ changed' = TRUE
        /\ UNCHANGED <<now, flood, floodUsers, pos, limit, backlogSeconds, came, requests, floodEnv>>
    BY <1>6, Zenon DEF SetNoCtcpFlood
  <2>4. changed' \in BOOLEAN
    BY <2>3, Zenon
  <2>5. QED
    BY <1>1, <2>1, <2>2, <2>3, <2>4, Zenon DEF FloodsKnown, FloodsTypeOK
<1>7. CASE UNCHANGED floodsVars
  <2>1. UNCHANGED <<now, flood, floodUsers, pos, limit, backlogSeconds, noFlood, came, requests,
                    changed, floodEnv>>
    BY <1>7 DEF floodsVars
  <2>2. QED
    BY <1>1, <2>1, Zenon DEF FloodsKnown, FloodsTypeOK
<1>8. QED
  BY <1>2, <1>3, <1>4, <1>5, <1>6, <1>7, Zenon DEF FloodsNext

-----------------------------------------------------------------------------
(* Who floods.                                                             *)

\* More than rate in each of diff seconds.
LEMMA FasterThan ==
    ASSUME NEW cnt \in Nat, NEW diff \in Nat, NEW rate \in Nat, diff # 0, cnt \div diff > rate
    PROVE  cnt > rate * diff
<1>1. PICK q \in Nat : q = cnt \div diff
  OBVIOUS
<1>2. cnt >= q * diff
  BY <1>1
<1>3. q >= rate + 1
  BY <1>1
<1>4. q * diff >= (rate + 1) * diff
  BY <1>3
<1>5. (rate + 1) * diff = rate * diff + diff
  OBVIOUS
<1>6. q * diff \in Nat /\ rate * diff \in Nat
  OBVIOUS
<1>7. QED
  BY <1>2, <1>4, <1>5, <1>6

\* The messages of the first m of c like those that are counted.
SameOf(c, m, nick, type, from) ==
    {k \in 1 .. m : c[k].nick = nick /\ c[k].type = type /\ c[k].at >= from}

\* What is counted can be counted.
LEMMA SameFinite ==
    ASSUME NEW c, NEW m \in Nat, NEW nick, NEW type, NEW from
    PROVE  /\ IsFiniteSet(SameOf(c, m, nick, type, from))
           /\ Cardinality(SameOf(c, m, nick, type, from)) \in Nat
<1>1. IsFiniteSet(1 .. m)
  BY FS_Interval
<1>2. SameOf(c, m, nick, type, from) \subseteq 1 .. m
  BY DEF SameOf
<1>3. IsFiniteSet(SameOf(c, m, nick, type, from))
  BY <1>1, <1>2, FS_Subset
<1>4. QED
  BY <1>3, FS_CardinalityType

\* What came before a message does not change with it.
LEMMA SameKept ==
    ASSUME NEW c \in Seq(Message), NEW q \in Message, NEW m \in 0 .. Len(c), NEW nick, NEW type, NEW from
    PROVE  SameOf(Append(c, q), m, nick, type, from) = SameOf(c, m, nick, type, from)
<1> HIDE DEF Message
<1>1. \A k \in 1 .. m : Append(c, q)[k] = c[k]
  OBVIOUS
<1>2. QED
  BY <1>1, Zenon DEF SameOf

\* One more message, counted or not.
LEMMA SameAppend ==
    ASSUME NEW c \in Seq(Message), NEW q \in Message, NEW nick, NEW type, NEW from
    PROVE  /\ Cardinality(SameOf(Append(c, q), Len(c) + 1, nick, type, from))
                    >= Cardinality(SameOf(c, Len(c), nick, type, from))
           /\ q.nick = nick /\ q.type = type /\ q.at >= from
                  => Cardinality(SameOf(Append(c, q), Len(c) + 1, nick, type, from))
                         = Cardinality(SameOf(c, Len(c), nick, type, from)) + 1
<1> HIDE DEF Message
<1> DEFINE n == Len(c)
           a == Append(c, q)
           before == SameOf(c, n, nick, type, from)
           after == SameOf(a, n + 1, nick, type, from)
<1>1. /\ n \in Nat /\ n \in 0 .. n /\ n + 1 \in Nat /\ n + 1 \notin 1 .. n
      /\ \A k \in 1 .. n + 1 : k \in 1 .. n \/ k = n + 1
      /\ n + 1 \in 1 .. n + 1 /\ \A k \in 1 .. n : k \in 1 .. n + 1
  OBVIOUS
<1>2. a[n + 1] = q
  OBVIOUS
<1>3. SameOf(a, n, nick, type, from) = before
  BY <1>1, SameKept
<1> HIDE DEF n, a
<1>4. IsFiniteSet(before) /\ Cardinality(before) \in Nat
  BY <1>1, SameFinite
<1>5. n + 1 \notin before
  BY <1>1 DEF SameOf
<1> DEFINE M(k) == a[k].nick = nick /\ a[k].type = type /\ a[k].at >= from
<1>6. \A k : k \in after <=> k \in 1 .. n + 1 /\ M(k)
  BY Zenon DEF SameOf
<1>7. \A k : k \in SameOf(a, n, nick, type, from) <=> k \in 1 .. n /\ M(k)
  BY Zenon DEF SameOf
<1>8. M(n + 1) <=> q.nick = nick /\ q.type = type /\ q.at >= from
  BY <1>2, Zenon
<1> HIDE DEF M, before, after
<1>9. CASE q.nick = nick /\ q.type = type /\ q.at >= from
  <2>1. after = before \cup {n + 1}
    <3>1. \A k : k \in after <=> k \in SameOf(a, n, nick, type, from) \/ k = n + 1
      BY <1>1, <1>6, <1>7, <1>8, <1>9
    <3>2. QED
      BY <1>3, <3>1, Zenon
  <2>2. Cardinality(after) = Cardinality(before) + 1
    BY <1>4, <1>5, <2>1, FS_AddElement
  <2>3. QED
    BY <1>4, <2>2 DEF before, after, a, n
<1>10. CASE ~(q.nick = nick /\ q.type = type /\ q.at >= from)
  <2>1. after = before
    <3>1. \A k : k \in after <=> k \in SameOf(a, n, nick, type, from)
      BY <1>1, <1>6, <1>7, <1>8, <1>10
    <3>2. QED
      BY <1>3, <3>1, Zenon
  <2>2. Cardinality(after) >= Cardinality(before)
    BY <1>4, <2>1
  <2>3. QED
    BY <1>10, <2>2, Zenon DEF before, after, a, n
<1>11. QED
  BY <1>9, <1>10, Zenon

\* A slot with one more message.
LEMMA OneMore ==
    ASSUME NEW slot \in Flooding
    PROVE  /\ [slot EXCEPT !.cnt = @ + 1].cnt = slot.cnt + 1
           /\ [slot EXCEPT !.cnt = @ + 1].start = slot.start
<1> DEFINE N == FloodNicks \cup {""}
           T == FloodTypes \cup {""}
           S == 0 .. MaxNow
<1>1. slot \in [nick: N, type: T, cnt: Nat, start: S]
  BY Zenon DEF Flooding
<1> HIDE DEF N, T, S
<1>2. QED
  BY <1>1

\* A slot counts no more than came since it was started.
SlotHolds(slot, c, at) ==
    slot.nick \in FloodNicks =>
        /\ slot.start \in 1 .. at
        /\ slot.cnt <= Cardinality(SameOf(c, Len(c), slot.nick, slot.type, slot.start))

SlotsHold == \A i \in 1 .. Len(flood) : SlotHolds(flood[i], came, now)

\* Who came so fast until message m.
CameFast(c, m) ==
    c[m].flooding =>
        \E from \in 1 .. c[m].at :
            /\ Cardinality(SameOf(c, m, c[m].nick, c[m].type, from)) > floodEnv.after
            /\ Cardinality(SameOf(c, m, c[m].nick, c[m].type, from)) > floodEnv.rate * (c[m].at - from)

\* The property, in terms of the messages counted.
LEMMA FloodIs ==
    ASSUME FloodsKnown
    PROVE  FloodIsFlood <=> \A m \in 1 .. Len(came) : CameFast(came, m)
<1>1. DOMAIN came = 1 .. Len(came)
  <2>1. came \in Seq(Message)
    BY Zenon DEF FloodsKnown
  <2> HIDE DEF Message
  <2>2. QED
    BY <2>1
<1>2. QED
  BY <1>1, Zenon DEF FloodIsFlood, CameFast, SameOf

\* A slot goes on counting no more than came.
LEMMA SlotLater ==
    ASSUME NEW slot \in Flooding, NEW c \in Seq(Message), NEW q \in Message, NEW at \in Nat,
           SlotHolds(slot, c, at)
    PROVE  SlotHolds(slot, Append(c, q), at)
<1>1. slot.cnt \in Nat
  BY Zenon DEF Flooding
<1>2. Len(c) \in Nat /\ Len(Append(c, q)) = Len(c) + 1
  <2> HIDE DEF Message
  <2>1. QED
    OBVIOUS
<1>3. /\ Cardinality(SameOf(c, Len(c), slot.nick, slot.type, slot.start)) \in Nat
      /\ Cardinality(SameOf(Append(c, q), Len(c) + 1, slot.nick, slot.type, slot.start)) \in Nat
  BY <1>2, SameFinite
<1>4. Cardinality(SameOf(Append(c, q), Len(c) + 1, slot.nick, slot.type, slot.start))
          >= Cardinality(SameOf(c, Len(c), slot.nick, slot.type, slot.start))
  BY SameAppend
<1>5. SUFFICES ASSUME slot.nick \in FloodNicks
               PROVE  /\ slot.start \in 1 .. at
                      /\ slot.cnt <= Cardinality(SameOf(Append(c, q), Len(c) + 1, slot.nick, slot.type, slot.start))
  BY <1>2, Zenon DEF SlotHolds
<1>6. /\ slot.start \in 1 .. at
      /\ slot.cnt <= Cardinality(SameOf(c, Len(c), slot.nick, slot.type, slot.start))
  BY <1>5, Zenon DEF SlotHolds
<1>7. QED
  BY <1>1, <1>3, <1>4, <1>6

\* What is said of a message.
LEMMA SaidRight ==
    ASSUME FloodsKnown, SlotsHold, NEW nick \in FloodNicks, NEW type \in FloodTypes,
           NEW i, SaidFlooding(i, nick, type),
           NEW q \in Message, q.nick = nick, q.type = type, q.at = now
    PROVE  CameFast(Append(came, q), Len(came) + 1)
<1> DEFINE c == Append(came, q)
           n == Len(came)
           start == flood[i].start
           many == flood[i].cnt + 1
           before == Cardinality(SameOf(came, n, nick, type, start))
           after == Cardinality(SameOf(c, n + 1, nick, type, start))
<1>1. came \in Seq(Message) /\ now \in 1 .. MaxNow /\ flood \in Seq(Flooding)
      /\ floodEnv \in FloodSettings
  BY Zenon DEF FloodsKnown, FloodsTypeOK
<1>2. n \in Nat /\ c[n + 1] = q
  <2> HIDE DEF Message
  <2>1. QED
    BY <1>1
<1>3. i \in 1 .. Len(flood) /\ flood[i].nick = nick /\ flood[i].type = type
      /\ TooFast([flood[i] EXCEPT !.cnt = @ + 1])
  BY Zenon DEF SaidFlooding
<1>4. flood[i] \in Flooding
  <2> HIDE DEF Flooding
  <2>1. QED
    BY <1>1, <1>3
<1>5. start \in 1 .. now /\ flood[i].cnt <= before
  BY <1>3, Zenon DEF SlotsHold, SlotHolds
<1>6. flood[i].cnt \in Nat
  BY <1>4, Zenon DEF Flooding
<1>7. before \in Nat /\ after \in Nat
  BY <1>2, SameFinite
<1>8. after = before + 1
  <2>1. q.at >= start
    BY <1>1, <1>5
  <2>2. QED
    BY <1>1, <2>1, SameAppend
<1>9. /\ [flood[i] EXCEPT !.cnt = @ + 1].cnt = many
      /\ [flood[i] EXCEPT !.cnt = @ + 1].start = start
  BY <1>4, OneMore, Zenon
<1>10. many > floodEnv.after /\ (now - start = 0 \/ many \div (now - start) > floodEnv.rate)
  BY <1>3, <1>9, Zenon DEF TooFast
<1> DEFINE diff == now - start
<1>11. floodEnv.after \in Nat /\ floodEnv.rate \in Nat
  BY <1>1, FloodSettingIs
<1>12. diff \in Nat /\ many \in Nat
  BY <1>1, <1>5, <1>6, SMTT(30)
<1>13. many <= after
  BY <1>5, <1>6, <1>7, <1>8
<1>14. many > floodEnv.after /\ (diff = 0 \/ many \div diff > floodEnv.rate)
  BY <1>10
<1> HIDE DEF c, n, start, many, before, after, diff
<1>15. many > floodEnv.rate * diff
  <2>1. CASE diff = 0
    BY <1>11, <1>12, <1>14, <2>1
  <2>2. CASE diff # 0
    BY <1>11, <1>12, <1>14, <2>2, FasterThan
  <2>3. QED
    BY <2>1, <2>2
<1>16. floodEnv.rate * diff \in Nat
  BY <1>11, <1>12
<1>17. after > floodEnv.after /\ after > floodEnv.rate * diff
  BY <1>7, <1>11, <1>12, <1>13, <1>14, <1>15, <1>16
<1>18. /\ start \in 1 .. c[n + 1].at
       /\ Cardinality(SameOf(c, n + 1, c[n + 1].nick, c[n + 1].type, start)) > floodEnv.after
       /\ Cardinality(SameOf(c, n + 1, c[n + 1].nick, c[n + 1].type, start))
              > floodEnv.rate * (c[n + 1].at - start)
  BY <1>2, <1>5, <1>17, Zenon DEF after, diff
<1>19. CameFast(c, n + 1)
  BY <1>18, Zenon DEF CameFast
<1>20. QED
  BY <1>19 DEF c, n

FloodsRight == FloodsKnown /\ SlotsHold /\ \A m \in 1 .. Len(came) : CameFast(came, m)

\* Who is said to flood did, in every step.
LEMMA FloodsStep == FloodsRight /\ [FloodsNext]_floodsVars => FloodsRight'
<1> SUFFICES ASSUME FloodsRight, [FloodsNext]_floodsVars PROVE FloodsRight'
  OBVIOUS
<1>1. FloodsKnown /\ SlotsHold /\ \A m \in 1 .. Len(came) : CameFast(came, m)
  BY Zenon DEF FloodsRight
<1>2. FloodsKnown'
  BY <1>1, TypesStep
<1>3. /\ now \in 1 .. MaxNow /\ came \in Seq(Message) /\ flood \in Seq(Flooding)
      /\ floodEnv \in FloodSettings
      /\ now' \in 1 .. MaxNow /\ came' \in Seq(Message) /\ flood' \in Seq(Flooding)
  BY <1>1, <1>2, Zenon DEF FloodsKnown, FloodsTypeOK
<1>4. CASE now' \in {now, now + 1} /\ UNCHANGED <<flood, came, floodEnv>>
  <2>1. ASSUME NEW slot, SlotHolds(slot, came, now) PROVE SlotHolds(slot, came, now')
    <3>1. \A x : x \in 1 .. now => x \in 1 .. now'
      BY <1>3, <1>4
    <3>2. QED
      BY <2>1, <3>1, Zenon DEF SlotHolds
  <2>2. SlotsHold'
    BY <1>1, <1>4, <2>1, Zenon DEF SlotsHold
  <2>3. (\A m \in 1 .. Len(came) : CameFast(came, m))'
    BY <1>1, <1>4, Zenon DEF CameFast
  <2>4. QED
    BY <1>2, <2>2, <2>3, Zenon DEF FloodsRight
<1>5. CASE MessageArrives
  <2>1. PICK nick \in floodEnv.nicks, type \in FloodTypes, users \in floodEnv.users :
            CheckFlooding(nick, type, users)
    BY <1>5, Zenon DEF MessageArrives
  <2>2. nick \in FloodNicks /\ users \in 0 .. 3
    BY <1>3, FloodSettingIs, Zenon
  <2>3. UNCHANGED <<now, floodEnv>>
    BY <1>5, Zenon DEF MessageArrives
  <2>4. /\ \A i \in 1 .. Len(flood') : SlotAfter(i, nick, type)
        /\ \E fl \in BOOLEAN :
              /\ came' = Append(came, [nick |-> nick, type |-> type, at |-> now, flooding |-> fl])
              /\ fl => \E i \in 1 .. Len(flood) : SaidFlooding(i, nick, type)
    BY <1>1, <2>1, <2>2, MessageDoes, Zenon
  <2>5. PICK fl \in BOOLEAN :
              /\ came' = Append(came, [nick |-> nick, type |-> type, at |-> now, flooding |-> fl])
              /\ fl => \E i \in 1 .. Len(flood) : SaidFlooding(i, nick, type)
    BY <2>4, Zenon
  <2> DEFINE q == [nick |-> nick, type |-> type, at |-> now, flooding |-> fl]
             n == Len(came)
  <2>6. q \in Message
    BY <1>3, <2>2, Zenon DEF Message
  <2>7. q.nick = nick /\ q.type = type /\ q.at = now /\ q.flooding = fl /\ came' = Append(came, q)
    BY <2>5
  <2> HIDE DEF q, Message
  <2>8. /\ n \in Nat /\ n + 1 \in 1 .. n + 1 /\ Len(came') = n + 1 /\ came'[n + 1] = q
        /\ \A m \in 1 .. n + 1 : m = n + 1 \/ (m \in 1 .. n /\ m \in 0 .. n /\ came'[m] = came[m])
    BY <1>3, <2>6, <2>7
  <2>9. ASSUME NEW i \in 1 .. Len(flood') PROVE SlotHolds(flood'[i], came', now)
    <3>1. SlotAfter(i, nick, type)
      BY <2>4
    <3>2. flood'[i] \in Flooding
      <4> HIDE DEF Flooding
      <4>1. QED
        BY <1>3
    <3>3. CASE flood'[i].nick = ""
      <4>1. "" \notin FloodNicks
        BY Zenon DEF FloodNicks
      <4>2. QED
        BY <3>3, <4>1, Zenon DEF SlotHolds
    <3>4. CASE i \in 1 .. Len(flood) /\ flood'[i] = flood[i]
      <4>1. SlotHolds(flood[i], came, now)
        BY <1>1, <3>4, Zenon DEF SlotsHold
      <4>2. QED
        <5>1. now \in Nat
          BY <1>3
        <5>2. QED
          BY <1>3, <2>6, <2>7, <3>2, <3>4, <4>1, <5>1, SlotLater, Zenon
    <3>5. CASE /\ flood'[i].nick = nick /\ flood'[i].type = type
               /\ flood'[i].cnt = 1 /\ flood'[i].start = now
      <4>1. now >= now /\ now \in 1 .. now
        BY <1>3
      <4>2. /\ Cardinality(SameOf(Append(came, q), n + 1, nick, type, now))
                   = Cardinality(SameOf(came, n, nick, type, now)) + 1
        BY <1>3, <2>6, <2>7, <4>1, SameAppend DEF n
      <4>3. Cardinality(SameOf(came, n, nick, type, now)) \in Nat
        BY <2>8, SameFinite
      <4>4. 1 <= Cardinality(SameOf(came', n + 1, nick, type, now))
        BY <2>7, <4>2, <4>3
      <4>5. QED
        BY <2>8, <3>5, <4>1, <4>4, Zenon DEF SlotHolds
    <3>6. CASE /\ i \in 1 .. Len(flood)
               /\ flood[i].nick = nick /\ flood[i].type = type
               /\ flood'[i].nick = nick /\ flood'[i].type = type
               /\ flood'[i].cnt = flood[i].cnt + 1 /\ flood'[i].start = flood[i].start
      <4> DEFINE start == flood[i].start
      <4>1. /\ start \in 1 .. now
            /\ flood[i].cnt <= Cardinality(SameOf(came, n, nick, type, start))
        BY <1>1, <2>2, <3>6, Zenon DEF SlotsHold, SlotHolds, n
      <4>2. flood[i].cnt \in Nat
        <5>1. flood[i] \in Flooding
          <6> HIDE DEF Flooding
          <6>1. QED
            BY <1>3, <3>6
        <5>2. QED
          BY <5>1, Zenon DEF Flooding
      <4>3. q.at >= start
        BY <1>3, <2>7, <4>1
      <4>4. Cardinality(SameOf(Append(came, q), n + 1, nick, type, start))
                = Cardinality(SameOf(came, n, nick, type, start)) + 1
        BY <1>3, <2>6, <2>7, <4>3, SameAppend DEF n
      <4>5. Cardinality(SameOf(came, n, nick, type, start)) \in Nat
        BY <2>8, SameFinite
      <4>6. flood[i].cnt + 1 <= Cardinality(SameOf(came', n + 1, nick, type, start))
        <5> HIDE DEF start, n
        <5>1. QED
          BY <2>7, <4>1, <4>2, <4>4, <4>5
      <4>7. QED
        BY <2>8, <3>6, <4>1, <4>6, Zenon DEF SlotHolds
    <3>7. QED
      BY <3>1, <3>3, <3>4, <3>5, <3>6, Zenon DEF SlotAfter
  <2>10. SlotsHold'
    BY <2>3, <2>9, Zenon DEF SlotsHold
  <2>11. ASSUME NEW m \in 1 .. n + 1 PROVE CameFast(came', m)
    <3>1. CASE m = n + 1
      <4>1. CASE fl
        BY <1>1, <2>2, <2>5, <2>6, <2>7, <3>1, <4>1, SaidRight, Zenon DEF n
      <4>2. CASE ~fl
        BY <2>7, <2>8, <3>1, <4>2, Zenon DEF CameFast
      <4>3. QED
        BY <4>1, <4>2
    <3>2. CASE m \in 1 .. n /\ m \in 0 .. n /\ came'[m] = came[m]
      <4>1. CameFast(came, m)
        BY <1>1, <3>2 DEF n
      <4>2. \A nk, ty, from : SameOf(came', m, nk, ty, from) = SameOf(came, m, nk, ty, from)
        <5>1. \A nk, ty, from : SameOf(Append(came, q), m, nk, ty, from) = SameOf(came, m, nk, ty, from)
          <6>1. m \in 0 .. Len(came)
            BY <3>2 DEF n
          <6>2. ASSUME NEW nk, NEW ty, NEW from
                PROVE  SameOf(Append(came, q), m, nk, ty, from) = SameOf(came, m, nk, ty, from)
            <7> HIDE DEF Message, n
            <7>1. came \in Seq(Message)
              BY <1>3
            <7>2. QED
              BY <2>6, <6>1, <7>1, SameKept
          <6>3. QED
            BY <6>2
        <5>2. QED
          BY <2>7, <5>1, Zenon
      <4>3. QED
        BY <3>2, <4>1, <4>2, ZenonT(60) DEF CameFast
    <3>3. QED
      BY <2>8, <3>1, <3>2, Zenon
  <2>12. (\A m \in 1 .. Len(came) : CameFast(came, m))'
    <3>1. ASSUME NEW m \in 1 .. n + 1 PROVE CameFast(came, m)'
      BY <2>3, <2>11, Zenon DEF CameFast
    <3>2. QED
      BY <2>8, <3>1, Zenon
  <2>13. QED
    BY <1>2, <2>10, <2>12, Zenon DEF FloodsRight
<1>6. CASE UNCHANGED floodsVars
  BY <1>4, <1>6, Zenon DEF floodsVars
<1>7. CASE Second
  BY <1>4, <1>7, Zenon DEF Second
<1>8. CASE RequestArrives
  BY <1>4, <1>8, Zenon DEF RequestArrives
<1>9. CASE SetBacklogSeconds
  BY <1>4, <1>9, Zenon DEF SetBacklogSeconds
<1>10. CASE SetNoCtcpFlood
  BY <1>4, <1>10, Zenon DEF SetNoCtcpFlood
<1>11. QED
  BY <1>5, <1>6, <1>7, <1>8, <1>9, <1>10, Zenon DEF FloodsNext

\* And at the start.
LEMMA FloodsStart == FloodsInit => FloodsRight
<1> SUFFICES ASSUME FloodsInit PROVE FloodsRight
  OBVIOUS
<1>1. FloodsKnown
  BY TypesInit
<1>2. flood = <<>> /\ came = <<>>
  BY Zenon DEF FloodsInit
<1>3. Len(flood) = 0 /\ Len(came) = 0
  BY <1>2
<1>4. \A i \in 1 .. 0 : FALSE
  OBVIOUS
<1>5. QED
  BY <1>1, <1>3, <1>4, Zenon DEF FloodsRight, SlotsHold

-----------------------------------------------------------------------------
(* Which replies are sent.                                                 *)

\* The ring of the limit holds the bytes of each of the last seconds, the last one first.
RingHolds ==
    /\ backlogSeconds \in Nat \ {0} /\ Len(limit.sizes) = backlogSeconds
    /\ limit.last = 0 => Len(requests) = 0
    /\ \A i \in 1 .. backlogSeconds :
          limit.sizes[i] = BytesOf(requests, InSecond(requests, limit.last, i))

\* Requests have bytes and a time.
LEMMA RequestKnown ==
    ASSUME NEW r \in Seq(Request)
    PROVE  /\ Counts(r)
           /\ \A k \in 1 .. Len(r) : r[k].at \in 1 .. MaxNow /\ r[k].at \in Nat /\ r[k].at # 0
<1>1. \A k \in 1 .. Len(r) : r[k] \in Request
  <2> HIDE DEF Request
  <2>1. QED
    OBVIOUS
<1>2. \A q \in Request : q.at \in 1 .. MaxNow /\ q.bytes \in Nat
  BY Zenon DEF Request
<1>3. \A x \in 1 .. MaxNow : x \in Nat /\ x # 0
  OBVIOUS
<1>4. Len(r) \in Nat
  <2> HIDE DEF Request
  <2>1. QED
    OBVIOUS
<1>5. QED
  BY <1>1, <1>2, <1>3, <1>4, Zenon DEF Counts

\* Each second of the ring after a request: moved by as many as went by, with the bytes added.
LEMMA RingAfter ==
    ASSUME FloodsKnown, RingHolds, NEW q \in Request, q.at = now, NEW i \in 1 .. backlogSeconds
    PROVE  /\ Len(NewSizes(q.bytes)) = backlogSeconds
           /\ NewSizes(q.bytes)[i] =
                  BytesOf(Append(requests, q), InSecond(Append(requests, q), now, i))
<1> DEFINE a == Append(requests, q)
           n == Len(requests)
           last == limit.last
           delta == IF last = 0 THEN 0 ELSE now - last
           ks == InSecond(a, now, i)
           b == backlogSeconds
<1>1. /\ requests \in Seq(Request) /\ now \in 1 .. MaxNow /\ last <= now /\ limit \in CtcpFlood
      /\ \A k \in 1 .. n : requests[k].at <= last
  BY Zenon DEF FloodsKnown, FloodsTypeOK
<1>2. last \in 0 .. MaxNow /\ limit.sizes \in Seq(Nat)
  BY <1>1, Zenon DEF CtcpFlood
<1>3. q.bytes \in Nat
  BY Zenon DEF Request
<1>4. b \in Nat /\ b # 0 /\ Len(limit.sizes) = b /\ (last = 0 => n = 0)
      /\ \A j \in 1 .. b : limit.sizes[j] = BytesOf(requests, InSecond(requests, last, j))
  BY DEF RingHolds
<1>5. Counts(requests) /\ \A k \in 1 .. n : requests[k].at \in Nat /\ requests[k].at # 0
  BY <1>1, RequestKnown
<1>6. NewSizes(q.bytes) = [j \in 1 .. b |->
           (IF j > delta THEN limit.sizes[j - delta] ELSE 0) + (IF j = 1 THEN q.bytes ELSE 0)]
  <2>1. DOMAIN limit.sizes = 1 .. b
    BY <1>2, <1>4
  <2>2. QED
    BY <2>1, Zenon DEF NewSizes, Sizes
<1>7. Len(NewSizes(q.bytes)) = b
  BY <1>4, <1>6
<1>8. NewSizes(q.bytes)[i] =
           (IF i > delta THEN limit.sizes[i - delta] ELSE 0) + (IF i = 1 THEN q.bytes ELSE 0)
  BY <1>6
<1>9. /\ n \in Nat /\ Len(a) = n + 1 /\ a[n + 1] = q /\ n + 1 \in 1 .. n + 1
      /\ \A k \in 1 .. n : k \in 1 .. n + 1 /\ a[k] = requests[k]
  <2> HIDE DEF Request
  <2>1. QED
    BY <1>1
<1>10. BytesOf(a, ks) = BytesOf(requests, ks) + IF n + 1 \in ks THEN q.bytes ELSE 0
  <2> HIDE DEF ks, Request
  <2>1. QED
    BY <1>1, <1>3, <1>5, BytesAppend
<1>11. n + 1 \in ks <=> i = 1
  <2>1. n + 1 \in ks <=> n + 1 \in 1 .. n + 1 /\ q.at + i = now + 1
    <3> HIDE DEF a, n
    <3>1. QED
      BY <1>9 DEF InSecond
  <2>2. q.at + i = now + 1 <=> i = 1
    BY <1>1
  <2>3. QED
    BY <1>9, <2>1, <2>2
<1>12. \A k \in 1 .. n : k \in ks <=> requests[k].at + i = now + 1
  <2> HIDE DEF a, n
  <2>1. QED
    BY <1>9 DEF InSecond
<1> HIDE DEF ks, a
<1>13. BytesOf(requests, ks) = IF i > delta THEN limit.sizes[i - delta] ELSE 0
  <2>1. CASE i > delta
    <3>1. i - delta \in 1 .. b
      BY <1>1, <1>2, <1>4, <2>1
    <3>2. limit.sizes[i - delta] = BytesOf(requests, InSecond(requests, last, i - delta))
      BY <1>4, <3>1
    <3>3. \A k \in 1 .. n : k \in ks <=> k \in InSecond(requests, last, i - delta)
      <4>1. \A k \in 1 .. n : k \in InSecond(requests, last, i - delta)
                                  <=> requests[k].at + (i - delta) = last + 1
        BY DEF InSecond
      <4>2. \A k \in 1 .. n : requests[k].at + i = now + 1 <=> requests[k].at + (i - delta) = last + 1
        <5> SUFFICES ASSUME NEW k \in 1 .. n
                     PROVE  requests[k].at + i = now + 1 <=> requests[k].at + (i - delta) = last + 1
          OBVIOUS
        <5>1. last # 0 /\ delta = now - last
          BY <1>4, <1>9
        <5>2. PICK t \in Nat : t = requests[k].at
          BY <1>5
        <5>3. PICK e \in Int : e = delta /\ e = now - last
          BY <1>1, <1>2, <5>1
        <5>4. now \in Nat /\ last \in Nat /\ i \in Nat
          BY <1>1, <1>2, <1>4
        <5> HIDE DEF delta, last
        <5>5. t + i = now + 1 <=> t + (i - e) = last + 1
          BY <5>3, <5>4
        <5>6. QED
          BY <5>2, <5>3, <5>5
      <4>3. QED
        BY <1>12, <4>1, <4>2
    <3> HIDE DEF last, delta
    <3>4. BytesOf(requests, ks) = BytesOf(requests, InSecond(requests, last, i - delta))
      BY <1>5, <3>3, BytesSame
    <3>5. QED
      BY <2>1, <3>2, <3>4
  <2>2. CASE ~(i > delta)
    <3>1. ASSUME NEW k \in 1 .. n PROVE k \notin ks
      <4>1. last # 0 /\ delta = now - last
        BY <1>4, <1>9
      <4>2. PICK t \in Nat : t = requests[k].at /\ t <= last
        BY <1>1, <1>5
      <4>3. PICK e \in Int : e = delta /\ e = now - last
        BY <1>1, <1>2, <4>1
      <4>4. now \in Nat /\ last \in Nat /\ i \in Nat /\ ~(i > e)
        BY <1>1, <1>2, <1>4, <2>2, <4>3
      <4> HIDE DEF delta, last
      <4>5. t + i # now + 1
        BY <4>2, <4>3, <4>4
      <4>6. QED
        BY <1>12, <4>2, <4>5
    <3>2. BytesOf(requests, ks) = 0
      BY <1>5, <3>1, BytesNone
    <3>3. QED
      BY <2>2, <3>2
  <2>3. QED
    BY <2>1, <2>2
<1>14. QED
  BY <1>7, <1>8, <1>10, <1>11, <1>13 DEF ks, a

\* As much was asked for when request j came as the limit is.
Over(r, j) == BytesOf(r, Window(r, j, backlogSeconds)) >= floodEnv.size

\* What the ring says is over is what came.
LEMMA OverNow ==
    ASSUME FloodsKnown, RingHolds, NEW q \in Request, q.at = now
    PROVE  Flooded(NewSizes(q.bytes)) <=> Over(Append(requests, q), Len(requests) + 1)
<1> DEFINE a == Append(requests, q)
           n == Len(requests)
           b == backlogSeconds
           s == NewSizes(q.bytes)
<1>1. /\ requests \in Seq(Request) /\ now \in 1 .. MaxNow /\ now \in Nat
      /\ limit.last <= now /\ limit \in CtcpFlood
      /\ \A k \in 1 .. n : requests[k].at <= limit.last
  <2>1. now \in 1 .. MaxNow
    BY Zenon DEF FloodsKnown, FloodsTypeOK
  <2>2. now \in Nat
    BY <2>1
  <2>3. QED
    BY <2>1, <2>2, Zenon DEF FloodsKnown, FloodsTypeOK
<1>2. limit.last \in Nat
  <2>1. limit.last \in 0 .. MaxNow
    BY <1>1, Zenon DEF CtcpFlood
  <2>2. QED
    BY <2>1
<1>3. b \in Nat \ {0}
  BY DEF RingHolds
<1>4. /\ n \in Nat /\ Len(a) = n + 1 /\ a[n + 1] = q /\ n + 1 \in 1 .. n + 1
      /\ \A k \in 1 .. n : k \in 1 .. n + 1 /\ a[k] = requests[k]
      /\ \A k \in 1 .. n + 1 : k = n + 1 \/ k \in 1 .. n
      /\ a \in Seq(Request)
  <2> HIDE DEF Request
  <2>1. QED
    BY <1>1
<1>5. Counts(a)
  BY <1>4, RequestKnown
<1>6. \A k \in 1 .. n : requests[k].at \in Nat
  BY <1>1, RequestKnown
<1> HIDE DEF a, n
<1>7. Times(a, now)
  <2>1. \A k \in 1 .. n : requests[k].at <= now
    BY <1>1, <1>2, <1>6
  <2>2. now <= now
    BY <1>1
  <2>3. QED
    BY <1>1, <1>4, <1>6, <2>1, <2>2 DEF Times
<1>8. \A i \in 1 .. b : s[i] = BytesOf(a, InSecond(a, now, i))
  BY RingAfter, Zenon DEF a
<1>9. Len(s) = b
  <2>1. 1 \in 1 .. b
    BY <1>3
  <2>2. QED
    BY <2>1, RingAfter, Zenon
<1>10. \A i \in 1 .. Len(s) : s[i] \in Nat
  BY <1>5, <1>8, <1>9, BytesNat
<1> HIDE DEF s
<1>11. TotalOf(s, b) = Total(b, s)
  <2>1. Upto(s, b) = b
    BY <1>3, <1>9 DEF Upto
  <2>2. QED
    BY <1>3, <1>9, <1>10, <2>1, TotalOfIs
<1>12. Total(b, s) = BytesOf(a, Since(a, now, b))
  BY <1>3, <1>5, <1>7, <1>8, RingHoldsWindow
<1>13. Since(a, now, b) = Window(a, n + 1, b)
  BY <1>4, Zenon DEF Since, Window
<1>14. Flooded(s) <=> BytesOf(a, Window(a, n + 1, b)) >= floodEnv.size
  BY <1>11, <1>12, <1>13, Zenon DEF Flooded, b
<1>15. QED
  BY <1>14, Zenon DEF Over, a, n, s, b

\* What came later does not change what was over before.
LEMMA OverKept ==
    ASSUME NEW r \in Seq(Request), NEW q \in Request, NEW j \in 1 .. Len(r)
    PROVE  Over(Append(r, q), j) <=> Over(r, j)
<1> DEFINE a == Append(r, q)
           n == Len(r)
<1>1. /\ n \in Nat /\ Len(a) = n + 1
      /\ \A k \in 1 .. n : a[k] = r[k]
      /\ \A k \in 1 .. j : k \in 1 .. n
      /\ n + 1 \notin 1 .. j
      /\ a[j] = r[j]
  <2> HIDE DEF Request
  <2>1. QED
    OBVIOUS
<1>2. Counts(r)
  BY RequestKnown
<1>3. q.bytes \in Nat
  BY Zenon DEF Request
<1> DEFINE ks == Window(a, j, backlogSeconds)
<1>4. ks = Window(r, j, backlogSeconds)
  <2> DEFINE b == backlogSeconds
  <2>1. \A k : k \in Window(a, j, b) <=> k \in 1 .. j /\ a[k].at + b > a[j].at
    BY Zenon DEF Window
  <2>2. \A k : k \in Window(r, j, b) <=> k \in 1 .. j /\ r[k].at + b > r[j].at
    BY Zenon DEF Window
  <2> HIDE DEF a, n, b
  <2>3. \A k : k \in Window(a, j, b) <=> k \in Window(r, j, b)
    BY <1>1, <2>1, <2>2
  <2>4. Window(a, j, b) = Window(r, j, b)
    BY <2>3, Zenon
  <2>5. QED
    BY <2>4 DEF b
<1>5. n + 1 \notin ks
  BY <1>1, Zenon DEF Window
<1> HIDE DEF ks
<1>6. BytesOf(a, ks) = BytesOf(r, ks) + IF n + 1 \in ks THEN q.bytes ELSE 0
  <2> HIDE DEF Request
  <2>1. QED
    BY <1>2, <1>3, BytesAppend
<1>7. BytesOf(r, ks) \in Nat
  BY <1>2, BytesNat
<1>8. BytesOf(a, ks) = BytesOf(r, ks)
  <2> HIDE DEF a, n
  <2>1. QED
    BY <1>5, <1>6, <1>7
<1>9. QED
  BY <1>4, <1>8, Zenon DEF Over, ks

\* A reply is sent when no time near enough was asked for so much.
Right(r, k) ==
    r[k].sent <=> \A j \in 1 .. k : Over(r, j) => r[k].at > r[j].at + floodEnv.suspend

\* What is known of who asked for too much from when the last of them did.
FloodedHolds ==
    LET n == Len(requests) IN
    /\ limit.flooded = 0 => \A j \in 1 .. n :
           Over(requests, j) => requests[j].at + floodEnv.suspend < limit.last
    /\ limit.flooded # 0 => \E j \in 1 .. n :
           Over(requests, j) /\ requests[j].at = limit.flooded
    /\ limit.flooded # 0 => \A j \in 1 .. n :
           Over(requests, j) => requests[j].at <= limit.flooded

LimitRight ==
    /\ ~changed => RingHolds
    /\ ~changed /\ noFlood => FloodedHolds /\ \A k \in 1 .. Len(requests) : Right(requests, k)

\* A request is replied to if and only if nothing near enough was over.
LEMMA RequestRight ==
    ASSUME FloodsKnown, FloodsKnown', LimitRight, RequestArrives
    PROVE  LimitRight'
<1>1. PICK bytes \in floodEnv.bytes : Reply(bytes)
  BY Zenon DEF RequestArrives
<1> DEFINE flooded == IF Flooded(NewSizes(bytes)) THEN now ELSE limit.flooded
           noReply == flooded # 0 /\ now <= flooded + floodEnv.suspend
           sends == ~noFlood \/ ~noReply
           q == [at |-> now, bytes |-> bytes, sent |-> sends]
           n == Len(requests)
           a == Append(requests, q)
           suspend == floodEnv.suspend
<1>2. /\ limit' = [last |-> now, flooded |-> IF sends THEN 0 ELSE flooded, sizes |-> NewSizes(bytes)]
      /\ requests' = a
  BY <1>1, Zenon DEF Reply, NewSizes
<1>3. UNCHANGED <<now, backlogSeconds, noFlood, changed, floodEnv>>
  BY Zenon DEF RequestArrives
<1>4. /\ now \in 1 .. MaxNow /\ limit \in CtcpFlood /\ requests \in Seq(Request)
      /\ limit.last <= now /\ floodEnv \in FloodSettings
      /\ \A k \in 1 .. n : requests[k].at <= limit.last
  BY Zenon DEF FloodsKnown, FloodsTypeOK
<1>5. now \in Nat /\ now # 0
  BY <1>4
<1>6. limit.last \in Nat /\ limit.flooded \in Nat
  <2>1. limit.last \in 0 .. MaxNow /\ limit.flooded \in 0 .. MaxNow
    BY <1>4, Zenon DEF CtcpFlood
  <2>2. QED
    BY <2>1
<1>7. suspend \in Nat /\ bytes \in Nat
  BY <1>4, FloodSettingIs
<1>8. q \in Request /\ q.at = now /\ q.bytes = bytes /\ q.sent = sends
  <2>1. sends \in BOOLEAN
    OBVIOUS
  <2> HIDE DEF sends
  <2>2. q \in Request
    BY <1>4, <1>7, <2>1, Zenon DEF Request
  <2>3. QED
    BY <2>2
<1>9. /\ limit'.last = now /\ limit'.sizes = NewSizes(bytes)
      /\ limit'.flooded = IF sends THEN 0 ELSE flooded
  <2> HIDE DEF sends, flooded
  <2>1. QED
    BY <1>2
<1> HIDE DEF q
<1>10. /\ n \in Nat /\ Len(a) = n + 1 /\ a[n + 1] = q /\ n + 1 \in 1 .. n + 1
       /\ \A k \in 1 .. n : k \in 1 .. n + 1 /\ a[k] = requests[k]
       /\ \A k \in 1 .. n + 1 : k = n + 1 \/ k \in 1 .. n
       /\ \A k \in 1 .. n : \A j \in 1 .. k : j \in 1 .. n
  <2> HIDE DEF Request
  <2>1. QED
    BY <1>4, <1>8
<1>11. \A k \in 1 .. n : requests[k].at \in Nat /\ requests[k].at <= now
  BY <1>4, <1>5, <1>6, RequestKnown
<1> HIDE DEF a
<1>12. ~changed => RingHolds'
  <2> SUFFICES ASSUME ~changed PROVE RingHolds'
    OBVIOUS
  <2>1. RingHolds
    BY Zenon DEF LimitRight
  <2>2. backlogSeconds \in Nat \ {0} /\ 1 \in 1 .. backlogSeconds
    BY <2>1 DEF RingHolds
  <2>3. Len(NewSizes(bytes)) = backlogSeconds
    BY <1>8, <2>1, <2>2, RingAfter, Zenon
  <2>4. \A i \in 1 .. backlogSeconds : NewSizes(bytes)[i] = BytesOf(a, InSecond(a, now, i))
    BY <1>8, <2>1, RingAfter, Zenon DEF a
  <2>5. QED
    BY <1>2, <1>3, <1>5, <1>9, <2>2, <2>3, <2>4, Zenon DEF RingHolds
<1>13. ASSUME ~changed, noFlood
       PROVE  FloodedHolds' /\ \A k \in 1 .. n + 1 : Right(a, k)
  <2>1. RingHolds /\ FloodedHolds /\ \A k \in 1 .. n : Right(requests, k)
    BY <1>13, Zenon DEF LimitRight
  <2>2. Flooded(NewSizes(bytes)) <=> Over(a, n + 1)
    BY <1>8, <2>1, OverNow, Zenon DEF a, n
  <2>3. \A j \in 1 .. n : Over(a, j) <=> Over(requests, j)
    BY <1>4, <1>8, OverKept, Zenon DEF a, n
  <2>4. /\ limit.flooded = 0 => \A j \in 1 .. n : Over(requests, j) => requests[j].at + suspend < limit.last
        /\ limit.flooded # 0 => \E j \in 1 .. n : Over(requests, j) /\ requests[j].at = limit.flooded
        /\ limit.flooded # 0 => \A j \in 1 .. n : Over(requests, j) => requests[j].at <= limit.flooded
    BY <2>1, Zenon DEF FloodedHolds
  <2>5. /\ Len(requests') = n + 1
        /\ \A j \in 1 .. n + 1 : Over(requests, j)' <=> Over(a, j)
    BY <1>2, <1>3, <1>10, Zenon DEF Over
  <2>6. ASSUME limit'.flooded = 0 => \A j \in 1 .. n + 1 : Over(a, j) => a[j].at + suspend < now,
               limit'.flooded # 0 => \E j \in 1 .. n + 1 : Over(a, j) /\ a[j].at = limit'.flooded,
               limit'.flooded # 0 => \A j \in 1 .. n + 1 : Over(a, j) => a[j].at <= limit'.flooded
        PROVE  FloodedHolds'
    BY <1>2, <1>3, <1>9, <2>5, <2>6, Zenon DEF FloodedHolds
  <2>7. \A k \in 1 .. n : Right(a, k)
    BY <1>10, <2>1, <2>3, Zenon DEF Right
  <2>8. sends <=> ~(flooded # 0 /\ now <= flooded + suspend)
    BY <1>13
  <2> HIDE DEF sends, n
  <2>9. CASE Over(a, n + 1)
    <3>1. flooded = now
      BY <2>2, <2>9
    <3>2. ~sends /\ limit'.flooded = now
      <4>1. now <= now + suspend
        BY <1>5, <1>7
      <4>2. QED
        BY <1>5, <1>9, <2>8, <3>1, <4>1
    <3>3. \A j \in 1 .. n + 1 : a[j].at <= now
      <4>1. now <= now
        BY <1>5
      <4>2. QED
        BY <1>8, <1>10, <1>11, <4>1
    <3>4. /\ limit'.flooded # 0
          /\ \E j \in 1 .. n + 1 : Over(a, j) /\ a[j].at = limit'.flooded
          /\ \A j \in 1 .. n + 1 : Over(a, j) => a[j].at <= limit'.flooded
      BY <1>5, <1>8, <1>10, <2>9, <3>2, <3>3, Zenon
    <3>5. a[n + 1].sent = sends /\ ~(a[n + 1].at > a[n + 1].at + suspend)
      BY <1>5, <1>7, <1>8, <1>10
    <3>6. Right(a, n + 1)
      BY <1>10, <2>9, <3>2, <3>5, Zenon DEF Right, suspend
    <3>7. QED
      BY <1>10, <2>6, <2>7, <3>4, <3>6, Zenon
  <2>10. CASE ~Over(a, n + 1)
    <3>1. flooded = limit.flooded
      BY <2>2, <2>10
    <3>2. \A j \in 1 .. n + 1 : Over(a, j) => j \in 1 .. n /\ Over(requests, j) /\ a[j] = requests[j]
      BY <1>10, <2>3, <2>10, Zenon
    <3>3. CASE sends
      <4>1. limit'.flooded = 0
        BY <1>9, <3>3
      <4>2. ASSUME NEW j \in 1 .. n, Over(requests, j) PROVE requests[j].at + suspend < now
        <5>1. CASE limit.flooded = 0
          <6>1. requests[j].at + suspend < limit.last
            BY <2>4, <4>2, <5>1
          <6>2. QED
            BY <1>4, <1>5, <1>6, <1>7, <1>11, <6>1
        <5>2. CASE limit.flooded # 0
          <6>1. requests[j].at <= limit.flooded
            BY <2>4, <4>2, <5>2
          <6>2. ~(now <= limit.flooded + suspend)
            BY <2>8, <3>1, <3>3, <5>2
          <6>3. QED
            BY <1>5, <1>6, <1>7, <1>11, <6>1, <6>2
        <5>3. QED
          BY <5>1, <5>2
      <4>3. \A j \in 1 .. n + 1 : Over(a, j) => a[j].at + suspend < now
        BY <3>2, <4>2, Zenon
      <4>4. \A j \in 1 .. n + 1 : Over(a, j) => a[n + 1].at > a[j].at + suspend
        <5> SUFFICES ASSUME NEW j \in 1 .. n + 1, Over(a, j) PROVE a[n + 1].at > a[j].at + suspend
          OBVIOUS
        <5>1. a[j].at + suspend < now
          BY <4>3
        <5>2. a[j].at \in Nat
          BY <1>11, <3>2
        <5>3. a[n + 1].at = now
          BY <1>8, <1>10
        <5>4. QED
          BY <1>5, <1>7, <5>1, <5>2, <5>3
      <4>5. a[n + 1].sent = sends
        BY <1>8, <1>10, Zenon
      <4>6. Right(a, n + 1)
        BY <3>3, <4>4, <4>5, Zenon DEF Right, suspend
      <4>7. FloodedHolds'
        BY <2>6, <4>1, <4>3, Zenon
      <4>8. QED
        BY <1>10, <2>7, <4>6, <4>7, Zenon
    <3>4. CASE ~sends
      <4>1. /\ limit'.flooded = limit.flooded /\ limit.flooded # 0
            /\ now <= limit.flooded + suspend
        BY <1>9, <2>8, <3>1, <3>4
      <4>2. PICK j \in 1 .. n : Over(requests, j) /\ requests[j].at = limit.flooded
        BY <2>4, <4>1
      <4>3. j \in 1 .. n + 1 /\ Over(a, j) /\ a[j].at = limit.flooded
        BY <1>10, <2>3, <4>2, Zenon
      <4>4. \A i \in 1 .. n + 1 : Over(a, i) => a[i].at <= limit.flooded
        BY <2>4, <3>2, <4>1, Zenon
      <4>5. ~(a[n + 1].at > a[j].at + suspend)
        <5>1. a[n + 1].at = now
          BY <1>8, <1>10
        <5>2. QED
          BY <1>5, <1>6, <1>7, <4>1, <4>3, <5>1
      <4>6. a[n + 1].sent = sends
        BY <1>8, <1>10, Zenon
      <4>7. Right(a, n + 1)
        BY <3>4, <4>3, <4>5, <4>6, Zenon DEF Right, suspend
      <4>8. FloodedHolds'
        BY <2>6, <4>1, <4>3, <4>4, Zenon
      <4>9. QED
        BY <1>10, <2>7, <4>7, <4>8, Zenon
    <3>5. QED
      BY <3>3, <3>4
  <2>11. QED
    BY <2>9, <2>10
<1>14. Len(requests') = n + 1
  BY <1>2, <1>10
<1>15. \A k \in 1 .. n + 1 : Right(requests, k)' <=> Right(a, k)
  BY <1>2, <1>3, Zenon DEF Right, Over
<1>16. QED
  BY <1>3, <1>12, <1>13, <1>14, <1>15, Zenon DEF LimitRight

\* The ring is right at the start.
LEMMA LimitStart == FloodsInit => LimitRight
<1> SUFFICES ASSUME FloodsInit PROVE LimitRight
  OBVIOUS
<1>1. requests = <<>> /\ backlogSeconds \in floodEnv.backlogs \ {0} /\ floodEnv \in FloodSettings
      /\ limit = NewFlood(backlogSeconds)
  BY Zenon DEF FloodsInit
<1>2. backlogSeconds \in Nat \ {0}
  BY <1>1, FloodSettingIs
<1>3. Len(requests) = 0 /\ Counts(requests)
  BY <1>1 DEF Counts
<1>4. /\ limit.last = 0 /\ limit.flooded = 0
      /\ limit.sizes = [i \in 1 .. backlogSeconds |-> 0]
  BY <1>1 DEF NewFlood
<1>5. Len(limit.sizes) = backlogSeconds /\ \A i \in 1 .. backlogSeconds : limit.sizes[i] = 0
  BY <1>2, <1>4
<1>6. ASSUME NEW ks PROVE BytesOf(requests, ks) = 0
  <2>1. \A i \in 1 .. Len(requests) : i \notin ks
    BY <1>3
  <2>2. QED
    BY <1>3, <2>1, BytesNone
<1>7. RingHolds
  BY <1>2, <1>3, <1>5, <1>6, Zenon DEF RingHolds
<1>8. \A k \in 1 .. 0 : FALSE
  OBVIOUS
<1>9. FloodedHolds /\ \A k \in 1 .. Len(requests) : Right(requests, k)
  BY <1>3, <1>4, <1>8, Zenon DEF FloodedHolds
<1>10. QED
  BY <1>7, <1>9, Zenon DEF LimitRight

\* And stays so.
LEMMA LimitStep ==
    ASSUME FloodsKnown, FloodsKnown', LimitRight, [FloodsNext]_floodsVars
    PROVE  LimitRight'
<1>1. ASSUME UNCHANGED <<limit, backlogSeconds, noFlood, requests, changed, floodEnv>>
      PROVE  LimitRight'
  <2>1. RingHolds' <=> RingHolds
    BY <1>1, Zenon DEF RingHolds
  <2>2. FloodedHolds' <=> FloodedHolds
    BY <1>1, Zenon DEF FloodedHolds, Over
  <2>3. (\A k \in 1 .. Len(requests) : Right(requests, k))'
             <=> \A k \in 1 .. Len(requests) : Right(requests, k)
    BY <1>1, Zenon DEF Right, Over
  <2>4. QED
    BY <1>1, <2>1, <2>2, <2>3, Zenon DEF LimitRight
<1>2. CASE Second
  BY <1>1, <1>2, Zenon DEF Second
<1>3. CASE MessageArrives
  BY <1>1, <1>3, Zenon DEF MessageArrives
<1>4. CASE RequestArrives
  BY <1>4, RequestRight
<1>5. CASE SetBacklogSeconds
  BY <1>5, Zenon DEF SetBacklogSeconds, LimitRight
<1>6. CASE SetNoCtcpFlood
  BY <1>6, Zenon DEF SetNoCtcpFlood, LimitRight
<1>7. CASE UNCHANGED floodsVars
  BY <1>1, <1>7, Zenon DEF floodsVars
<1>8. QED
  BY <1>2, <1>3, <1>4, <1>5, <1>6, <1>7, Zenon DEF FloodsNext

\* The property, from what is known of the requests.
LEMMA RepliesAre ==
    ASSUME FloodsKnown, LimitRight
    PROVE  RepliesAreLimited
<1>1. requests \in Seq(Request)
  BY Zenon DEF FloodsKnown
<1>2. DOMAIN requests = 1 .. Len(requests)
  <2> HIDE DEF Request
  <2>1. QED
    BY <1>1
<1>3. Counts(requests)
  BY <1>1, RequestKnown
<1>4. \A ks : Bytes(ks) = BytesOf(requests, ks)
  BY <1>3, BytesAre
<1>5. noFlood /\ ~changed => \A k \in 1 .. Len(requests) : Right(requests, k)
  BY Zenon DEF LimitRight
<1>6. ASSUME NEW k \in 1 .. Len(requests), noFlood, ~changed
      PROVE  requests[k].sent <=>
                 \A j \in 1 .. k :
                     Bytes({i \in 1 .. j : requests[i].at + backlogSeconds > requests[j].at}) >= floodEnv.size
                         => requests[k].at > requests[j].at + floodEnv.suspend
  BY <1>4, <1>5, <1>6, Zenon DEF Right, Over, Window
<1>7. QED
  BY <1>2, <1>6, Zenon DEF RepliesAreLimited

-----------------------------------------------------------------------------

\* Both limits count what came, and only that: of whom a flood is said, that many messages came
\* that fast, and while the limit on replies is on and its window not resized, a reply is sent if
\* and only if no time near enough was asked for too much, whatever slots and rings were used
\* again (check_flooding() in flood.c, the end of do_ctcp() in ctcp.c).
THEOREM FloodsAreRight == FloodsSpec => []FloodsCounted
<1>1. FloodsInit => FloodsRight /\ LimitRight
  BY FloodsStart, LimitStart
<1>2. FloodsRight /\ LimitRight /\ [FloodsNext]_floodsVars => FloodsRight' /\ LimitRight'
  <2> SUFFICES ASSUME FloodsRight, LimitRight, [FloodsNext]_floodsVars
               PROVE  FloodsRight' /\ LimitRight'
    OBVIOUS
  <2>1. FloodsRight'
    BY FloodsStep
  <2>2. FloodsKnown /\ FloodsKnown'
    BY <2>1, Zenon DEF FloodsRight
  <2>3. QED
    BY <2>1, <2>2, LimitStep
<1>3. FloodsRight /\ LimitRight => FloodsCounted
  <2> SUFFICES ASSUME FloodsRight, LimitRight PROVE FloodsCounted
    OBVIOUS
  <2>1. FloodsKnown /\ \A m \in 1 .. Len(came) : CameFast(came, m)
    BY Zenon DEF FloodsRight
  <2>2. FloodIsFlood
    BY <2>1, FloodIs
  <2>3. RepliesAreLimited
    BY <2>1, RepliesAre
  <2>4. QED
    BY <2>2, <2>3 DEF FloodsCounted
<1>4. QED
  BY <1>1, <1>2, <1>3, PTL DEF FloodsSpec

-----------------------------------------------------------------------------
(* Login: the definitions of the invariant.                                *)

\* What is on its way, in both directions.
ClientLine ==
    [cmd: {"PASS", "USER"}] \cup [cmd: {"NICK"}, nick: Nicknames]
    \cup [cmd: {"MODE"}, on: SUBSET UserModes, off: SUBSET UserModes]
    \cup [cmd: {"AWAY"}, text: Away] \cup [cmd: {"OPER"}, right: BOOLEAN]
ServerLine ==
    [num: {"002", "376", "433", "451", "464", "381", "385"}] \cup [num: {"001"}, nick: Nicknames]
    \cup [num: {"NICK"}, from: Nicknames, to: Nicknames]
    \cup [num: {"MODE"}, on: SUBSET UserModes, off: SUBSET UserModes]

Has(q, cmd) == \E i \in DOMAIN q : q[i].cmd = cmd
Says(f, num) == \E i \in DOMAIN f : f[i].num = num

\* A line that is about mode m, and whether it says that we have it.
Touches(l, m) == (l.num = "MODE" /\ m \in l.on \cup l.off) \/ (l.num \in {"381", "385"} /\ m = "o")
Gives(l, m) == (l.num = "MODE" /\ m \in l.on \ l.off) \/ (l.num = "381" /\ m = "o")

\* The last line on its way that is about a mode says what the server has; without one the client
\* has it already.
ModesFollow(f, flags, modes) ==
    \A m \in UserModes :
        /\ (\A i \in DOMAIN f : ~Touches(f[i], m)) => (m \in flags <=> m \in modes)
        /\ \A i \in DOMAIN f :
               Touches(f[i], m) /\ (\A j \in DOMAIN f : j > i => ~Touches(f[j], m)) => (Gives(f[i], m) <=> m \in modes)

NewName(l) == IF l.num = "001" THEN l.nick ELSE l.to

\* Where a name leads: it is what the server calls us, or a line on its way takes us further.
Leads(f, k, nick, name) == nick = name \/ \E j \in DOMAIN f : j >= k /\ f[j].num = "NICK" /\ f[j].from = nick

\* Once the server has let us in and we have heard of it, what we think we are called is what it
\* calls us, or was before a change we shall hear of, or will be when it takes a line of ours.
NickFollows(f, q, nick, name) ==
    /\ \A i \in DOMAIN f : f[i].num \in {"001", "NICK"} => Leads(f, i + 1, NewName(f[i]), name)
    /\ Says(f, "001") \/ Leads(f, 1, nick, name)
       \/ \E i \in DOMAIN q : q[i].cmd = "NICK" /\ q[i].nick = nick /\ nick \notin Taken

\* The last line on its way about our absence says what the client has.
SaysAway(q, away) ==
    \A i \in DOMAIN q :
        q[i].cmd = "AWAY" /\ (\A j \in DOMAIN q : j > i => q[j].cmd # "AWAY") => q[i].text = away

\* Without one, the server has it already, or will be told when the client hears it was let in.
AwayFollows(f, q, away, there, registered) ==
    /\ SaysAway(q, away)
    /\ registered /\ ~Has(q, "AWAY") => there = away \/ (away # "" /\ Says(f, "002"))

\* Who has not been let in has something to come that decides it.
Pending(p, q, f) ==
    /\ ~p.user => Has(q, "USER")
    /\ p.user /\ p.nick # NoNick => Says(f, "464")

\* A connection, for what the client and the server have of it.
Session(e, p, q, f, secret) ==
    /\ ~e.up => q = <<>> /\ f = <<>> /\ p = Stranger /\ e.flags = {} /\ ~e.connected
    /\ e.up => e.nickname # NoNick /\ (e.connected \/ e.attempting)
    /\ e.connected => p.registered
    /\ p.registered => p.nick # NoNick
    /\ ModesFollow(f, e.flags, p.modes)
    /\ p.registered => NickFollows(f, q, e.nickname, p.nick)
    /\ AwayFollows(f, q, e.away, p.away, p.registered)
    /\ ~p.registered => /\ p.away = "" /\ \A i \in DOMAIN f : f[i].num \in {"433", "451", "464"}
                        /\ Says(f, "464") => secret /\ ~p.pass /\ p.user
                        /\ e.up => Pending(p, q, f)
    /\ \A i \in DOMAIN q : q[i].cmd = "PASS" => i = 1 /\ ~p.user
    /\ e.up /\ e.operCommand => e.connected
    /\ Has(q, "OPER") \/ (p.registered /\ Says(f, "464")) => e.operCommand

LoggingIn(s) == entries[s].up /\ ~entries[s].connected

\* The prompts: the server is one at a time, the one that lets us in if there is any; oper's is
\* the first.
Prompts ==
    /\ \A s, t \in LoginServers : LoggingIn(s) /\ LoggingIn(t) => s = t
    /\ \A i, j \in DOMAIN asking : asking[i].for # "oper" /\ asking[j].for # "oper" => asking[i].server = asking[j].server
    /\ \A i \in DOMAIN asking, s \in LoginServers : asking[i].for # "oper" /\ LoggingIn(s) => asking[i].server = s
    /\ resetting => \E i \in DOMAIN asking : asking[i].for = "nick"
    /\ \A i \in DOMAIN asking : asking[i].for = "oper" =>
          i = 1 /\ asking[i].server = window /\ entries[window].operCommand

NickPrompt(s) == \E i \in DOMAIN asking : asking[i].for = "nick" /\ asking[i].server = s

\* Who is asked for a nickname, or has one on the way, or will be, unless the user declined.
NickAsked(s) ==
    entries[s].up /\ ~peers[s].registered /\ peers[s].nick = NoNick /\ ~peers[s].declined =>
        Has(toServer[s], "NICK") \/ Says(fromServer[s], "433") \/ NickPrompt(s)

LoginTypes ==
    /\ entries \in [LoginServers -> LoginEntry] /\ peers \in [LoginServers -> Peer]
    /\ toServer \in [LoginServers -> Seq(ClientLine)] /\ fromServer \in [LoginServers -> Seq(ServerLine)]
    /\ asking \in Seq(Prompt) /\ resetting \in BOOLEAN /\ mine \in Nicknames
    /\ window \in LoginServers /\ loginEnv \in LoginSettings

Sessions == \A s \in LoginServers : Session(entries[s], peers[s], toServer[s], fromServer[s], loginEnv.secret)

LoginInv == LoginTypes /\ Sessions /\ Prompts /\ \A s \in LoginServers : NickAsked(s)

-----------------------------------------------------------------------------
(* Lines.                                                                  *)

\* What each kind of line from the server carries.
LEMMA ServerLineParts ==
    ASSUME NEW l \in ServerLine
    PROVE  /\ l.num \in {"001", "002", "376", "433", "451", "464", "381", "385", "NICK", "MODE"}
           /\ l.num = "001" => l.nick \in Nicknames
           /\ l.num = "NICK" => l.from \in Nicknames /\ l.to \in Nicknames
           /\ l.num = "MODE" => l.on \subseteq UserModes /\ l.off \subseteq UserModes
<1>1. CASE l \in [num: {"002", "376", "433", "451", "464", "381", "385"}] BY <1>1
<1>2. CASE l \in [num: {"001"}, nick: Nicknames] BY <1>2
<1>3. CASE l \in [num: {"NICK"}, from: Nicknames, to: Nicknames] BY <1>3
<1>4. CASE l \in [num: {"MODE"}, on: SUBSET UserModes, off: SUBSET UserModes] BY <1>4
<1> QED BY <1>1, <1>2, <1>3, <1>4 DEF ServerLine

\* What each kind of line to the server carries.
LEMMA ClientLineParts ==
    ASSUME NEW l \in ClientLine
    PROVE  /\ l.cmd \in {"PASS", "USER", "NICK", "MODE", "AWAY", "OPER"}
           /\ l.cmd = "NICK" => l.nick \in Nicknames
           /\ l.cmd = "MODE" => l.on \subseteq UserModes /\ l.off \subseteq UserModes
           /\ l.cmd = "AWAY" => l.text \in Away
           /\ l.cmd = "OPER" => l.right \in BOOLEAN
<1>1. CASE l \in [cmd: {"PASS", "USER"}] BY <1>1
<1>2. CASE l \in [cmd: {"NICK"}, nick: Nicknames] BY <1>2
<1>3. CASE l \in [cmd: {"MODE"}, on: SUBSET UserModes, off: SUBSET UserModes] BY <1>3
<1>4. CASE l \in [cmd: {"AWAY"}, text: Away] BY <1>4
<1>5. CASE l \in [cmd: {"OPER"}, right: BOOLEAN] BY <1>5
<1> QED BY <1>1, <1>2, <1>3, <1>4, <1>5 DEF ClientLine

\* Two sequences, one after the other.
LEMMA Joined ==
    ASSUME NEW S, NEW f \in Seq(S), NEW h \in Seq(S)
    PROVE  /\ f \o h \in Seq(S) /\ DOMAIN f = 1 .. Len(f) /\ DOMAIN h = 1 .. Len(h)
           /\ Len(f) \in Nat /\ Len(h) \in Nat
           /\ DOMAIN (f \o h) = 1 .. Len(f) + Len(h)
           /\ \A i \in DOMAIN f : i \in DOMAIN (f \o h) /\ (f \o h)[i] = f[i]
           /\ \A j \in DOMAIN h : Len(f) + j \in DOMAIN (f \o h) /\ (f \o h)[Len(f) + j] = h[j]
           /\ \A k \in DOMAIN (f \o h) :
                  \/ k \in DOMAIN f /\ (f \o h)[k] = f[k]
                  \/ k > Len(f) /\ k - Len(f) \in DOMAIN h /\ (f \o h)[k] = h[k - Len(f)]
  OBVIOUS

\* What is left of a sequence without its head.
LEMMA Behead ==
    ASSUME NEW S, NEW f \in Seq(S), f # <<>>
    PROVE  /\ Tail(f) \in Seq(S) /\ Head(f) = f[1] /\ 1 \in DOMAIN f /\ f[1] \in S
           /\ DOMAIN f = 1 .. Len(f) /\ Len(f) \in Nat \ {0} /\ DOMAIN Tail(f) = 1 .. Len(f) - 1
           /\ \A i \in DOMAIN Tail(f) : i + 1 \in DOMAIN f /\ Tail(f)[i] = f[i + 1]
           /\ \A k \in DOMAIN f : k = 1 \/ (k > 1 /\ k - 1 \in DOMAIN Tail(f) /\ Tail(f)[k - 1] = f[k])
  OBVIOUS

\* What is said and sent, in two sequences or without the head.
LEMMA SaysJoined ==
    ASSUME NEW f \in Seq(ServerLine), NEW h \in Seq(ServerLine), NEW n
    PROVE  Says(f \o h, n) <=> Says(f, n) \/ Says(h, n)
<1> DEFINE g == f \o h
<1>1. /\ DOMAIN f = 1 .. Len(f) /\ DOMAIN h = 1 .. Len(h)
      /\ \A i \in DOMAIN f : i \in DOMAIN g /\ g[i] = f[i]
      /\ \A j \in DOMAIN h : Len(f) + j \in DOMAIN g /\ g[Len(f) + j] = h[j]
      /\ \A k \in DOMAIN g : \/ k \in DOMAIN f /\ g[k] = f[k]
                             \/ k - Len(f) \in DOMAIN h /\ g[k] = h[k - Len(f)]
    BY Joined
<1> HIDE DEF g
<1> QED BY <1>1, ZenonT(60) DEF Says, g

LEMMA HasJoined ==
    ASSUME NEW q \in Seq(ClientLine), NEW h \in Seq(ClientLine), NEW c
    PROVE  Has(q \o h, c) <=> Has(q, c) \/ Has(h, c)
<1> DEFINE g == q \o h
<1>1. /\ DOMAIN q = 1 .. Len(q) /\ DOMAIN h = 1 .. Len(h)
      /\ \A i \in DOMAIN q : i \in DOMAIN g /\ g[i] = q[i]
      /\ \A j \in DOMAIN h : Len(q) + j \in DOMAIN g /\ g[Len(q) + j] = h[j]
      /\ \A k \in DOMAIN g : \/ k \in DOMAIN q /\ g[k] = q[k]
                             \/ k - Len(q) \in DOMAIN h /\ g[k] = h[k - Len(q)]
    BY Joined
<1> HIDE DEF g
<1> QED BY <1>1, ZenonT(60) DEF Has, g

LEMMA SaysBeheaded ==
    ASSUME NEW f \in Seq(ServerLine), f # <<>>, NEW n
    PROVE  Says(f, n) <=> Head(f).num = n \/ Says(Tail(f), n)
<1> DEFINE t == Tail(f)
<1>1. /\ Head(f) = f[1] /\ 1 \in DOMAIN f
      /\ \A i \in DOMAIN t : i + 1 \in DOMAIN f /\ t[i] = f[i + 1]
      /\ \A k \in DOMAIN f : k = 1 \/ (k - 1 \in DOMAIN t /\ t[k - 1] = f[k])
    BY Behead
<1> HIDE DEF t
<1> QED BY <1>1, ZenonT(60) DEF Says, t

LEMMA HasBeheaded ==
    ASSUME NEW q \in Seq(ClientLine), q # <<>>, NEW c
    PROVE  Has(q, c) <=> Head(q).cmd = c \/ Has(Tail(q), c)
<1> DEFINE t == Tail(q)
<1>1. /\ Head(q) = q[1] /\ 1 \in DOMAIN q
      /\ \A i \in DOMAIN t : i + 1 \in DOMAIN q /\ t[i] = q[i + 1]
      /\ \A k \in DOMAIN q : k = 1 \/ (k - 1 \in DOMAIN t /\ t[k - 1] = q[k])
    BY Behead
<1> HIDE DEF t
<1> QED BY <1>1, ZenonT(60) DEF Has, t

-----------------------------------------------------------------------------
(* Modes.                                                                  *)

\* What leads from flags to modes and then to more, leads there.
LEMMA ModesJoined ==
    ASSUME NEW f \in Seq(ServerLine), NEW h \in Seq(ServerLine), NEW a, NEW b, NEW c,
           ModesFollow(f, a, b), ModesFollow(h, b, c)
    PROVE  ModesFollow(f \o h, a, c)
<1> SUFFICES ASSUME NEW m \in UserModes
             PROVE  /\ (\A i \in DOMAIN (f \o h) : ~Touches((f \o h)[i], m)) => (m \in a <=> m \in c)
                    /\ \A i \in DOMAIN (f \o h) :
                           Touches((f \o h)[i], m) /\ (\A j \in DOMAIN (f \o h) : j > i => ~Touches((f \o h)[j], m))
                               => (Gives((f \o h)[i], m) <=> m \in c)
    BY DEF ModesFollow
<1>1. /\ (\A i \in DOMAIN f : ~Touches(f[i], m)) => (m \in a <=> m \in b)
      /\ \A i \in DOMAIN f :
             Touches(f[i], m) /\ (\A j \in DOMAIN f : j > i => ~Touches(f[j], m)) => (Gives(f[i], m) <=> m \in b)
    BY DEF ModesFollow
<1>2. /\ (\A i \in DOMAIN h : ~Touches(h[i], m)) => (m \in b <=> m \in c)
      /\ \A i \in DOMAIN h :
             Touches(h[i], m) /\ (\A j \in DOMAIN h : j > i => ~Touches(h[j], m)) => (Gives(h[i], m) <=> m \in c)
    BY DEF ModesFollow
<1> DEFINE g == f \o h
<1>3. /\ DOMAIN f = 1 .. Len(f) /\ DOMAIN h = 1 .. Len(h) /\ Len(f) \in Nat /\ Len(h) \in Nat
      /\ DOMAIN g = 1 .. Len(f) + Len(h)
      /\ \A i \in DOMAIN f : i \in DOMAIN g /\ g[i] = f[i]
      /\ \A j \in DOMAIN h : Len(f) + j \in DOMAIN g /\ g[Len(f) + j] = h[j]
      /\ \A k \in DOMAIN g : \/ k \in DOMAIN f /\ g[k] = f[k]
                             \/ k > Len(f) /\ k - Len(f) \in DOMAIN h /\ g[k] = h[k - Len(f)]
    BY Joined, SMTT(30)
<1> HIDE DEF g
<1>4. (\A i \in DOMAIN g : ~Touches(g[i], m)) => (m \in a <=> m \in c)
  <2> SUFFICES ASSUME \A i \in DOMAIN g : ~Touches(g[i], m) PROVE m \in a <=> m \in c OBVIOUS
  <2>1. \A i \in DOMAIN f : ~Touches(f[i], m) BY <1>3
  <2>2. \A i \in DOMAIN h : ~Touches(h[i], m) BY <1>3
  <2> QED BY <1>1, <1>2, <2>1, <2>2
<1>5. ASSUME NEW i \in DOMAIN g, Touches(g[i], m), \A j \in DOMAIN g : j > i => ~Touches(g[j], m)
      PROVE  Gives(g[i], m) <=> m \in c
  <2>1. CASE i \in DOMAIN f /\ g[i] = f[i]
    <3>1. \A j \in DOMAIN f : j > i => ~Touches(f[j], m) BY <1>3, <1>5
    <3>2. \A j \in DOMAIN h : ~Touches(h[j], m)
      <4> TAKE j \in DOMAIN h
      <4>1. Len(f) + j \in DOMAIN g /\ g[Len(f) + j] = h[j] /\ Len(f) + j > i BY <1>3, <2>1
      <4> QED BY <1>5, <4>1
    <3> QED BY <1>1, <1>2, <1>5, <2>1, <3>1, <3>2
  <2>2. CASE i > Len(f) /\ i - Len(f) \in DOMAIN h /\ g[i] = h[i - Len(f)]
    <3>1. \A j \in DOMAIN h : j > i - Len(f) => ~Touches(h[j], m)
      <4> TAKE j \in DOMAIN h
      <4>1. Len(f) + j \in DOMAIN g /\ g[Len(f) + j] = h[j] BY <1>3
      <4>2. j > i - Len(f) => Len(f) + j > i BY <1>3, <2>2
      <4> QED BY <1>5, <4>1, <4>2
    <3> QED BY <1>2, <1>5, <2>2, <3>1
  <2> QED BY <1>3, <2>1, <2>2
<1> QED BY <1>4, <1>5 DEF g

\* When the client hears the first line, its flags go where that says.
LEMMA ModesBeheaded ==
    ASSUME NEW f \in Seq(ServerLine), f # <<>>, NEW a, NEW a2, NEW b, ModesFollow(f, a, b),
           \A m \in UserModes : m \in a2 <=> IF Touches(Head(f), m) THEN Gives(Head(f), m) ELSE m \in a
    PROVE  ModesFollow(Tail(f), a2, b)
<1> DEFINE t == Tail(f)
<1>1. /\ Head(f) = f[1] /\ 1 \in DOMAIN f /\ DOMAIN f = 1 .. Len(f) /\ Len(f) \in Nat \ {0}
      /\ DOMAIN t = 1 .. Len(f) - 1
      /\ \A i \in DOMAIN t : i + 1 \in DOMAIN f /\ t[i] = f[i + 1]
      /\ \A k \in DOMAIN f : k = 1 \/ (k > 1 /\ k - 1 \in DOMAIN t /\ t[k - 1] = f[k])
    BY Behead
<1> HIDE DEF t
<1> SUFFICES ASSUME NEW m \in UserModes
             PROVE  /\ (\A i \in DOMAIN t : ~Touches(t[i], m)) => (m \in a2 <=> m \in b)
                    /\ \A i \in DOMAIN t :
                           Touches(t[i], m) /\ (\A j \in DOMAIN t : j > i => ~Touches(t[j], m))
                               => (Gives(t[i], m) <=> m \in b)
    BY DEF ModesFollow, t
<1>2. /\ (\A i \in DOMAIN f : ~Touches(f[i], m)) => (m \in a <=> m \in b)
      /\ \A i \in DOMAIN f :
             Touches(f[i], m) /\ (\A j \in DOMAIN f : j > i => ~Touches(f[j], m)) => (Gives(f[i], m) <=> m \in b)
    BY DEF ModesFollow
<1>3. m \in a2 <=> IF Touches(f[1], m) THEN Gives(f[1], m) ELSE m \in a BY <1>1
<1>4. ASSUME \A i \in DOMAIN t : ~Touches(t[i], m) PROVE m \in a2 <=> m \in b
  <2>1. \A k \in DOMAIN f : k > 1 => ~Touches(f[k], m) BY <1>1, <1>4
  <2>2. CASE Touches(f[1], m) BY <1>1, <1>2, <1>3, <2>1, <2>2
  <2>3. CASE ~Touches(f[1], m)
    <3>1. \A k \in DOMAIN f : ~Touches(f[k], m) BY <1>1, <2>1, <2>3
    <3> QED BY <1>2, <1>3, <2>3, <3>1
  <2> QED BY <2>2, <2>3
<1>5. ASSUME NEW i \in DOMAIN t, Touches(t[i], m), \A j \in DOMAIN t : j > i => ~Touches(t[j], m)
      PROVE  Gives(t[i], m) <=> m \in b
  <2>1. i + 1 \in DOMAIN f /\ t[i] = f[i + 1] BY <1>1
  <2>2. \A j \in DOMAIN f : j > i + 1 => ~Touches(f[j], m)
    <3> SUFFICES ASSUME NEW j \in DOMAIN f, j > i + 1 PROVE ~Touches(f[j], m) OBVIOUS
    <3>1. j # 1 BY <1>1
    <3>2. j - 1 \in DOMAIN t /\ t[j - 1] = f[j] /\ j - 1 > i BY <1>1, <3>1
    <3> QED BY <1>5, <3>2
  <2> QED BY <1>2, <1>5, <2>1, <2>2
<1> QED BY <1>4, <1>5

-----------------------------------------------------------------------------
(* The nickname.                                                           *)

\* Lines that are not about our nickname change nothing.
LEMMA NickKept ==
    ASSUME NEW f \in Seq(ServerLine), NEW h \in Seq(ServerLine), NEW q, NEW n, NEW a,
           ~Says(h, "001"), ~Says(h, "NICK"), NickFollows(f, q, n, a)
    PROVE  NickFollows(f \o h, q, n, a)
<1> DEFINE g == f \o h
<1>1. /\ DOMAIN f = 1 .. Len(f)
      /\ \A i \in DOMAIN f : i \in DOMAIN g /\ g[i] = f[i]
      /\ \A k \in DOMAIN g : \/ k \in DOMAIN f /\ g[k] = f[k]
                             \/ k - Len(f) \in DOMAIN h /\ g[k] = h[k - Len(f)]
    BY Joined
<1>2. Says(g, "001") <=> Says(f, "001") BY SaysJoined
<1> HIDE DEF g
<1>3. \A k, x : Leads(f, k, x, a) => Leads(g, k, x, a) BY <1>1 DEF Leads
<1>4. ASSUME NEW i \in DOMAIN g, g[i].num \in {"001", "NICK"} PROVE Leads(g, i + 1, NewName(g[i]), a)
  <2>1. i \in DOMAIN f /\ g[i] = f[i] BY <1>1, <1>4 DEF Says
  <2> QED BY <1>3, <1>4, <2>1 DEF NickFollows
<1> QED BY <1>2, <1>3, <1>4 DEF NickFollows, g

\* The server gives us another one, and says so.
LEMMA NickTold ==
    ASSUME NEW f \in Seq(ServerLine), NEW l \in ServerLine, NEW q, NEW n, NEW a, NEW b,
           l.num = "NICK", l.from = a, l.to = b, NickFollows(f, q, n, a)
    PROVE  NickFollows(f \o <<l>>, q, n, b)
<1> DEFINE h == <<l>>
           g == f \o h
<1>1. h \in Seq(ServerLine) /\ DOMAIN h = {1} /\ h[1] = l OBVIOUS
<1> HIDE DEF h
<1>2. /\ DOMAIN f = 1 .. Len(f) /\ Len(f) \in Nat
      /\ \A i \in DOMAIN f : i \in DOMAIN g /\ g[i] = f[i]
      /\ \A j \in DOMAIN h : Len(f) + j \in DOMAIN g /\ g[Len(f) + j] = h[j]
      /\ \A k \in DOMAIN g : \/ k \in DOMAIN f /\ g[k] = f[k]
                             \/ k > Len(f) /\ k - Len(f) \in DOMAIN h /\ g[k] = h[k - Len(f)]
    BY <1>1, Joined
<1>3. Says(f, "001") => Says(g, "001") BY <1>1, SaysJoined
<1> HIDE DEF g
<1>4. Len(f) + 1 \in DOMAIN g /\ g[Len(f) + 1] = l BY <1>1, <1>2
<1>5. \A k \in 1 .. Len(f) + 1 : \A x : Leads(f, k, x, a) => Leads(g, k, x, b)
  <2> TAKE k \in 1 .. Len(f) + 1
  <2> TAKE x
  <2>1. x = a => Leads(g, k, x, b) BY <1>2, <1>4 DEF Leads
  <2>2. (\E j \in DOMAIN f : j >= k /\ f[j].num = "NICK" /\ f[j].from = x) => Leads(g, k, x, b) BY <1>2 DEF Leads
  <2> QED BY <2>1, <2>2 DEF Leads
<1>6. ASSUME NEW i \in DOMAIN g, g[i].num \in {"001", "NICK"} PROVE Leads(g, i + 1, NewName(g[i]), b)
  <2>1. CASE i \in DOMAIN f /\ g[i] = f[i]
    <3>1. Leads(f, i + 1, NewName(f[i]), a) BY <1>6, <2>1 DEF NickFollows
    <3>2. i + 1 \in 1 .. Len(f) + 1 BY <1>2, <2>1
    <3> QED BY <1>5, <2>1, <3>1, <3>2
  <2>2. CASE g[i] = l BY <2>2 DEF Leads, NewName
  <2> QED BY <1>1, <1>2, <2>1, <2>2
<1>7. 1 \in 1 .. Len(f) + 1 BY <1>2
<1> QED BY <1>3, <1>5, <1>6, <1>7 DEF NickFollows, g, h

\* The client hears the first line, and calls itself what that says.
LEMMA NickHeard ==
    ASSUME NEW f \in Seq(ServerLine), f # <<>>, NEW q, NEW n, NEW n2, NEW a, NickFollows(f, q, n, a),
           n2 = IF Head(f).num = "001" THEN Head(f).nick
                ELSE IF Head(f).num = "NICK" /\ Head(f).from = n THEN Head(f).to ELSE n
    PROVE  NickFollows(Tail(f), q, n2, a)
<1> DEFINE t == Tail(f)
<1>1. /\ Head(f) = f[1] /\ 1 \in DOMAIN f /\ DOMAIN f = 1 .. Len(f)
      /\ \A i \in DOMAIN t : i + 1 \in DOMAIN f /\ t[i] = f[i + 1]
      /\ \A k \in DOMAIN f : k = 1 \/ (k > 1 /\ k - 1 \in DOMAIN t /\ t[k - 1] = f[k])
      /\ Len(f) \in Nat /\ DOMAIN t = 1 .. Len(f) - 1
    BY Behead
<1>2. Says(f, "001") <=> Head(f).num = "001" \/ Says(t, "001") BY SaysBeheaded
<1> HIDE DEF t
<1>3. \A k \in Nat \ {0} : \A x : Leads(f, k + 1, x, a) => Leads(t, k, x, a)
  <2> SUFFICES ASSUME NEW k \in Nat \ {0}, NEW x, NEW j \in DOMAIN f, j >= k + 1, f[j].num = "NICK", f[j].from = x
               PROVE  Leads(t, k, x, a)
    BY DEF Leads
  <2>1. j - 1 \in DOMAIN t /\ t[j - 1] = f[j] /\ j - 1 >= k BY <1>1
  <2> QED BY <2>1 DEF Leads
<1>4. ASSUME NEW i \in DOMAIN t, t[i].num \in {"001", "NICK"} PROVE Leads(t, i + 1, NewName(t[i]), a)
  <2>1. Leads(f, i + 1 + 1, NewName(f[i + 1]), a) BY <1>1, <1>4 DEF NickFollows
  <2>2. i + 1 \in Nat \ {0} BY <1>1
  <2> QED BY <1>1, <1>3, <2>1, <2>2
<1>5. CASE Head(f).num = "001" \/ (Head(f).num = "NICK" /\ Head(f).from = n)
  <2>1. n2 = NewName(f[1]) /\ f[1].num \in {"001", "NICK"} BY <1>1, <1>5 DEF NewName
  <2>2. Leads(f, 1 + 1, NewName(f[1]), a) BY <1>1, <2>1 DEF NickFollows
  <2>3. Leads(t, 1, n2, a) BY <1>3, <2>1, <2>2
  <2> QED BY <1>4, <2>3 DEF NickFollows, t
<1>6. CASE Head(f).num # "001" /\ ~(Head(f).num = "NICK" /\ Head(f).from = n)
  <2>1. n2 = n BY <1>6
  <2>2. Leads(f, 1, n, a) => Leads(t, 1, n, a)
    <3> SUFFICES ASSUME NEW j \in DOMAIN f, f[j].num = "NICK", f[j].from = n PROVE Leads(t, 1, n, a)
      BY DEF Leads
    <3>1. j # 1 BY <1>1, <1>6
    <3>2. j - 1 \in DOMAIN t /\ t[j - 1] = f[j] /\ j - 1 >= 1 BY <1>1, <3>1
    <3> QED BY <3>2 DEF Leads
  <2> QED BY <1>2, <1>4, <1>6, <2>1, <2>2 DEF NickFollows, t
<1> QED BY <1>5, <1>6

\* More lines of ours on their way change nothing.
LEMMA NickSent ==
    ASSUME NEW f, NEW q \in Seq(ClientLine), NEW h \in Seq(ClientLine), NEW n, NEW a, NickFollows(f, q, n, a)
    PROVE  NickFollows(f, q \o h, n, a)
<1> DEFINE g == q \o h
<1>1. \A i \in DOMAIN q : i \in DOMAIN g /\ g[i] = q[i] BY Joined
<1> HIDE DEF g
<1> QED BY <1>1 DEF NickFollows, g

\* A nickname is taken at once, and asked for.
LEMMA NickAsserted ==
    ASSUME NEW f, NEW q \in Seq(ClientLine), NEW l \in ClientLine, NEW n, NEW a,
           l.cmd = "NICK", Says(f, "001") \/ l.nick \notin Taken, NickFollows(f, q, n, a)
    PROVE  NickFollows(f, q \o <<l>>, l.nick, a)
<1> DEFINE h == <<l>>
           g == q \o h
<1>1. h \in Seq(ClientLine) /\ 1 \in DOMAIN h /\ h[1] = l OBVIOUS
<1> HIDE DEF h
<1>2. \A j \in DOMAIN h : Len(q) + j \in DOMAIN g /\ g[Len(q) + j] = h[j] BY <1>1, Joined
<1> HIDE DEF g
<1>3. Len(q) + 1 \in DOMAIN g /\ g[Len(q) + 1] = l BY <1>1, <1>2
<1> QED BY <1>3 DEF NickFollows, g, h

\* The server reads a line that gives us no other nickname than it calls us.
LEMMA NickRead ==
    ASSUME NEW f, NEW q \in Seq(ClientLine), q # <<>>, NEW n, NEW a, NickFollows(f, q, n, a),
           Head(q).cmd = "NICK" => Head(q).nick \in Taken \/ Head(q).nick = a
    PROVE  NickFollows(f, Tail(q), n, a)
<1> DEFINE t == Tail(q)
<1>1. /\ Head(q) = q[1]
      /\ \A k \in DOMAIN q : k = 1 \/ (k - 1 \in DOMAIN t /\ t[k - 1] = q[k])
    BY Behead
<1> HIDE DEF t
<1>2. ASSUME NEW i \in DOMAIN q, q[i].cmd = "NICK", q[i].nick = n, n \notin Taken
      PROVE  n = a \/ \E j \in DOMAIN t : t[j].cmd = "NICK" /\ t[j].nick = n
  <2>1. CASE i = 1 BY <1>1, <1>2, <2>1
  <2>2. CASE i # 1 BY <1>1, <1>2, <2>2
  <2> QED BY <2>1, <2>2
<1>3. n = a => Leads(f, 1, n, a) BY DEF Leads
<1> QED BY <1>2, <1>3 DEF NickFollows, t

-----------------------------------------------------------------------------
(* The away message.                                                       *)

\* Lines that are not about it change nothing.
LEMMA AwayKept ==
    ASSUME NEW q \in Seq(ClientLine), NEW h \in Seq(ClientLine), NEW away, SaysAway(q, away), ~Has(h, "AWAY")
    PROVE  SaysAway(q \o h, away)
<1> DEFINE g == q \o h
<1>1. /\ \A i \in DOMAIN q : i \in DOMAIN g /\ g[i] = q[i]
      /\ \A k \in DOMAIN g : \/ k \in DOMAIN q /\ g[k] = q[k]
                             \/ k - Len(q) \in DOMAIN h /\ g[k] = h[k - Len(q)]
    BY Joined
<1> HIDE DEF g
<1> QED BY <1>1 DEF SaysAway, Has, g

\* A line that says it is the last.
LEMMA AwaySaid ==
    ASSUME NEW q \in Seq(ClientLine), NEW l \in ClientLine, l.cmd = "AWAY"
    PROVE  SaysAway(q \o <<l>>, l.text) /\ Has(q \o <<l>>, "AWAY")
<1> DEFINE h == <<l>>
           g == q \o h
<1>1. h \in Seq(ClientLine) /\ DOMAIN h = {1} /\ h[1] = l OBVIOUS
<1> HIDE DEF h
<1>2. /\ DOMAIN q = 1 .. Len(q) /\ Len(q) \in Nat
      /\ \A j \in DOMAIN h : Len(q) + j \in DOMAIN g /\ g[Len(q) + j] = h[j]
      /\ \A k \in DOMAIN g : \/ k \in DOMAIN q /\ g[k] = q[k]
                             \/ k > Len(q) /\ k - Len(q) \in DOMAIN h /\ g[k] = h[k - Len(q)]
    BY <1>1, Joined
<1> HIDE DEF g
<1>3. Len(q) + 1 \in DOMAIN g /\ g[Len(q) + 1] = l BY <1>1, <1>2
<1>4. ASSUME NEW i \in DOMAIN g, \A j \in DOMAIN g : j > i => g[j].cmd # "AWAY" PROVE g[i] = l
  <2>1. CASE i \in DOMAIN q
    <3>1. Len(q) + 1 > i BY <1>2, <2>1
    <3> QED BY <1>3, <1>4, <3>1
  <2>2. CASE i - Len(q) \in DOMAIN h /\ g[i] = h[i - Len(q)] BY <1>1, <2>2
  <2> QED BY <1>2, <2>1, <2>2
<1> QED BY <1>3, <1>4 DEF SaysAway, Has, g, h

\* The server reads the first line.
LEMMA AwayRead ==
    ASSUME NEW q \in Seq(ClientLine), q # <<>>, NEW away, SaysAway(q, away)
    PROVE  /\ SaysAway(Tail(q), away)
           /\ Head(q).cmd = "AWAY" /\ ~Has(Tail(q), "AWAY") => Head(q).text = away
<1> DEFINE t == Tail(q)
<1>1. /\ Head(q) = q[1] /\ 1 \in DOMAIN q /\ DOMAIN q = 1 .. Len(q)
      /\ \A i \in DOMAIN t : i + 1 \in DOMAIN q /\ t[i] = q[i + 1]
      /\ \A k \in DOMAIN q : k = 1 \/ (k > 1 /\ k - 1 \in DOMAIN t /\ t[k - 1] = q[k])
      /\ Len(q) \in Nat /\ DOMAIN t = 1 .. Len(q) - 1
    BY Behead
<1> HIDE DEF t
<1>2. ASSUME NEW i \in DOMAIN t, t[i].cmd = "AWAY", \A j \in DOMAIN t : j > i => t[j].cmd # "AWAY"
      PROVE  t[i].text = away
  <2>1. ASSUME NEW j \in DOMAIN q, j > i + 1 PROVE q[j].cmd # "AWAY"
    <3>1. j # 1 BY <1>1, <2>1
    <3>2. j - 1 \in DOMAIN t /\ t[j - 1] = q[j] /\ j - 1 > i BY <1>1, <2>1, <3>1
    <3> QED BY <1>2, <3>2
  <2> QED BY <1>1, <1>2, <2>1 DEF SaysAway
<1>3. ASSUME q[1].cmd = "AWAY", ~Has(t, "AWAY") PROVE q[1].text = away
  <2>1. \A j \in DOMAIN q : j > 1 => q[j].cmd # "AWAY" BY <1>1, <1>3 DEF Has
  <2> QED BY <1>1, <1>3, <2>1 DEF SaysAway
<1> QED BY <1>1, <1>2, <1>3 DEF SaysAway, t

-----------------------------------------------------------------------------
(* What happens to a connection.                                           *)

\* Nothing on its way says and sends nothing.
LEMMA Silence ==
    /\ <<>> \in Seq(ServerLine) /\ <<>> \in Seq(ClientLine)
    /\ \A i \in DOMAIN <<>> : FALSE
    /\ \A n : ~Says(<<>>, n) /\ ~Has(<<>>, n)
    /\ \A away : SaysAway(<<>>, away)
    /\ \A modes : ModesFollow(<<>>, modes, modes)
BY DEF Says, Has, SaysAway, ModesFollow

\* Who is not connected has nothing on its way, whatever the entry says otherwise.
LEMMA SessionDown ==
    ASSUME NEW e \in LoginEntry, NEW secret, ~e.up, e.flags = {}, ~e.connected
    PROVE  Session(e, Stranger, <<>>, <<>>, secret)
<1>1. ModesFollow(<<>>, e.flags, Stranger.modes) BY Silence DEF Stranger
<1>2. ~Stranger.registered /\ Stranger.away = "" BY DEF Stranger
<1>3. AwayFollows(<<>>, <<>>, e.away, Stranger.away, Stranger.registered) BY <1>2, Silence DEF AwayFollows
<1> QED BY <1>1, <1>2, <1>3, Silence DEF Session

\* Who has just been dialled has the lines of the login on their way.
LEMMA SessionFresh ==
    ASSUME NEW e \in LoginEntry, NEW secret, e.up, e.attempting, e.flags = {}, ~e.connected, ~e.operCommand,
           e.nickname \in Nicknames
    PROVE  /\ LoginLines(e) \in Seq(ClientLine) /\ Has(LoginLines(e), "NICK")
           /\ Session(e, Stranger, LoginLines(e), <<>>, secret)
<1> DEFINE q == LoginLines(e)
<1>1. /\ q \in Seq(ClientLine)
      /\ Has(q, "NICK") /\ Has(q, "USER") /\ ~Has(q, "AWAY") /\ ~Has(q, "OPER")
      /\ \A i \in DOMAIN q : q[i].cmd = "PASS" => i = 1
  <2> DEFINE n == [cmd |-> "NICK", nick |-> e.nickname]
             u == [cmd |-> "USER"]
             w == [cmd |-> "PASS"]
  <2>1. n \in ClientLine /\ u \in ClientLine /\ w \in ClientLine BY DEF ClientLine
  <2>2. n.cmd = "NICK" /\ u.cmd = "USER" /\ w.cmd = "PASS" OBVIOUS
  <2> DEFINE g == IF e.password THEN <<w>> ELSE <<>>
             k == <<n, u>>
  <2>3. q = g \o k BY DEF LoginLines
  <2>4. /\ k \in Seq(ClientLine) /\ DOMAIN k = {1, 2} /\ k[1] = n /\ k[2] = u
        /\ g \in Seq(ClientLine) /\ (g = <<>> \/ (DOMAIN g = {1} /\ g[1] = w))
    <3> HIDE DEF n, u, w
    <3>1. k \in Seq(ClientLine) /\ DOMAIN k = {1, 2} /\ k[1] = n /\ k[2] = u BY <2>1
    <3>2. g \in Seq(ClientLine) /\ (g = <<>> \/ (DOMAIN g = {1} /\ g[1] = w)) BY <2>1
    <3> QED BY <3>1, <3>2
  <2> HIDE DEF n, u, w, g, k, q
  <2>5. g \o k \in Seq(ClientLine) BY ONLY <2>4, Joined
  <2>6. \A c : Has(q, c) <=> Has(g, c) \/ Has(k, c) BY <2>3, <2>4, HasJoined
  <2>7. /\ Has(k, "NICK") /\ Has(k, "USER")
        /\ \A i \in DOMAIN k : k[i].cmd \notin {"AWAY", "OPER", "PASS"}
    BY <2>2, <2>4 DEF Has
  <2>8. \A i \in DOMAIN g : i = 1 /\ g[i].cmd = "PASS" BY <2>2, <2>4, Silence
  <2>9. \A j \in DOMAIN (g \o k) : \/ j \in DOMAIN g /\ (g \o k)[j] = g[j]
                                   \/ j - Len(g) \in DOMAIN k /\ (g \o k)[j] = k[j - Len(g)]
    BY ONLY <2>4, Joined
  <2>10. \A j \in DOMAIN q : q[j].cmd = "PASS" => j = 1 BY <2>3, <2>7, <2>8, <2>9
  <2>11. ~Has(g, "AWAY") /\ ~Has(g, "OPER") BY <2>8, Zenon DEF Has
  <2>12. ~Has(k, "AWAY") /\ ~Has(k, "OPER") BY <2>7, Zenon DEF Has
  <2>13. q \in Seq(ClientLine) BY <2>3, <2>5
  <2> QED BY ONLY <2>6, <2>7, <2>10, <2>11, <2>12, <2>13
<1> HIDE DEF q
<1>2. ModesFollow(<<>>, e.flags, Stranger.modes) BY Silence DEF Stranger
<1>3. ~Stranger.registered /\ Stranger.away = "" /\ ~Stranger.user /\ Stranger.nick = NoNick BY DEF Stranger
<1>4. AwayFollows(<<>>, q, e.away, Stranger.away, Stranger.registered) BY <1>1, <1>3 DEF AwayFollows, SaysAway, Has
<1>5. e.nickname # NoNick BY LoginAssumption
<1> QED BY <1>1, <1>2, <1>3, <1>4, <1>5, Silence DEF Session, Pending, q

\* The client sends lines, and may call itself otherwise, or mark itself away, or as an operator to be.
LEMMA SessionSent ==
    ASSUME NEW e \in LoginEntry, NEW p \in Peer, NEW q \in Seq(ClientLine), NEW f \in Seq(ServerLine), NEW secret,
           NEW d \in LoginEntry, NEW h \in Seq(ClientLine), Session(e, p, q, f, secret), e.up,
           d.up, d.connected = e.connected, d.attempting = e.attempting, d.flags = e.flags, d.nickname # NoNick,
           p.registered => NickFollows(f, q \o h, d.nickname, p.nick),
           AwayFollows(f, q \o h, d.away, p.away, p.registered), ~Has(h, "PASS"),
           e.operCommand => d.operCommand, d.operCommand => d.connected, Has(h, "OPER") => d.operCommand
    PROVE  Session(d, p, q \o h, f, secret)
<1>1. \A c : Has(q \o h, c) <=> Has(q, c) \/ Has(h, c) BY HasJoined
<1>2. \A i \in DOMAIN (q \o h) : (q \o h)[i].cmd = "PASS" => i = 1 /\ ~p.user
  <2> DEFINE g == q \o h
  <2>1. \A k \in DOMAIN g : \/ k \in DOMAIN q /\ g[k] = q[k]
                            \/ k - Len(q) \in DOMAIN h /\ g[k] = h[k - Len(q)]
    BY ONLY q \in Seq(ClientLine), h \in Seq(ClientLine), Joined
  <2>2. \A i \in DOMAIN q : q[i].cmd = "PASS" => i = 1 /\ ~p.user BY DEF Session
  <2>3. \A i \in DOMAIN h : h[i].cmd # "PASS" BY DEF Has
  <2> HIDE DEF g
  <2> QED BY ONLY <2>1, <2>2, <2>3, Zenon DEF g
<1>3. e.up /\ Pending(p, q, f) => Pending(p, q \o h, f) BY <1>1 DEF Pending
<1> QED BY <1>1, <1>2, <1>3 DEF Session

\* The client hears a line, and may send some.
LEMMA SessionHeard ==
    ASSUME NEW e \in LoginEntry, NEW p \in Peer, NEW q \in Seq(ClientLine), NEW f \in Seq(ServerLine), NEW secret,
           NEW d \in LoginEntry, NEW h \in Seq(ClientLine), Session(e, p, q, f, secret), f # <<>>,
           d.up, d.away = e.away, d.operCommand = e.operCommand,
           d.connected \/ d.attempting, d.connected => p.registered, e.connected => d.connected,
           d.nickname = IF Head(f).num = "001" THEN Head(f).nick
                        ELSE IF Head(f).num = "NICK" /\ Head(f).from = e.nickname THEN Head(f).to ELSE e.nickname,
           \A m \in UserModes : m \in d.flags <=> IF Touches(Head(f), m) THEN Gives(Head(f), m) ELSE m \in e.flags,
           SaysAway(q \o h, e.away), Head(f).num = "002" /\ e.away # "" => Has(h, "AWAY"),
           ~Has(h, "PASS"), ~Has(h, "OPER"), ~p.registered => Head(f).num # "464"
    PROVE  Session(d, p, q \o h, Tail(f), secret)
<1>1. \A c : Has(q \o h, c) <=> Has(q, c) \/ Has(h, c) BY HasJoined
<1>2. \A i \in DOMAIN (q \o h) : (q \o h)[i].cmd = "PASS" => i = 1 /\ ~p.user
  <2> DEFINE g == q \o h
  <2>1. \A k \in DOMAIN g : \/ k \in DOMAIN q /\ g[k] = q[k]
                            \/ k - Len(q) \in DOMAIN h /\ g[k] = h[k - Len(q)]
    BY ONLY q \in Seq(ClientLine), h \in Seq(ClientLine), Joined
  <2>2. \A i \in DOMAIN q : q[i].cmd = "PASS" => i = 1 /\ ~p.user BY DEF Session
  <2>3. \A i \in DOMAIN h : h[i].cmd # "PASS" BY DEF Has
  <2> HIDE DEF g
  <2> QED BY ONLY <2>1, <2>2, <2>3, Zenon DEF g
<1>3. \A n : Says(f, n) <=> Head(f).num = n \/ Says(Tail(f), n) BY SaysBeheaded
<1>4. ModesFollow(Tail(f), d.flags, p.modes)
  <2>1. ModesFollow(f, e.flags, p.modes) BY DEF Session
  <2> QED BY <2>1, ModesBeheaded
<1>5. p.registered => NickFollows(Tail(f), q \o h, d.nickname, p.nick)
  <2> SUFFICES ASSUME p.registered PROVE NickFollows(Tail(f), q \o h, d.nickname, p.nick) OBVIOUS
  <2>1. NickFollows(f, q, e.nickname, p.nick) BY DEF Session
  <2>2. NickFollows(Tail(f), q, d.nickname, p.nick) BY <2>1, NickHeard
  <2> QED BY <2>2, NickSent
<1>6. AwayFollows(Tail(f), q \o h, d.away, p.away, p.registered)
  <2>1. AwayFollows(f, q, e.away, p.away, p.registered) BY DEF Session
  <2> QED BY <1>1, <1>3, <2>1 DEF AwayFollows
<1>7. e.up BY DEF Session
<1>8. ~p.registered => /\ \A i \in DOMAIN Tail(f) : Tail(f)[i].num \in {"433", "451", "464"}
                       /\ Pending(p, q \o h, Tail(f))
  <2>1. \A i \in DOMAIN Tail(f) : i + 1 \in DOMAIN f /\ Tail(f)[i] = f[i + 1] BY Behead, ZenonT(60)
  <2>2. ~p.registered => Pending(p, q, f) BY <1>7 DEF Session
  <2>3. Pending(p, q, f) /\ ~p.registered => Pending(p, q \o h, Tail(f)) BY <1>1, <1>3 DEF Pending
  <2>4. ~p.registered => \A i \in DOMAIN f : f[i].num \in {"433", "451", "464"} BY DEF Session
  <2> QED BY <2>1, <2>2, <2>3, <2>4
<1>9. d.nickname # NoNick
  <2>1. /\ Head(f) \in ServerLine /\ (Head(f).num = "001" => Head(f).nick \in Nicknames)
        /\ (Head(f).num = "NICK" => Head(f).to \in Nicknames)
    <3>0. Head(f) = f[1] /\ f[1] \in ServerLine BY ONLY f \in Seq(ServerLine), f # <<>>, Behead
    <3>1. Head(f) \in ServerLine BY <3>0
    <3>2. \A l \in ServerLine : (l.num = "001" => l.nick \in Nicknames) /\ (l.num = "NICK" => l.to \in Nicknames)
      BY ServerLineParts, Zenon
    <3> QED BY <3>1, <3>2, Zenon
  <2>2. e.nickname # NoNick BY <1>7 DEF Session
  <2> QED BY <2>1, <2>2, LoginAssumption
<1> QED BY <1>1, <1>2, <1>3, <1>4, <1>5, <1>6, <1>7, <1>8, <1>9 DEF Session

\* The server reads a line, changes what it has of us and says something.
LEMMA SessionRead ==
    ASSUME NEW e \in LoginEntry, NEW p \in Peer, NEW q \in Seq(ClientLine), NEW f \in Seq(ServerLine), NEW secret,
           NEW r \in Peer, NEW h \in Seq(ServerLine), Session(e, p, q, f, secret), q # <<>>,
           p.registered => r.registered, r.registered => r.nick # NoNick,
           ModesFollow(h, p.modes, r.modes),
           r.registered => NickFollows(f \o h, Tail(q), e.nickname, r.nick),
           r.registered /\ ~Has(Tail(q), "AWAY") => r.away = e.away \/ (e.away # "" /\ Says(f \o h, "002")),
           ~r.registered => /\ r.away = "" /\ \A i \in DOMAIN h : h[i].num \in {"433", "451", "464"}
                            /\ Says(f \o h, "464") => secret /\ ~r.pass /\ r.user
                            /\ Pending(r, Tail(q), f \o h),
           r.registered /\ Says(f \o h, "464") => e.operCommand
    PROVE  Session(e, r, Tail(q), f \o h, secret)
<1>1. \A c : Has(q, c) <=> Head(q).cmd = c \/ Has(Tail(q), c) BY HasBeheaded
<1>2. \A i \in DOMAIN Tail(q) : Tail(q)[i].cmd # "PASS"
  <2>1. \A i \in DOMAIN Tail(q) : i + 1 \in DOMAIN q /\ Tail(q)[i] = q[i + 1] /\ i + 1 # 1
    <3>1. \A i \in DOMAIN Tail(q) : i + 1 \in DOMAIN q /\ Tail(q)[i] = q[i + 1] BY Behead
    <3>2. DOMAIN Tail(q) = 1 .. Len(q) - 1 /\ Len(q) \in Nat BY Behead
    <3>3. \A i \in DOMAIN Tail(q) : i + 1 # 1 BY ONLY <3>2
    <3> QED BY ONLY <3>1, <3>3
  <2>2. \A i \in DOMAIN q : q[i].cmd = "PASS" => i = 1 BY Zenon DEF Session
  <2> QED BY ONLY <2>1, <2>2, Zenon
<1>3. ModesFollow(f \o h, e.flags, r.modes)
  <2>1. ModesFollow(f, e.flags, p.modes) BY DEF Session
  <2> QED BY <2>1, ModesJoined
<1>4. AwayFollows(f \o h, Tail(q), e.away, r.away, r.registered)
  <2>1. SaysAway(q, e.away) BY DEF Session, AwayFollows
  <2>2. SaysAway(Tail(q), e.away) BY <2>1, AwayRead
  <2> QED BY <2>2 DEF AwayFollows
<1>5. ~r.registered => \A i \in DOMAIN (f \o h) : (f \o h)[i].num \in {"433", "451", "464"}
  <2> DEFINE g == f \o h
  <2>1. \A k \in DOMAIN g : \/ k \in DOMAIN f /\ g[k] = f[k]
                            \/ k - Len(f) \in DOMAIN h /\ g[k] = h[k - Len(f)]
    BY ONLY f \in Seq(ServerLine), h \in Seq(ServerLine), Joined
  <2>2. ~p.registered => \A i \in DOMAIN f : f[i].num \in {"433", "451", "464"} BY DEF Session
  <2> HIDE DEF g
  <2> QED BY <2>1, <2>2, Zenon DEF g
<1>6. e.up BY DEF Session
<1> QED BY <1>1, <1>2, <1>3, <1>4, <1>5, <1>6 DEF Session

-----------------------------------------------------------------------------
(* What the server makes of a line.                                        *)

\* A line of the server's, and one of ours, by themselves.
LEMMA OneSaid ==
    ASSUME NEW l \in ServerLine
    PROVE  /\ <<l>> \in Seq(ServerLine)
           /\ \A i \in DOMAIN <<l>> : <<l>>[i] = l
           /\ \A n : Says(<<l>>, n) <=> l.num = n
           /\ \A a, b : (\A m \in UserModes : m \in b <=> IF Touches(l, m) THEN Gives(l, m) ELSE m \in a)
                            => ModesFollow(<<l>>, a, b)
<1> DEFINE h == <<l>>
<1>1. h \in Seq(ServerLine) /\ DOMAIN h = {1} /\ h[1] = l OBVIOUS
<1> HIDE DEF h
<1>2. \A i \in DOMAIN h : h[i] = l BY <1>1
<1>3. \A n : Says(h, n) <=> l.num = n BY <1>1 DEF Says
<1>4. ASSUME NEW a, NEW b, \A m \in UserModes : m \in b <=> IF Touches(l, m) THEN Gives(l, m) ELSE m \in a
      PROVE  ModesFollow(h, a, b)
    BY <1>1, <1>4 DEF ModesFollow
<1> QED BY <1>1, <1>2, <1>3, <1>4 DEF h

LEMMA OneSent ==
    ASSUME NEW l \in ClientLine
    PROVE  <<l>> \in Seq(ClientLine) /\ \A c : Has(<<l>>, c) <=> l.cmd = c
<1> DEFINE h == <<l>>
<1>1. h \in Seq(ClientLine) /\ DOMAIN h = {1} /\ h[1] = l OBVIOUS
<1> HIDE DEF h
<1> QED BY <1>1 DEF Has, h

\* The server reads a line of somebody it has let in.
LEMMA SessionReadIn ==
    ASSUME NEW e \in LoginEntry, NEW p \in Peer, NEW q \in Seq(ClientLine), NEW f \in Seq(ServerLine), NEW secret,
           NEW r \in Peer, NEW h \in Seq(ServerLine), Session(e, p, q, f, secret), q # <<>>,
           p.registered, r.registered, r.nick # NoNick, ModesFollow(h, p.modes, r.modes),
           NickFollows(f \o h, Tail(q), e.nickname, r.nick),
           IF Head(q).cmd = "AWAY" THEN r.away = Head(q).text ELSE r.away = p.away,
           Says(h, "464") => Head(q).cmd = "OPER"
    PROVE  Session(e, r, Tail(q), f \o h, secret)
<1>1. \A c : Has(q, c) <=> Head(q).cmd = c \/ Has(Tail(q), c) BY HasBeheaded
<1>2. \A n : Says(f \o h, n) <=> Says(f, n) \/ Says(h, n) BY SaysJoined
<1>3. AwayFollows(f, q, e.away, p.away, TRUE)
  <2>1. p.registered = TRUE BY DEF Peer
  <2>2. AwayFollows(f, q, e.away, p.away, p.registered) BY DEF Session
  <2> QED BY <2>1, <2>2
<1>4. ~Has(Tail(q), "AWAY") => r.away = e.away \/ (e.away # "" /\ Says(f \o h, "002"))
  <2>1. SaysAway(q, e.away) BY <1>3 DEF AwayFollows
  <2>2. Head(q).cmd = "AWAY" /\ ~Has(Tail(q), "AWAY") => Head(q).text = e.away BY <2>1, AwayRead
  <2> QED BY <1>1, <1>2, <1>3, <2>2 DEF AwayFollows
<1>5. Says(f \o h, "464") => e.operCommand BY <1>1, <1>2 DEF Session
<1> QED BY <1>4, <1>5, SessionRead

\* The server reads a line of somebody it has not let in, and still does not.
LEMMA SessionReadOut ==
    ASSUME NEW e \in LoginEntry, NEW p \in Peer, NEW q \in Seq(ClientLine), NEW f \in Seq(ServerLine), NEW secret,
           NEW r \in Peer, NEW h \in Seq(ServerLine), Session(e, p, q, f, secret), q # <<>>,
           ~p.registered, ~r.registered, r.modes = p.modes, r.away = p.away,
           \A i \in DOMAIN h : h[i].num \in {"433", "451", "464"},
           p.user => r.user, Head(q).cmd = "USER" => r.user,
           r.pass = (p.pass \/ Head(q).cmd = "PASS"),
           Says(h, "464") => secret /\ ~r.pass /\ r.user,
           r.user /\ r.nick # NoNick => Says(h, "464") \/ (p.user /\ p.nick # NoNick)
    PROVE  Session(e, r, Tail(q), f \o h, secret)
<1>1. \A c : Has(q, c) <=> Head(q).cmd = c \/ Has(Tail(q), c) BY HasBeheaded
<1>2. \A n : Says(f \o h, n) <=> Says(f, n) \/ Says(h, n) BY SaysJoined
<1>3. e.up /\ Pending(p, q, f) BY DEF Session
<1>4. Pending(r, Tail(q), f \o h) BY <1>1, <1>2, <1>3 DEF Pending
<1>5. Head(q).cmd = "PASS" => ~p.user
  <2>1. Head(q) = q[1] /\ 1 \in DOMAIN q BY Behead
  <2>2. \A i \in DOMAIN q : q[i].cmd = "PASS" => i = 1 /\ ~p.user BY Zenon DEF Session
  <2> QED BY ONLY <2>1, <2>2
<1>6. Says(f, "464") => secret /\ ~p.pass /\ p.user BY DEF Session
<1>7. Says(f \o h, "464") => secret /\ ~r.pass /\ r.user BY <1>2, <1>5, <1>6
<1>8. ModesFollow(h, p.modes, r.modes)
  <2>1. \A i \in DOMAIN h : \A m : ~Touches(h[i], m) BY DEF Touches
  <2> QED BY <2>1 DEF ModesFollow
<1>9. r.away = "" BY DEF Session
<1> QED BY <1>4, <1>7, <1>8, <1>9, SessionRead


\* A login that is complete: the server lets us in, wants its password, or waits for the rest.
LEMMA SessionRegisters ==
    ASSUME NEW e \in LoginEntry, NEW p \in Peer, NEW q \in Seq(ClientLine), NEW f \in Seq(ServerLine),
           NEW r \in Peer, Session(e, p, q, f, loginEnv.secret), q # <<>>, ~p.registered, ~r.registered,
           r.modes = p.modes, r.away = p.away, r.pass = p.pass, p.user => r.user, Head(q).cmd = "USER" => r.user,
           Head(q).cmd \in {"NICK", "USER"}, p.nick # NoNick => r.nick # NoNick
    PROVE  /\ RegisteredAs(r).peer \in Peer /\ RegisteredAs(r).says \in Seq(ServerLine)
           /\ RegisteredAs(r).peer.nick = r.nick /\ RegisteredAs(r).peer.declined = r.declined
           /\ Session(e, RegisteredAs(r).peer, Tail(q), f \o RegisteredAs(r).says, loginEnv.secret)
<1>1. CASE r.nick = NoNick \/ ~r.user
  <2>1. RegisteredAs(r).peer = r /\ RegisteredAs(r).says = <<>> BY <1>1 DEF RegisteredAs
  <2>2. /\ ~Says(<<>>, "464") /\ <<>> \in Seq(ServerLine)
        /\ \A i \in DOMAIN <<>> : <<>>[i].num \in {"433", "451", "464"}
    BY Silence
  <2>3. r.pass = (p.pass \/ Head(q).cmd = "PASS") BY DEF Peer
  <2>4. Session(e, r, Tail(q), f \o <<>>, loginEnv.secret) BY <1>1, <2>2, <2>3, SessionReadOut
  <2> QED BY <2>1, <2>2, <2>4
<1>2. CASE ~(r.nick = NoNick \/ ~r.user) /\ loginEnv.secret /\ ~r.pass
  <2> DEFINE l == [num |-> "464"]
             h == <<l>>
  <2>1. RegisteredAs(r).peer = r /\ RegisteredAs(r).says = h BY <1>2 DEF RegisteredAs
  <2>2. l \in ServerLine /\ l.num = "464" BY DEF ServerLine
  <2> HIDE DEF l
  <2>3. Says(h, "464") /\ h \in Seq(ServerLine) /\ \A i \in DOMAIN h : h[i].num = "464" BY <2>2, OneSaid
  <2> HIDE DEF h
  <2>4. r.pass = (p.pass \/ Head(q).cmd = "PASS") BY DEF Peer
  <2>5. Session(e, r, Tail(q), f \o h, loginEnv.secret) BY <1>2, <2>3, <2>4, SessionReadOut
  <2> QED BY <2>1, <2>3, <2>5
<1>3. CASE ~(r.nick = NoNick \/ ~r.user) /\ ~(loginEnv.secret /\ ~r.pass)
  <2> DEFINE x == [num |-> "001", nick |-> r.nick]
             y == [num |-> "002"]
             z == [num |-> "376"]
             h == <<x, y, z>>
             b == [r EXCEPT !.registered = TRUE]
  <2>1. RegisteredAs(r).peer = b /\ RegisteredAs(r).says = h BY <1>3 DEF RegisteredAs
  <2>2. b \in Peer /\ b.registered /\ b.nick = r.nick /\ b.modes = r.modes /\ b.away = r.away /\ b.declined = r.declined
    BY DEF Peer
  <2>3. r.nick \in Nicknames BY <1>3 DEF Peer
  <2>4. /\ x \in ServerLine /\ y \in ServerLine /\ z \in ServerLine
        /\ x.num = "001" /\ x.nick = r.nick /\ y.num = "002" /\ z.num = "376"
    BY <2>3 DEF ServerLine
  <2> HIDE DEF b, x, y, z
  <2>5. h \in Seq(ServerLine) /\ DOMAIN h = {1, 2, 3} /\ h[1] = x /\ h[2] = y /\ h[3] = z BY <2>4
  <2> HIDE DEF h
  <2>6. Says(h, "001") /\ Says(h, "002") /\ ~Says(h, "464") BY <2>4, <2>5 DEF Says
  <2>7. \A i \in DOMAIN h : h[i].num \in {"001", "002", "376"} /\ (h[i].num = "001" => h[i].nick = r.nick)
    BY <2>4, <2>5
  <2>8. ModesFollow(h, p.modes, b.modes)
    <3>1. \A i \in DOMAIN h : \A m : ~Touches(h[i], m) BY <2>7 DEF Touches
    <3> QED BY <2>2, <3>1 DEF ModesFollow
  <2>9. \A n : Says(f \o h, n) <=> Says(f, n) \/ Says(h, n) BY <2>5, SaysJoined
  <2>10. NickFollows(f \o h, Tail(q), e.nickname, b.nick)
    <3> DEFINE g == f \o h
    <3>1. \A k \in DOMAIN g : \/ k \in DOMAIN f /\ g[k] = f[k]
                              \/ k - Len(f) \in DOMAIN h /\ g[k] = h[k - Len(f)]
      BY ONLY f \in Seq(ServerLine), <2>5, Joined
    <3>2. \A i \in DOMAIN f : f[i].num \in {"433", "451", "464"} BY DEF Session
    <3> HIDE DEF g
    <3>3. ASSUME NEW i \in DOMAIN g, g[i].num \in {"001", "NICK"} PROVE Leads(g, i + 1, NewName(g[i]), b.nick)
      <4>1. g[i].num = "001" /\ g[i].nick = r.nick BY <2>7, <3>1, <3>2, <3>3, SMTT(30)
      <4> QED BY <2>2, <4>1 DEF Leads, NewName
    <3>4. Says(g, "001") BY <2>6, <2>9 DEF g
    <3> QED BY <3>3, <3>4 DEF NickFollows, g
  <2>11. r.away = "" BY DEF Session
  <2>12. Says(f, "464") => loginEnv.secret /\ ~p.pass BY DEF Session
  <2>13. ~Says(f \o h, "464") BY <1>3, <2>6, <2>9, <2>12
  <2>14. ~Has(Tail(q), "AWAY") => b.away = e.away \/ (e.away # "" /\ Says(f \o h, "002"))
    BY <2>2, <2>6, <2>9, <2>11
  <2>15. b.nick # NoNick BY <2>2, <1>3
  <2>16. Session(e, b, Tail(q), f \o h, loginEnv.secret)
    BY <2>2, <2>5, <2>8, <2>10, <2>13, <2>14, <2>15, SessionRead
  <2> QED BY <2>1, <2>2, <2>5, <2>16
<1> QED BY <1>1, <1>2, <1>3

\* Whatever it reads, the connection is as it should be; who wants a nickname gets it or is refused.
LEMMA SessionTaken ==
    ASSUME NEW e \in LoginEntry, NEW p \in Peer, NEW q \in Seq(ClientLine), NEW f \in Seq(ServerLine),
           Session(e, p, q, f, loginEnv.secret), q # <<>>, NEW a, a = PeerTakes(p, Head(q))
    PROVE  /\ a.peer \in Peer /\ a.says \in Seq(ServerLine)
           /\ Session(e, a.peer, Tail(q), f \o a.says, loginEnv.secret)
           /\ ~a.peer.registered /\ a.peer.nick = NoNick =>
                  /\ p.nick = NoNick /\ ~p.registered
                  /\ IF Head(q).cmd = "NICK" THEN Says(a.says, "433") ELSE a.peer.declined = p.declined
<1> DEFINE l == Head(q)
<1>1. /\ l \in ClientLine /\ l.cmd \in {"PASS", "USER", "NICK", "MODE", "AWAY", "OPER"}
      /\ (l.cmd = "NICK" => l.nick \in Nicknames)
      /\ (l.cmd = "MODE" => l.on \subseteq UserModes /\ l.off \subseteq UserModes)
      /\ (l.cmd = "AWAY" => l.text \in Away) /\ (l.cmd = "OPER" => l.right \in BOOLEAN)
  <2>1. l \in ClientLine BY Behead
  <2> HIDE DEF l
  <2> QED BY <2>1, ClientLineParts
<1>2. /\ p.registered => p.nick # NoNick /\ p.nick \in Nicknames /\ NickFollows(f, q, e.nickname, p.nick)
      /\ p.nick \in Nicknames \cup {NoNick} /\ p.modes \subseteq UserModes
      /\ p.registered \in BOOLEAN /\ p.pass \in BOOLEAN /\ p.user \in BOOLEAN
  <2>1. /\ p.nick \in Nicknames \cup {NoNick} /\ p.modes \subseteq UserModes
        /\ p.registered \in BOOLEAN /\ p.pass \in BOOLEAN /\ p.user \in BOOLEAN
    BY DEF Peer
  <2>2. p.registered => p.nick # NoNick /\ NickFollows(f, q, e.nickname, p.nick) BY DEF Session
  <2> QED BY <2>1, <2>2
<1>3. ASSUME l.cmd # "NICK" \/ l.nick \in Taken \/ l.nick = p.nick, p.registered
      PROVE  \A h \in Seq(ServerLine) : ~Says(h, "001") /\ ~Says(h, "NICK")
                 => NickFollows(f \o h, Tail(q), e.nickname, p.nick)
  <2>1. NickFollows(f, Tail(q), e.nickname, p.nick) BY <1>2, <1>3, NickRead
  <2> QED BY <2>1, NickKept
<1> HIDE DEF l
<1>4. CASE l.cmd = "NICK" /\ l.nick \in Taken
  <2> DEFINE x == [num |-> "433"]
             h == <<x>>
             r == [p EXCEPT !.declined = FALSE]
  <2>1. a = [peer |-> r, says |-> h] BY <1>4 DEF PeerTakes, l
  <2>7. /\ r \in Peer /\ r.registered = p.registered /\ r.modes = p.modes /\ r.away = p.away
        /\ r.user = p.user /\ r.nick = p.nick /\ r.pass = p.pass
    BY DEF Peer
  <2> HIDE DEF r
  <2>2. x \in ServerLine /\ x.num = "433" BY DEF ServerLine
  <2> HIDE DEF x
  <2>3. /\ \A n : Says(h, n) <=> n = "433"
        /\ h \in Seq(ServerLine) /\ \A i \in DOMAIN h : h[i].num = "433"
    BY <2>2, OneSaid
  <2>4. ModesFollow(h, p.modes, p.modes)
    <3>1. \A m : ~Touches(x, m) BY <2>2 DEF Touches
    <3> QED BY <2>2, <3>1, OneSaid
  <2> HIDE DEF h
  <2>8. a.peer = r /\ a.says = h BY <2>1
  <2>5. CASE p.registered
    <3>1. NickFollows(f \o h, Tail(q), e.nickname, r.nick) BY <1>3, <1>4, <2>3, <2>5, <2>7
    <3>3. ModesFollow(h, p.modes, r.modes) BY <2>4, <2>7
    <3>2. Session(e, r, Tail(q), f \o h, loginEnv.secret)
      BY <1>2, <1>4, <2>3, <2>5, <2>7, <3>1, <3>3, SessionReadIn DEF l
    <3> QED BY <2>3, <2>5, <2>7, <2>8, <3>2
  <2>6. CASE ~p.registered
    <3>1. p.user /\ p.nick # NoNick => Says(f, "464") BY <2>6 DEF Session, Pending
    <3>2. r.pass = (p.pass \/ Head(q).cmd = "PASS") BY <1>2, <1>4, <2>7 DEF l
    <3>3. Session(e, r, Tail(q), f \o h, loginEnv.secret)
      BY <1>2, <1>4, <2>3, <2>6, <2>7, <3>1, <3>2, SessionReadOut DEF l
    <3> QED BY <1>4, <2>3, <2>6, <2>7, <2>8, <3>3 DEF l
  <2> QED BY <2>5, <2>6
<1>5. CASE l.cmd = "NICK" /\ l.nick \notin Taken /\ p.registered
  <2> DEFINE r == [p EXCEPT !.nick = l.nick]
             x == [num |-> "NICK", from |-> p.nick, to |-> l.nick]
             h == IF p.nick = l.nick THEN <<>> ELSE <<x>>
  <2>1. a = [peer |-> r, says |-> h] BY <1>5 DEF PeerTakes, l
  <2>2. /\ r \in Peer /\ r.nick = l.nick /\ r.registered /\ r.modes = p.modes /\ r.away = p.away
        /\ r.nick # NoNick
    BY <1>1, <1>5, LoginAssumption DEF Peer
  <2>3. x \in ServerLine /\ x.num = "NICK" /\ x.from = p.nick /\ x.to = l.nick BY <1>1, <1>2, <1>5 DEF ServerLine
  <2> HIDE DEF r, x
  <2>4. h \in Seq(ServerLine) /\ ModesFollow(h, p.modes, r.modes) /\ ~Says(h, "464")
    <3>1. \A m : ~Touches(x, m) BY <2>3 DEF Touches
    <3>2. <<x>> \in Seq(ServerLine) /\ ModesFollow(<<x>>, p.modes, p.modes) /\ ~Says(<<x>>, "464")
      BY <2>3, <3>1, OneSaid
    <3> QED BY <2>2, <3>2, Silence
  <2>5. NickFollows(f \o h, Tail(q), e.nickname, r.nick)
    <3>1. CASE p.nick = l.nick BY <1>3, <1>5, <2>2, <3>1, Silence
    <3>2. CASE p.nick # l.nick
      <4>1. NickFollows(f \o <<x>>, q, e.nickname, r.nick) BY <1>2, <1>5, <2>2, <2>3, NickTold
      <4>2. h = <<x>> BY <3>2
      <4>3. Head(q).cmd = "NICK" => Head(q).nick = r.nick BY <2>2 DEF l
      <4> HIDE DEF h
      <4> QED BY <4>1, <4>2, <4>3, NickRead
    <3> QED BY <3>1, <3>2
  <2> HIDE DEF h
  <2>6. Session(e, r, Tail(q), f \o h, loginEnv.secret)
    BY <1>5, <2>2, <2>4, <2>5, SessionReadIn DEF l
  <2> QED BY <2>1, <2>2, <2>4, <2>6
<1>6. CASE ((l.cmd = "NICK" /\ l.nick \notin Taken) \/ l.cmd = "USER") /\ ~p.registered
  <2> DEFINE r == IF l.cmd = "NICK" THEN [p EXCEPT !.nick = l.nick] ELSE [p EXCEPT !.user = TRUE]
  <2>1. a = RegisteredAs(r) BY <1>6 DEF PeerTakes, l
  <2>2. /\ r \in Peer /\ ~r.registered /\ r.modes = p.modes /\ r.away = p.away /\ r.pass = p.pass
        /\ (p.user => r.user) /\ (l.cmd = "USER" => r.user) /\ (p.nick # NoNick => r.nick # NoNick)
        /\ (l.cmd = "NICK" => r.nick # NoNick) /\ (r.nick = NoNick => p.nick = NoNick)
        /\ r.declined = p.declined
    BY <1>1, <1>2, <1>6, LoginAssumption DEF Peer
  <2> HIDE DEF r
  <2>3. /\ RegisteredAs(r).peer \in Peer /\ RegisteredAs(r).says \in Seq(ServerLine)
        /\ RegisteredAs(r).peer.nick = r.nick /\ RegisteredAs(r).peer.declined = r.declined
        /\ Session(e, RegisteredAs(r).peer, Tail(q), f \o RegisteredAs(r).says, loginEnv.secret)
    BY <1>6, <2>2, SessionRegisters DEF l
  <2> QED BY <1>6, <2>1, <2>2, <2>3 DEF l
<1>7. CASE l.cmd \in {"USER", "PASS"} /\ p.registered
  <2>1. a = [peer |-> p, says |-> <<>>] BY <1>7 DEF PeerTakes, l
  <2>2. NickFollows(f \o <<>>, Tail(q), e.nickname, p.nick) BY <1>3, <1>7, Silence
  <2>3. Session(e, p, Tail(q), f \o <<>>, loginEnv.secret) BY <1>2, <1>7, <2>2, Silence, SessionReadIn DEF l
  <2>10. <<>> \in Seq(ServerLine) BY Silence
  <2>11. a.peer = p /\ a.says = <<>> BY <2>1
  <2> QED BY <1>7, <2>3, <2>10, <2>11
<1>8. CASE l.cmd = "PASS" /\ ~p.registered
  <2> DEFINE r == [p EXCEPT !.pass = TRUE]
  <2>1. a = [peer |-> r, says |-> <<>>] BY <1>8 DEF PeerTakes, l
  <2>2. /\ r \in Peer /\ ~r.registered /\ r.modes = p.modes /\ r.away = p.away /\ r.user = p.user /\ r.nick = p.nick
        /\ r.pass /\ r.declined = p.declined
    BY <1>8 DEF Peer
  <2> HIDE DEF r
  <2>3. r.pass = (p.pass \/ Head(q).cmd = "PASS") BY <1>8, <2>2 DEF l, Peer
  <2>4. \A i \in DOMAIN <<>> : <<>>[i].num \in {"433", "451", "464"} BY Silence
  <2>5. Session(e, r, Tail(q), f \o <<>>, loginEnv.secret) BY <1>8, <2>2, <2>3, <2>4, Silence, SessionReadOut DEF l
  <2>10. <<>> \in Seq(ServerLine) BY Silence
  <2>11. a.peer = r /\ a.says = <<>> BY <2>1
  <2>12. Head(q).cmd # "NICK" BY <1>8 DEF l
  <2> QED BY <1>8, <2>2, <2>5, <2>10, <2>11, <2>12
<1>9. CASE l.cmd \in {"MODE", "AWAY", "OPER"} /\ ~p.registered
  <2> DEFINE x == [num |-> "451"]
             h == <<x>>
  <2>1. a = [peer |-> p, says |-> h] BY <1>9 DEF PeerTakes, l
  <2>2. x \in ServerLine /\ x.num = "451" BY DEF ServerLine
  <2> HIDE DEF x
  <2>3. ~Says(h, "464") /\ h \in Seq(ServerLine) /\ \A i \in DOMAIN h : h[i].num = "451" BY <2>2, OneSaid
  <2> HIDE DEF h
  <2>4. p.pass = (p.pass \/ Head(q).cmd = "PASS") BY <1>2, <1>9 DEF l
  <2>5. Session(e, p, Tail(q), f \o h, loginEnv.secret) BY <1>9, <2>3, <2>4, SessionReadOut DEF l
  <2> QED BY <1>9, <2>1, <2>3, <2>5 DEF l
<1>10. CASE l.cmd = "MODE" /\ p.registered
  <2> DEFINE modes == (p.modes \cup l.on) \ l.off
             r == [p EXCEPT !.modes = modes]
             x == [num |-> "MODE", on |-> modes \ p.modes, off |-> p.modes \ modes]
             h == <<x>>
  <2>1. a = [peer |-> r, says |-> h] BY <1>10 DEF PeerTakes, l
  <2>2. modes \subseteq UserModes BY <1>1, <1>2, <1>10
  <2> HIDE DEF modes
  <2>3. r \in Peer /\ r.nick = p.nick /\ r.registered /\ r.modes = modes /\ r.away = p.away BY <1>10, <2>2 DEF Peer
  <2>4. x \in ServerLine /\ x.num = "MODE" /\ x.on = modes \ p.modes /\ x.off = p.modes \ modes
    BY <1>2, <2>2 DEF ServerLine
  <2> HIDE DEF r, x
  <2>5. ModesFollow(h, p.modes, r.modes)
    <3>1. \A m : Touches(x, m) <=> m \in (modes \ p.modes) \cup (p.modes \ modes) BY <2>4 DEF Touches
    <3>2. \A m : Gives(x, m) <=> m \in modes \ p.modes BY <2>4 DEF Gives
    <3>3. \A m \in UserModes : m \in modes <=> IF Touches(x, m) THEN Gives(x, m) ELSE m \in p.modes BY <3>1, <3>2
    <3> QED BY <2>3, <2>4, <3>3, OneSaid
  <2>6. h \in Seq(ServerLine) /\ \A n : Says(h, n) <=> n = "MODE" BY <2>4, OneSaid
  <2> HIDE DEF h
  <2>7. NickFollows(f \o h, Tail(q), e.nickname, r.nick) BY <1>3, <1>10, <2>3, <2>6
  <2>8. Session(e, r, Tail(q), f \o h, loginEnv.secret)
    BY <1>2, <1>10, <2>3, <2>5, <2>6, <2>7, SessionReadIn DEF l
  <2> QED BY <2>1, <2>3, <2>6, <2>8
<1>11. CASE l.cmd = "AWAY" /\ p.registered
  <2> DEFINE r == [p EXCEPT !.away = l.text]
  <2>1. a = [peer |-> r, says |-> <<>>] BY <1>11 DEF PeerTakes, l
  <2>2. r \in Peer /\ r.nick = p.nick /\ r.registered /\ r.modes = p.modes /\ r.away = l.text BY <1>1, <1>11 DEF Peer
  <2> HIDE DEF r
  <2>3. NickFollows(f \o <<>>, Tail(q), e.nickname, r.nick) BY <1>3, <1>11, <2>2, Silence
  <2>4. Session(e, r, Tail(q), f \o <<>>, loginEnv.secret)
    BY <1>2, <1>11, <2>2, <2>3, Silence, SessionReadIn DEF l
  <2>10. <<>> \in Seq(ServerLine) BY Silence
  <2>11. a.peer = r /\ a.says = <<>> BY <2>1
  <2> QED BY <2>2, <2>4, <2>10, <2>11
<1>12. CASE l.cmd = "OPER" /\ p.registered /\ ~l.right
  <2> DEFINE x == [num |-> "464"]
             h == <<x>>
  <2>1. a = [peer |-> p, says |-> h] BY <1>12 DEF PeerTakes, l
  <2>2. x \in ServerLine /\ x.num = "464" BY DEF ServerLine
  <2> HIDE DEF x
  <2>3. h \in Seq(ServerLine) /\ \A n : Says(h, n) <=> n = "464" BY <2>2, OneSaid
  <2>4. ModesFollow(h, p.modes, p.modes)
    <3>1. \A m : ~Touches(x, m) BY <2>2 DEF Touches
    <3> QED BY <2>2, <3>1, OneSaid
  <2> HIDE DEF h
  <2>5. NickFollows(f \o h, Tail(q), e.nickname, p.nick) BY <1>3, <1>12, <2>3
  <2>6. Session(e, p, Tail(q), f \o h, loginEnv.secret)
    BY <1>2, <1>12, <2>3, <2>4, <2>5, SessionReadIn DEF l
  <2> QED BY <1>12, <2>1, <2>3, <2>6
<1>13. CASE l.cmd = "OPER" /\ p.registered /\ l.right
  <2> DEFINE r == [p EXCEPT !.modes = @ \cup {"o"}]
             x == [num |-> "381"]
             y == [num |-> "MODE", on |-> {"o"}, off |-> {}]
             h == <<x, y>>
  <2>1. a = [peer |-> r, says |-> h] BY <1>13 DEF PeerTakes, l
  <2>2. r \in Peer /\ r.nick = p.nick /\ r.registered /\ r.modes = p.modes \cup {"o"} /\ r.away = p.away
    BY <1>2, <1>13 DEF Peer, UserModes
  <2>3. /\ x \in ServerLine /\ x.num = "381" /\ y \in ServerLine
        /\ y.num = "MODE" /\ y.on = {"o"} /\ y.off = {}
    BY DEF ServerLine, UserModes
  <2> HIDE DEF r, x, y
  <2>4. h \in Seq(ServerLine) /\ DOMAIN h = {1, 2} /\ h[1] = x /\ h[2] = y BY <2>3
  <2> HIDE DEF h
  <2>5. ~Says(h, "464") /\ ~Says(h, "001") /\ ~Says(h, "NICK") BY <2>3, <2>4 DEF Says
  <2>6. \A i \in DOMAIN h : \A m : (Touches(h[i], m) <=> m = "o") /\ (Gives(h[i], m) <=> m = "o")
    BY <2>3, <2>4 DEF Touches, Gives
  <2>7. ModesFollow(h, p.modes, r.modes) BY <2>2, <2>4, <2>6 DEF ModesFollow
  <2>8. NickFollows(f \o h, Tail(q), e.nickname, r.nick) BY <1>3, <1>13, <2>2, <2>4, <2>5
  <2>9. Session(e, r, Tail(q), f \o h, loginEnv.secret)
    BY <1>2, <1>13, <2>2, <2>4, <2>5, <2>7, <2>8, SessionReadIn DEF l
  <2> QED BY <2>1, <2>2, <2>4, <2>9
<1> QED BY <1>1, <1>2, <1>4, <1>5, <1>6, <1>7, <1>8, <1>9, <1>10, <1>11, <1>12, <1>13

-----------------------------------------------------------------------------
(* Steps.                                                                  *)

\* What a step leaves alone, it changes to what it is.
LEMMA Idle ==
    ASSUME NEW S, NEW v \in [LoginServers -> S], NEW s \in LoginServers
    PROVE  v = [v EXCEPT ![s] = v[s]]
OBVIOUS

\* What happens to one server leaves the others as they are.
LEMMA OneServer ==
    ASSUME LoginInv, NEW s \in LoginServers, NEW d \in LoginEntry, NEW r \in Peer,
           NEW q \in Seq(ClientLine), NEW f \in Seq(ServerLine),
           entries' = [entries EXCEPT ![s] = d], peers' = [peers EXCEPT ![s] = r],
           toServer' = [toServer EXCEPT ![s] = q], fromServer' = [fromServer EXCEPT ![s] = f],
           Session(d, r, q, f, loginEnv.secret), loginEnv' = loginEnv,
           asking' \in Seq(Prompt), resetting' \in BOOLEAN, mine' \in Nicknames, window' \in LoginServers,
           d.up /\ ~r.registered /\ r.nick = NoNick /\ ~r.declined => Has(q, "NICK") \/ Says(f, "433") \/ NickPrompt(s)',
           \A t \in LoginServers \ {s} : NickPrompt(t) /\ LoggingIn(t) => NickPrompt(t)',
           Prompts'
    PROVE  LoginInv'
<1>1. LoginTypes' BY DEF LoginInv, LoginTypes
<1>2. /\ entries'[s] = d /\ peers'[s] = r /\ toServer'[s] = q /\ fromServer'[s] = f
      /\ \A t \in LoginServers \ {s} : /\ entries'[t] = entries[t] /\ peers'[t] = peers[t]
                                       /\ toServer'[t] = toServer[t] /\ fromServer'[t] = fromServer[t]
    BY DEF LoginInv, LoginTypes
<1>3. Sessions' BY <1>2 DEF LoginInv, Sessions
<1>4. ASSUME NEW t \in LoginServers PROVE NickAsked(t)'
  <2>1. CASE t = s BY <1>2, <2>1 DEF NickAsked
  <2>2. CASE t # s
    <3>1. NickAsked(t) /\ Session(entries[t], peers[t], toServer[t], fromServer[t], loginEnv.secret)
      BY DEF LoginInv, Sessions
    <3>2. entries[t].up /\ ~peers[t].registered => LoggingIn(t) BY <3>1 DEF Session, LoggingIn
    <3>3. NickPrompt(t) /\ LoggingIn(t) => NickPrompt(t)' BY <2>2
    <3>4. /\ entries'[t] = entries[t] /\ peers'[t] = peers[t]
          /\ toServer'[t] = toServer[t] /\ fromServer'[t] = fromServer[t]
      BY <1>2, <2>2
    <3> QED BY <3>1, <3>2, <3>3, <3>4 DEF NickAsked
  <2> QED BY <2>1, <2>2
<1> QED BY <1>1, <1>3, <1>4 DEF LoginInv

\* The prompts stay as they are where no server is being logged in to that was not before.
LEMMA PromptsKept ==
    ASSUME Prompts, UNCHANGED <<asking, resetting, window>>,
           \A t \in LoginServers : LoggingIn(t)' => LoggingIn(t),
           entries[window].operCommand => entries'[window].operCommand
    PROVE  Prompts' /\ \A t \in LoginServers : NickPrompt(t)' <=> NickPrompt(t)
BY DEF Prompts, NickPrompt

LEMMA OneQuiet ==
    ASSUME LoginInv, NEW s \in LoginServers, NEW d \in LoginEntry, NEW r \in Peer,
           NEW q \in Seq(ClientLine), NEW f \in Seq(ServerLine),
           entries' = [entries EXCEPT ![s] = d], peers' = [peers EXCEPT ![s] = r],
           toServer' = [toServer EXCEPT ![s] = q], fromServer' = [fromServer EXCEPT ![s] = f],
           Session(d, r, q, f, loginEnv.secret), UNCHANGED <<asking, resetting, window, loginEnv>>,
           mine' \in Nicknames,
           d.up /\ ~d.connected => LoggingIn(s), entries[s].operCommand => d.operCommand,
           d.up /\ ~r.registered /\ r.nick = NoNick /\ ~r.declined => Has(q, "NICK") \/ Says(f, "433") \/ NickPrompt(s)
    PROVE  LoginInv'
<1>1. /\ entries'[s] = d /\ \A t \in LoginServers \ {s} : entries'[t] = entries[t]
      /\ asking \in Seq(Prompt) /\ resetting \in BOOLEAN /\ window \in LoginServers
    BY DEF LoginInv, LoginTypes
<1>2. \A t \in LoginServers : LoggingIn(t)' => LoggingIn(t)
  <2> TAKE t \in LoginServers
  <2>1. CASE t = s BY <1>1, <2>1 DEF LoggingIn
  <2>2. CASE t # s BY <1>1, <2>2 DEF LoggingIn
  <2> QED BY <2>1, <2>2
<1>3. entries[window].operCommand => entries'[window].operCommand
  <2>1. CASE window = s BY <1>1, <2>1
  <2>2. CASE window # s BY <1>1, <2>2
  <2> QED BY <2>1, <2>2
<1>4. Prompts' /\ \A t \in LoginServers : NickPrompt(t)' <=> NickPrompt(t) BY <1>2, <1>3, PromptsKept DEF LoginInv
<1> QED BY <1>1, <1>4, OneServer

\* What the invariant says of one server.
LEMMA Here ==
    ASSUME LoginInv, NEW s \in LoginServers
    PROVE  /\ entries[s] \in LoginEntry /\ peers[s] \in Peer
           /\ toServer[s] \in Seq(ClientLine) /\ fromServer[s] \in Seq(ServerLine)
           /\ Session(entries[s], peers[s], toServer[s], fromServer[s], loginEnv.secret) /\ NickAsked(s)
           /\ entries = [entries EXCEPT ![s] = entries[s]] /\ peers = [peers EXCEPT ![s] = peers[s]]
           /\ toServer = [toServer EXCEPT ![s] = toServer[s]] /\ fromServer = [fromServer EXCEPT ![s] = fromServer[s]]
           /\ mine \in Nicknames /\ window \in LoginServers /\ toServer[s] \o <<>> = toServer[s]
<1>1. /\ entries = [entries EXCEPT ![s] = entries[s]] /\ peers = [peers EXCEPT ![s] = peers[s]]
      /\ toServer = [toServer EXCEPT ![s] = toServer[s]] /\ fromServer = [fromServer EXCEPT ![s] = fromServer[s]]
    BY Idle DEF LoginInv, LoginTypes
<1>2. /\ entries[s] \in LoginEntry /\ peers[s] \in Peer
      /\ toServer[s] \in Seq(ClientLine) /\ fromServer[s] \in Seq(ServerLine)
      /\ mine \in Nicknames /\ window \in LoginServers
    BY DEF LoginInv, LoginTypes
<1>3. toServer[s] \o <<>> = toServer[s] BY <1>2, ConcatEmptySeq
<1> QED BY <1>1, <1>2, <1>3 DEF LoginInv, Sessions

LEMMA PeerReadsKeeps ==
    ASSUME LoginInv, NEW s \in LoginServers, PeerReads(s)
    PROVE  LoginInv'
<1> DEFINE e == entries[s]
           p == peers[s]
           q == toServer[s]
           f == fromServer[s]
           a == PeerTakes(p, Head(q))
<1>1. /\ q # <<>> /\ UNCHANGED <<entries, asking, resetting, mine, window, loginEnv>>
      /\ peers' = [peers EXCEPT ![s] = a.peer] /\ toServer' = [toServer EXCEPT ![s] = Tail(q)]
      /\ fromServer' = [fromServer EXCEPT ![s] = f \o a.says]
    BY DEF PeerReads
<1>2. /\ e \in LoginEntry /\ p \in Peer /\ q \in Seq(ClientLine) /\ f \in Seq(ServerLine)
      /\ Session(e, p, q, f, loginEnv.secret) /\ NickAsked(s) /\ mine \in Nicknames
      /\ entries = [entries EXCEPT ![s] = e]
    BY Here
<1>3. /\ a.peer \in Peer /\ a.says \in Seq(ServerLine)
      /\ Session(e, a.peer, Tail(q), f \o a.says, loginEnv.secret)
      /\ ~a.peer.registered /\ a.peer.nick = NoNick =>
             /\ p.nick = NoNick /\ ~p.registered
             /\ IF Head(q).cmd = "NICK" THEN Says(a.says, "433") ELSE a.peer.declined = p.declined
  <2> HIDE DEF e, p, q, f
  <2> QED BY <1>1, <1>2, SessionTaken
<1>4. /\ Tail(q) \in Seq(ClientLine) /\ f \o a.says \in Seq(ServerLine)
      /\ (Has(q, "NICK") <=> Head(q).cmd = "NICK" \/ Has(Tail(q), "NICK"))
      /\ (Says(f \o a.says, "433") <=> Says(f, "433") \/ Says(a.says, "433"))
  <2> HIDE DEF e, p, q, f, a
  <2> QED BY <1>1, <1>2, <1>3, Behead, Joined, HasBeheaded, SaysJoined
<1>5. e.up /\ ~a.peer.registered /\ a.peer.nick = NoNick /\ ~a.peer.declined =>
          Has(Tail(q), "NICK") \/ Says(f \o a.says, "433") \/ NickPrompt(s)
  <2>1. e.up /\ ~p.registered /\ p.nick = NoNick /\ ~p.declined => Has(q, "NICK") \/ Says(f, "433") \/ NickPrompt(s)
    BY <1>2 DEF NickAsked
  <2> HIDE DEF e, p, q, f, a
  <2> QED BY <1>3, <1>4, <2>1
<1>6. e.up /\ ~e.connected => LoggingIn(s) BY DEF LoggingIn
<1> HIDE DEF p, q, f, a
<1> QED BY <1>1, <1>2, <1>3, <1>4, <1>5, <1>6, OneQuiet

\* Services change what the server has of us and say so.
LEMMA PeerForcesKeeps ==
    ASSUME LoginInv, NEW s \in LoginServers, PeerForces(s)
    PROVE  LoginInv'
<1> DEFINE e == entries[s]
           p == peers[s]
           q == toServer[s]
           f == fromServer[s]
<1>1. /\ e \in LoginEntry /\ p \in Peer /\ q \in Seq(ClientLine) /\ f \in Seq(ServerLine)
      /\ Session(e, p, q, f, loginEnv.secret) /\ mine \in Nicknames
      /\ entries = [entries EXCEPT ![s] = e] /\ toServer = [toServer EXCEPT ![s] = q]
    BY Here
<1>2. p.registered /\ UNCHANGED <<entries, toServer, asking, resetting, mine, window, loginEnv>> BY DEF PeerForces
<1>3. \E r \in Peer, l \in ServerLine :
          /\ peers' = [peers EXCEPT ![s] = r] /\ fromServer' = [fromServer EXCEPT ![s] = f \o <<l>>]
          /\ r.registered /\ r.away = p.away /\ r.user = p.user /\ l.num \notin {"001", "464"}
          /\ IF l.num = "NICK" THEN l.from = p.nick /\ l.to = r.nick /\ r.nick \in Nicknames ELSE r.nick = p.nick
          /\ \A m \in UserModes : m \in r.modes <=> IF Touches(l, m) THEN Gives(l, m) ELSE m \in p.modes
  <2>1. \A l : Append(f, l) = f \o <<l>> OBVIOUS
  <2>2. CASE \E nick \in Nicknames \ (Taken \cup {p.nick}) :
               /\ peers' = [peers EXCEPT ![s].nick = nick]
               /\ fromServer' = [fromServer EXCEPT ![s] = Append(@, [num |-> "NICK", from |-> p.nick, to |-> nick])]
    <3>1. PICK nick \in Nicknames \ (Taken \cup {p.nick}) :
               /\ peers' = [peers EXCEPT ![s].nick = nick]
               /\ fromServer' = [fromServer EXCEPT ![s] = Append(@, [num |-> "NICK", from |-> p.nick, to |-> nick])]
      BY <2>2
    <3> DEFINE r == [p EXCEPT !.nick = nick]
               l == [num |-> "NICK", from |-> p.nick, to |-> nick]
    <3>2. p.nick \in Nicknames BY <1>1, <1>2 DEF Session, Peer
    <3>3. r \in Peer /\ r.registered /\ r.away = p.away /\ r.user = p.user /\ r.modes = p.modes /\ r.nick = nick BY <1>1, <1>2 DEF Peer
    <3>4. l \in ServerLine /\ l.num = "NICK" /\ l.from = p.nick /\ l.to = nick BY <3>2 DEF ServerLine
    <3>5. peers' = [peers EXCEPT ![s] = r] /\ fromServer' = [fromServer EXCEPT ![s] = f \o <<l>>]
      BY <2>1, <3>1
    <3> HIDE DEF r, l
    <3>6. \A m : ~Touches(l, m) BY <3>4 DEF Touches
    <3> QED BY <3>3, <3>4, <3>5, <3>6
  <2>3. CASE \E mode \in {"i", "w"} :
               /\ peers' = [peers EXCEPT ![s].modes = @ \cup {mode}]
               /\ fromServer' = [fromServer EXCEPT ![s] = Append(@, [num |-> "MODE", on |-> {mode}, off |-> {}])]
    <3>1. PICK mode \in {"i", "w"} :
               /\ peers' = [peers EXCEPT ![s].modes = @ \cup {mode}]
               /\ fromServer' = [fromServer EXCEPT ![s] = Append(@, [num |-> "MODE", on |-> {mode}, off |-> {}])]
      BY <2>3
    <3> DEFINE r == [p EXCEPT !.modes = p.modes \cup {mode}]
               l == [num |-> "MODE", on |-> {mode}, off |-> {}]
    <3>2. r \in Peer /\ r.registered /\ r.away = p.away /\ r.user = p.user /\ r.modes = p.modes \cup {mode} /\ r.nick = p.nick
      BY <1>1, <1>2 DEF Peer, UserModes
    <3>3. l \in ServerLine /\ l.num = "MODE" /\ l.on = {mode} /\ l.off = {} BY DEF ServerLine, UserModes
    <3>4. peers' = [peers EXCEPT ![s] = r] /\ fromServer' = [fromServer EXCEPT ![s] = f \o <<l>>]
      BY <2>1, <3>1
    <3> HIDE DEF r, l
    <3>5. \A m : (Touches(l, m) <=> m = mode) /\ (Gives(l, m) <=> m = mode) BY <3>3 DEF Touches, Gives
    <3> QED BY <3>2, <3>3, <3>4, <3>5
  <2>4. CASE /\ peers' = [peers EXCEPT ![s].modes = @ \ {"o"}]
             /\ fromServer' = [fromServer EXCEPT ![s] = Append(@, [num |-> "385"])]
    <3> DEFINE r == [p EXCEPT !.modes = p.modes \ {"o"}]
               l == [num |-> "385"]
    <3>1. r \in Peer /\ r.registered /\ r.away = p.away /\ r.user = p.user /\ r.modes = p.modes \ {"o"} /\ r.nick = p.nick
      BY <1>1, <1>2 DEF Peer
    <3>2. l \in ServerLine /\ l.num = "385" BY DEF ServerLine
    <3>3. peers' = [peers EXCEPT ![s] = r] /\ fromServer' = [fromServer EXCEPT ![s] = f \o <<l>>]
      BY <2>1, <2>4
    <3> HIDE DEF r, l
    <3>4. \A m : (Touches(l, m) <=> m = "o") /\ ~Gives(l, m) BY <3>2 DEF Touches, Gives
    <3> QED BY <3>1, <3>2, <3>3, <3>4
  <2> QED BY <2>2, <2>3, <2>4 DEF PeerForces
<1>4. PICK r \in Peer, l \in ServerLine :
          /\ peers' = [peers EXCEPT ![s] = r] /\ fromServer' = [fromServer EXCEPT ![s] = f \o <<l>>]
          /\ r.registered /\ r.away = p.away /\ r.user = p.user /\ l.num \notin {"001", "464"}
          /\ IF l.num = "NICK" THEN l.from = p.nick /\ l.to = r.nick /\ r.nick \in Nicknames ELSE r.nick = p.nick
          /\ \A m \in UserModes : m \in r.modes <=> IF Touches(l, m) THEN Gives(l, m) ELSE m \in p.modes
    BY <1>3
<1>5. e = entries[s] /\ (LoggingIn(s) <=> e.up /\ ~e.connected) BY DEF LoggingIn
<1> HIDE DEF e, p, q, f
<1> DEFINE h == <<l>>
<1>6. h \in Seq(ServerLine) /\ ModesFollow(h, p.modes, r.modes) /\ \A n : Says(h, n) <=> l.num = n BY <1>4, OneSaid
<1>7. \A n : Says(f \o h, n) <=> Says(f, n) \/ Says(h, n)
  <2> HIDE DEF h
  <2> QED BY <1>1, <1>6, SaysJoined
<1>8. p.nick # NoNick /\ p.nick \in Nicknames /\ NickFollows(f, q, e.nickname, p.nick) BY <1>1, <1>2 DEF Session, Peer
<1>9. NickFollows(f \o h, q, e.nickname, r.nick)
  <2>1. CASE l.num = "NICK" BY <1>1, <1>4, <1>8, <2>1, NickTold
  <2>2. CASE l.num # "NICK"
    <3> HIDE DEF h
    <3> QED BY <1>1, <1>4, <1>6, <1>8, <2>2, NickKept
  <2> QED BY <2>1, <2>2
<1>10. ModesFollow(f \o h, e.flags, r.modes)
  <2> HIDE DEF h
  <2> QED BY <1>1, <1>6, ModesJoined DEF Session
<1>11. AwayFollows(f \o h, q, e.away, r.away, r.registered)
  <2>1. AwayFollows(f, q, e.away, p.away, p.registered) BY <1>1 DEF Session
  <2> HIDE DEF h
  <2> QED BY <1>2, <1>4, <1>7, <2>1 DEF AwayFollows
<1>12. r.nick # NoNick BY <1>4, <1>8, LoginAssumption
<1> HIDE DEF h
<1>13. Session(e, r, q, f \o h, loginEnv.secret)
  <2>1. e.up
    <3>1. ~Stranger.registered BY DEF Stranger
    <3>2. ~e.up => p = Stranger BY <1>1 DEF Session
    <3> QED BY <1>2, <3>1, <3>2
  <2>2. Says(f \o h, "464") <=> Says(f, "464") BY <1>4, <1>6, <1>7
  <2>3. \A i \in DOMAIN q : q[i].cmd = "PASS" => i = 1 /\ ~r.user
    <3>1. \A i \in DOMAIN q : q[i].cmd = "PASS" => i = 1 /\ ~p.user BY <1>1, Zenon DEF Session
    <3> QED BY <1>4, <3>1
  <2> QED BY <1>1, <1>2, <1>4, <1>9, <1>10, <1>11, <1>12, <2>1, <2>2, <2>3 DEF Session
<1>14. f \o h \in Seq(ServerLine) BY <1>1, <1>6, Joined
<1> QED BY <1>1, <1>2, <1>4, <1>5, <1>13, <1>14, OneQuiet, ZenonT(60) DEF h


\* A connection ends: nothing of it is left.
LEMMA EndKeeps ==
    ASSUME LoginInv, NEW s \in LoginServers, ConnectionEnds(s), UNCHANGED <<asking, resetting, mine, window, loginEnv>>
    PROVE  LoginInv'
<1> DEFINE d == ClosedEntry(entries[s])
<1>1. entries[s] \in LoginEntry /\ mine \in Nicknames BY Here
<1>2. d \in LoginEntry /\ ~d.up /\ ~d.connected /\ d.flags = {} /\ d.operCommand = entries[s].operCommand
    BY <1>1 DEF ClosedEntry, LoginEntry
<1>3. Session(d, Stranger, <<>>, <<>>, loginEnv.secret) BY <1>2, SessionDown
<1>4. Stranger \in Peer /\ <<>> \in Seq(ClientLine) /\ <<>> \in Seq(ServerLine) BY Silence DEF Stranger, Peer, Away
<1>5. /\ entries' = [entries EXCEPT ![s] = d] /\ peers' = [peers EXCEPT ![s] = Stranger]
      /\ toServer' = [toServer EXCEPT ![s] = <<>>] /\ fromServer' = [fromServer EXCEPT ![s] = <<>>]
    BY DEF ConnectionEnds
<1> HIDE DEF d
<1> QED BY <1>1, <1>2, <1>3, <1>4, <1>5, OneQuiet

\* The client hears a line, and perhaps answers.
LEMMA HeardKeeps ==
    ASSUME LoginInv, NEW s \in LoginServers, NEW d \in LoginEntry, NEW h \in Seq(ClientLine),
           fromServer[s] # <<>>, Heard(s), UNCHANGED <<asking, resetting, window, loginEnv>>, mine' \in Nicknames,
           entries' = [entries EXCEPT ![s] = d], toServer' = [toServer EXCEPT ![s] = toServer[s] \o h],
           d.up, d.away = entries[s].away, d.operCommand = entries[s].operCommand,
           d.connected \/ (d.attempting /\ ~entries[s].connected), d.connected => peers[s].registered,
           d.nickname = LET l == Head(fromServer[s])
                        IN  IF l.num = "001" THEN l.nick
                            ELSE IF l.num = "NICK" /\ l.from = entries[s].nickname THEN l.to ELSE entries[s].nickname,
           \A m \in UserModes :
               m \in d.flags <=> LET l == Head(fromServer[s])
                                 IN  IF Touches(l, m) THEN Gives(l, m) ELSE m \in entries[s].flags,
           SaysAway(toServer[s] \o h, entries[s].away),
           Head(fromServer[s]).num = "002" /\ entries[s].away # "" => Has(h, "AWAY"),
           ~Has(h, "PASS"), ~Has(h, "OPER"), ~peers[s].registered => Head(fromServer[s]).num # "464",
           ~peers[s].registered /\ Head(fromServer[s]).num = "433" => NickPrompt(s)
    PROVE  LoginInv'
<1> DEFINE e == entries[s]
           p == peers[s]
           q == toServer[s]
           f == fromServer[s]
           l == Head(f)
<1>1. /\ e \in LoginEntry /\ p \in Peer /\ q \in Seq(ClientLine) /\ f \in Seq(ServerLine)
      /\ Session(e, p, q, f, loginEnv.secret) /\ peers = [peers EXCEPT ![s] = p]
    BY Here
<1>2. e.up BY <1>1 DEF Session
<1>3. /\ fromServer' = [fromServer EXCEPT ![s] = Tail(f)] /\ peers' = peers BY DEF Heard
<1>4. LoggingIn(s) <=> ~e.connected BY <1>2 DEF LoggingIn
<1>5. e.up /\ ~p.registered /\ p.nick = NoNick /\ ~p.declined => Has(q, "NICK") \/ Says(f, "433") \/ NickPrompt(s)
    BY Here DEF NickAsked
<1>6. /\ d.nickname = IF l.num = "001" THEN l.nick ELSE IF l.num = "NICK" /\ l.from = e.nickname THEN l.to ELSE e.nickname
      /\ \A m \in UserModes : m \in d.flags <=> IF Touches(l, m) THEN Gives(l, m) ELSE m \in e.flags
    OBVIOUS
<1>7. /\ d.away = e.away /\ d.operCommand = e.operCommand /\ (d.connected => p.registered)
      /\ d.connected \/ (d.attempting /\ ~e.connected)
      /\ SaysAway(q \o h, e.away) /\ (l.num = "002" /\ e.away # "" => Has(h, "AWAY"))
      /\ (~p.registered => l.num # "464") /\ (~p.registered /\ l.num = "433" => NickPrompt(s)) /\ f # <<>>
    OBVIOUS
<1>8. toServer' = [toServer EXCEPT ![s] = q \o h] /\ e = entries[s] OBVIOUS
<1> HIDE DEF e, p, q, f
<1>9. Session(d, p, q \o h, Tail(f), loginEnv.secret)
  <2>1. e.connected => d.connected BY <1>7
  <2> QED BY <1>1, <1>6, <1>7, <2>1, SessionHeard
<1>10. /\ (Says(f, "433") <=> l.num = "433" \/ Says(Tail(f), "433"))
       /\ (Has(q \o h, "NICK") <=> Has(q, "NICK") \/ Has(h, "NICK"))
       /\ Tail(f) \in Seq(ServerLine) /\ q \o h \in Seq(ClientLine)
    BY <1>1, <1>7, SaysBeheaded, HasJoined, Behead, Joined
<1> HIDE DEF l
<1>11. d.up /\ ~p.registered /\ p.nick = NoNick /\ ~p.declined => Has(q \o h, "NICK") \/ Says(Tail(f), "433") \/ NickPrompt(s)
    BY <1>2, <1>5, <1>7, <1>10
<1>12. d.up /\ ~d.connected => LoggingIn(s) BY <1>4, <1>7
<1> QED BY <1>1, <1>3, <1>7, <1>8, <1>9, <1>10, <1>11, <1>12, OneQuiet, ZenonT(60)

\* What the client has when it hears a line: the connection is there.
LEMMA Hearing ==
    ASSUME LoginInv, NEW s \in LoginServers, NEW n, Hears(s, n)
    PROVE  /\ fromServer[s] # <<>> /\ Head(fromServer[s]).num = n /\ UNCHANGED <<window, loginEnv>>
           /\ entries[s].up /\ (entries[s].connected \/ entries[s].attempting)
           /\ entries[s].connected => peers[s].registered
           /\ Head(fromServer[s]) \in ServerLine /\ SaysAway(toServer[s], entries[s].away)
           /\ SaysAway(toServer[s] \o <<>>, entries[s].away)
           /\ ~peers[s].registered => n \in {"433", "451", "464"}
           /\ n = "464" /\ entries[s].operCommand => peers[s].registered
<1>1. fromServer[s] # <<>> /\ Head(fromServer[s]).num = n /\ UNCHANGED <<window, loginEnv>> BY DEF Hears
<1>2. /\ Session(entries[s], peers[s], toServer[s], fromServer[s], loginEnv.secret)
      /\ fromServer[s] \in Seq(ServerLine) /\ toServer[s] \o <<>> = toServer[s]
    BY Here
<1>3. /\ entries[s].up /\ (entries[s].connected \/ entries[s].attempting)
      /\ entries[s].connected => peers[s].registered
      /\ SaysAway(toServer[s], entries[s].away)
    BY <1>1, <1>2 DEF Session, AwayFollows
<1>4. /\ Head(fromServer[s]) = fromServer[s][1] /\ 1 \in DOMAIN fromServer[s] /\ fromServer[s][1] \in ServerLine
    BY <1>1, <1>2, Behead
<1>5. ~peers[s].registered => n \in {"433", "451", "464"} BY <1>1, <1>2, <1>4 DEF Session
<1>6. entries[s].operCommand => peers[s].registered BY <1>2, <1>3 DEF Session
<1> QED BY <1>1, <1>2, <1>3, <1>4, <1>5, <1>6

LEMMA WelcomedKeeps ==
    ASSUME LoginInv, NEW s \in LoginServers, Welcomed(s)
    PROVE  LoginInv'
<1> DEFINE e == entries[s]
           l == Head(fromServer[s])
           d == [e EXCEPT !.nickname = l.nick]
<1>1. Hears(s, "001") /\ Heard(s) /\ UNCHANGED <<toServer, asking, resetting>> BY DEF Welcomed
<1>2. /\ fromServer[s] # <<>> /\ l.num = "001" /\ UNCHANGED <<window, loginEnv>>
      /\ e.up /\ (e.connected \/ e.attempting) /\ (e.connected => peers[s].registered)
      /\ l \in ServerLine /\ SaysAway(toServer[s] \o <<>>, e.away)
    BY <1>1, Hearing
<1>3. l.nick \in Nicknames BY <1>2, ServerLineParts
<1>4. /\ e \in LoginEntry /\ mine \in Nicknames /\ toServer = [toServer EXCEPT ![s] = toServer[s]]
      /\ toServer[s] \o <<>> = toServer[s]
    BY Here
<1>5. mine' \in Nicknames /\ entries' = [entries EXCEPT ![s] = d]
    BY <1>3, <1>4 DEF Welcomed, Nicknamed
<1>6. toServer' = [toServer EXCEPT ![s] = toServer[s] \o <<>>] BY <1>1, <1>4
<1>7. /\ d \in LoginEntry /\ d.up /\ d.away = e.away /\ d.operCommand = e.operCommand /\ d.connected = e.connected
      /\ d.attempting = e.attempting /\ d.nickname = l.nick /\ d.flags = e.flags
    BY <1>2, <1>3, <1>4 DEF LoginEntry
<1>8. \A m : ~Touches(l, m) BY <1>2 DEF Touches
<1> HIDE DEF d
<1> QED BY <1>1, <1>2, <1>5, <1>6, <1>7, <1>8, Silence, HeardKeeps

LEMMA NickChangedKeeps ==
    ASSUME LoginInv, NEW s \in LoginServers, NickChanged(s)
    PROVE  LoginInv'
<1> DEFINE e == entries[s]
           l == Head(fromServer[s])
           d == IF l.from = e.nickname THEN [e EXCEPT !.nickname = l.to] ELSE e
<1>1. Hears(s, "NICK") /\ Heard(s) /\ UNCHANGED <<toServer, asking, resetting>> BY DEF NickChanged
<1>2. /\ fromServer[s] # <<>> /\ l.num = "NICK" /\ UNCHANGED <<window, loginEnv>>
      /\ e.up /\ (e.connected \/ e.attempting) /\ (e.connected => peers[s].registered)
      /\ l \in ServerLine /\ SaysAway(toServer[s] \o <<>>, e.away)
    BY <1>1, Hearing
<1>3. l.to \in Nicknames BY <1>2, ServerLineParts
<1>4. /\ e \in LoginEntry /\ mine \in Nicknames /\ toServer = [toServer EXCEPT ![s] = toServer[s]]
      /\ entries = [entries EXCEPT ![s] = e] /\ toServer[s] \o <<>> = toServer[s]
    BY Here
<1>5. mine' \in Nicknames /\ entries' = [entries EXCEPT ![s] = d]
    BY <1>3, <1>4 DEF NickChanged, Nicknamed
<1>6. toServer' = [toServer EXCEPT ![s] = toServer[s] \o <<>>] BY <1>1, <1>4
<1>7. /\ d \in LoginEntry /\ d.up /\ d.away = e.away /\ d.operCommand = e.operCommand /\ d.connected = e.connected
      /\ d.attempting = e.attempting /\ d.nickname = (IF l.from = e.nickname THEN l.to ELSE e.nickname)
      /\ d.flags = e.flags
    BY <1>2, <1>3, <1>4 DEF LoginEntry
<1>8. \A m : ~Touches(l, m) BY <1>2 DEF Touches
<1> HIDE DEF d
<1> QED BY <1>1, <1>2, <1>5, <1>6, <1>7, <1>8, Silence, HeardKeeps

\* What a line says of our modes, by itself and of those we had.
LEMMA ModeLine ==
    ASSUME NEW l \in ServerLine, NEW flags \in SUBSET UserModes, NEW new,
           \/ l.num = "MODE" /\ new = (flags \cup l.on) \ l.off
           \/ l.num = "381" /\ new = flags \cup {"o"}
           \/ l.num = "385" /\ new = flags \ {"o"}
    PROVE  /\ new \in SUBSET UserModes
           /\ \A m \in UserModes : m \in new <=> IF Touches(l, m) THEN Gives(l, m) ELSE m \in flags
<1>1. l.num = "MODE" => l.on \subseteq UserModes /\ l.off \subseteq UserModes BY ServerLineParts
<1>2. \A m : Touches(l, m) <=> (l.num = "MODE" /\ m \in l.on \cup l.off) \/ (l.num \in {"381", "385"} /\ m = "o")
    BY DEF Touches
<1>3. \A m : Gives(l, m) <=> (l.num = "MODE" /\ m \in l.on \ l.off) \/ (l.num = "381" /\ m = "o") BY DEF Gives
<1> QED BY <1>1, <1>2, <1>3 DEF UserModes

LEMMA UserModeKeeps ==
    ASSUME LoginInv, NEW s \in LoginServers, NEW n \in {"MODE", "381", "385"}, NEW new,
           Hears(s, n), Heard(s), UNCHANGED <<toServer, asking, resetting, mine>>,
           new = IF n = "MODE" THEN (entries[s].flags \cup Head(fromServer[s]).on) \ Head(fromServer[s]).off
                 ELSE IF n = "381" THEN entries[s].flags \cup {"o"} ELSE entries[s].flags \ {"o"},
           entries' = [entries EXCEPT ![s].flags = new]
    PROVE  LoginInv'
<1> DEFINE e == entries[s]
           l == Head(fromServer[s])
           d == [e EXCEPT !.flags = new]
<1>1. /\ fromServer[s] # <<>> /\ l.num = n /\ UNCHANGED <<window, loginEnv>>
      /\ e.up /\ (e.connected \/ e.attempting) /\ (e.connected => peers[s].registered)
      /\ l \in ServerLine /\ SaysAway(toServer[s] \o <<>>, e.away)
    BY Hearing
<1>2. /\ e \in LoginEntry /\ mine \in Nicknames /\ toServer = [toServer EXCEPT ![s] = toServer[s]]
      /\ toServer[s] \o <<>> = toServer[s]
    BY Here
<1>3. e.flags \in SUBSET UserModes BY <1>2 DEF LoginEntry
<1>4. /\ new \in SUBSET UserModes
      /\ \A m \in UserModes : m \in new <=> IF Touches(l, m) THEN Gives(l, m) ELSE m \in e.flags
    BY <1>1, <1>3, ModeLine, SMTT(30)
<1>5. toServer' = [toServer EXCEPT ![s] = toServer[s] \o <<>>] BY <1>2
<1>6. /\ d \in LoginEntry /\ d.up /\ d.away = e.away /\ d.operCommand = e.operCommand /\ d.connected = e.connected
      /\ d.attempting = e.attempting /\ d.nickname = e.nickname /\ d.flags = new
    BY <1>1, <1>2, <1>4 DEF LoginEntry
<1>7. entries' = [entries EXCEPT ![s] = d] OBVIOUS
<1> HIDE DEF d
<1> QED BY <1>1, <1>2, <1>4, <1>5, <1>6, <1>7, Silence, HeardKeeps


\* What is sent to the server that has let us in: the modes, and the away message last.
LEMMA ReinstatedLines ==
    ASSUME NEW e \in LoginEntry, NEW q \in Seq(ClientLine), SaysAway(q, e.away)
    PROVE  /\ Reinstated(e) \in Seq(ClientLine) /\ ~Has(Reinstated(e), "PASS") /\ ~Has(Reinstated(e), "OPER")
           /\ e.away # "" => Has(Reinstated(e), "AWAY")
           /\ SaysAway(q \o Reinstated(e), e.away)
<1> DEFINE m == [cmd |-> "MODE", on |-> e.flags \ {"o"}, off |-> {}]
           l == [cmd |-> "AWAY", text |-> e.away]
           x == IF e.flags \ {"o"} = {} THEN <<>> ELSE <<m>>
           h == IF e.away = "" THEN <<>> ELSE <<l>>
<1>1. Reinstated(e) = x \o h BY DEF Reinstated
<1>2. e.flags \in SUBSET UserModes /\ e.away \in Away BY DEF LoginEntry
<1>3. /\ m \in ClientLine /\ m.cmd = "MODE"
      /\ l \in ClientLine /\ l.cmd = "AWAY" /\ l.text = e.away
    BY <1>2 DEF ClientLine
<1> HIDE DEF m, l
<1>4. x \in Seq(ClientLine) /\ \A c : Has(x, c) => c = "MODE" BY <1>3, OneSent, Silence
<1>5. /\ h \in Seq(ClientLine) /\ (\A c : Has(h, c) => c = "AWAY") /\ (e.away # "" => Has(h, "AWAY"))
    BY <1>3, OneSent, Silence
<1> HIDE DEF x
<1>6. x \o h \in Seq(ClientLine) /\ \A c : Has(x \o h, c) <=> Has(x, c) \/ Has(h, c)
  <2> HIDE DEF h
  <2> QED BY <1>4, <1>5, Joined, HasJoined
<1>7. SaysAway(q \o (x \o h), e.away)
  <2>1. q \o x \in Seq(ClientLine) /\ SaysAway(q \o x, e.away) BY <1>4, Joined, AwayKept
  <2>2. q \o (x \o h) = (q \o x) \o h
    <3>1. x \in Seq(ClientLine) /\ h \in Seq(ClientLine) BY <1>4, <1>5
    <3> HIDE DEF h
    <3>2. \A a, b, c \in Seq(ClientLine) : (a \o b) \o c = a \o (b \o c)
      <4> TAKE a, b, c \in Seq(ClientLine)
      <4> QED BY ONLY a \in Seq(ClientLine), b \in Seq(ClientLine), c \in Seq(ClientLine), ConcatAssociative, SMTT(30)
    <3>3. (q \o x) \o h = q \o (x \o h) BY ONLY q \in Seq(ClientLine), <3>1, <3>2, Zenon
    <3> QED BY ONLY <3>3
  <2>3. CASE e.away = ""
    <3>1. ~Has(h, "AWAY") BY <2>3, Silence
    <3> HIDE DEF h
    <3> QED BY <1>5, <2>1, <2>2, <3>1, AwayKept
  <2>4. CASE e.away # ""
    <3>1. h = <<l>> BY <2>4
    <3>2. SaysAway((q \o x) \o <<l>>, l.text) BY <1>3, <2>1, AwaySaid
    <3> HIDE DEF h
    <3> QED BY <1>3, <2>2, <3>1, <3>2
  <2> QED BY <2>3, <2>4
<1> HIDE DEF h
<1> QED BY <1>1, <1>4, <1>5, <1>6, <1>7

\* got_initial_version(), when 002 is heard, or 376 without it.
LEMMA InitialVersionKeeps ==
    ASSUME LoginInv, NEW s \in LoginServers, NEW n \in {"002", "376"}, Hears(s, n), GotInitialVersion(s),
           Heard(s), UNCHANGED <<asking, resetting, mine>>
    PROVE  LoginInv'
<1> DEFINE e == entries[s]
           q == toServer[s]
           l == Head(fromServer[s])
           d == [e EXCEPT !.attempting = FALSE, !.connected = TRUE]
           h == Reinstated(d)
<1>1. /\ fromServer[s] # <<>> /\ l.num = n /\ UNCHANGED <<window, loginEnv>>
      /\ e.up /\ peers[s].registered /\ SaysAway(q, e.away)
    BY Hearing
<1>2. e \in LoginEntry /\ mine \in Nicknames /\ q \in Seq(ClientLine) BY Here
<1>3. /\ d \in LoginEntry /\ d.up /\ d.away = e.away /\ d.operCommand = e.operCommand /\ d.connected
      /\ d.nickname = e.nickname /\ d.flags = e.flags
    BY <1>1, <1>2 DEF LoginEntry
<1>4. entries' = [entries EXCEPT ![s] = d] /\ toServer' = [toServer EXCEPT ![s] = q \o h]
    BY <1>3 DEF GotInitialVersion, Sends
<1>5. \A m : ~Touches(l, m) BY <1>1 DEF Touches
<1> HIDE DEF d, q
<1>6. /\ h \in Seq(ClientLine) /\ ~Has(h, "PASS") /\ ~Has(h, "OPER")
      /\ (d.away # "" => Has(h, "AWAY")) /\ SaysAway(q \o h, d.away)
    BY <1>1, <1>2, <1>3, ReinstatedLines
<1>7. toServer' = [toServer EXCEPT ![s] = toServer[s] \o h] /\ q = toServer[s] BY <1>4 DEF q
<1> HIDE DEF h
<1> QED BY <1>1, <1>2, <1>3, <1>4, <1>5, <1>6, <1>7, HeardKeeps

\* The rest of 376: we have been let in already.
LEMMA EndOfMotdKeeps ==
    ASSUME LoginInv, NEW s \in LoginServers, EndOfMotd(s)
    PROVE  LoginInv'
<1>1. Hears(s, "376") /\ Heard(s) /\ UNCHANGED <<asking, resetting, mine>> BY DEF EndOfMotd
<1>2. CASE entries[s].attempting BY <1>1, <1>2, InitialVersionKeeps DEF EndOfMotd
<1>3. CASE ~entries[s].attempting
  <2> DEFINE e == entries[s]
             l == Head(fromServer[s])
  <2>1. /\ fromServer[s] # <<>> /\ l.num = "376" /\ UNCHANGED <<window, loginEnv>>
        /\ e.up /\ (e.connected \/ e.attempting) /\ (e.connected => peers[s].registered)
        /\ SaysAway(toServer[s] \o <<>>, e.away)
    BY <1>1, Hearing
  <2>2. /\ e \in LoginEntry /\ mine \in Nicknames /\ entries = [entries EXCEPT ![s] = e]
        /\ toServer = [toServer EXCEPT ![s] = toServer[s]] /\ toServer[s] \o <<>> = toServer[s]
    BY Here
  <2>3. entries' = entries /\ toServer' = toServer BY <1>3 DEF EndOfMotd
  <2>4. \A m : ~Touches(l, m) BY <2>1 DEF Touches
  <2>5. toServer' = [toServer EXCEPT ![s] = toServer[s] \o <<>>] BY <2>2, <2>3
  <2> QED BY <1>1, <1>3, <2>1, <2>2, <2>3, <2>4, <2>5, Silence, HeardKeeps
<1> QED BY <1>2, <1>3

\* 451: who we are and what we are called once more.
LEMMA NotRegisteredKeeps ==
    ASSUME LoginInv, NEW s \in LoginServers, NotRegistered(s)
    PROVE  LoginInv'
<1> DEFINE e == entries[s]
           l == Head(fromServer[s])
           u == [cmd |-> "USER"]
           n == [cmd |-> "NICK", nick |-> e.nickname]
           h == <<u, n>>
<1>1. Hears(s, "451") /\ Heard(s) /\ UNCHANGED <<asking, resetting, mine>> BY DEF NotRegistered
<1>2. /\ fromServer[s] # <<>> /\ l.num = "451" /\ UNCHANGED <<window, loginEnv>>
      /\ e.up /\ (e.connected \/ e.attempting) /\ (e.connected => peers[s].registered)
      /\ SaysAway(toServer[s], e.away)
    BY <1>1, Hearing
<1>3. /\ e \in LoginEntry /\ mine \in Nicknames /\ entries = [entries EXCEPT ![s] = e]
      /\ toServer[s] \in Seq(ClientLine)
      /\ Session(e, peers[s], toServer[s], fromServer[s], loginEnv.secret)
    BY Here
<1>4. e.nickname \in Nicknames BY <1>2, <1>3 DEF Session, LoginEntry
<1>5. u \in ClientLine /\ n \in ClientLine /\ u.cmd = "USER" /\ n.cmd = "NICK" BY <1>4 DEF ClientLine
<1>6. entries' = [entries EXCEPT ![s] = e] /\ toServer' = [toServer EXCEPT ![s] = toServer[s] \o h]
    BY <1>2, <1>3 DEF NotRegistered, Sends
<1> HIDE DEF u, n
<1>7. h \in Seq(ClientLine) /\ DOMAIN h = {1, 2} /\ h[1] = u /\ h[2] = n BY <1>5
<1> HIDE DEF h
<1>8. ~Has(h, "PASS") /\ ~Has(h, "OPER") /\ ~Has(h, "AWAY") BY <1>5, <1>7 DEF Has
<1>9. SaysAway(toServer[s] \o h, e.away) BY <1>2, <1>3, <1>7, <1>8, AwayKept
<1>10. \A m : ~Touches(l, m) BY <1>2 DEF Touches
<1> HIDE DEF e
<1> QED BY <1>1, <1>2, <1>3, <1>6, <1>7, <1>8, <1>9, <1>10, HeardKeeps DEF e


-----------------------------------------------------------------------------
(* The prompts.                                                            *)

\* One more, for the server that lets us in.
LEMMA PromptAdded ==
    ASSUME LoginInv, NEW x \in Prompt, x.for # "oper", LoggingIn(x.server), asking' = Append(asking, x),
           window' = window, resetting' => resetting \/ x.for = "nick",
           \A t \in LoginServers : LoggingIn(t)' => LoggingIn(t),
           entries[window].operCommand => entries'[window].operCommand
    PROVE  /\ asking' \in Seq(Prompt) /\ Prompts' /\ (x.for = "nick" => NickPrompt(x.server)')
           /\ \A t \in LoginServers : NickPrompt(t) => NickPrompt(t)'
<1> DEFINE b == asking'
           n == Len(asking)
<1>1. asking \in Seq(Prompt) /\ Prompts BY DEF LoginInv, LoginTypes
<1>2. /\ b \in Seq(Prompt) /\ n + 1 \in DOMAIN b /\ b[n + 1] = x /\ DOMAIN asking = 1 .. n /\ n \in Nat
      /\ \A i \in DOMAIN asking : i \in DOMAIN b /\ b[i] = asking[i]
      /\ \A i \in DOMAIN b : (i \in DOMAIN asking /\ b[i] = asking[i]) \/ b[i] = x
    BY <1>1
<1> HIDE DEF n
<1>3. x.server \in LoginServers BY DEF Prompt
<1>4. \A i \in DOMAIN asking : asking[i].for # "oper" => asking[i].server = x.server
    BY <1>1, <1>3 DEF Prompts
<1>5. \A i \in DOMAIN b : b[i].for # "oper" => b[i].server = x.server BY <1>2, <1>4
<1>6. \A s, t \in LoginServers : LoggingIn(s)' /\ LoggingIn(t)' => s = t BY <1>1 DEF Prompts
<1>7. \A t \in LoginServers : LoggingIn(t)' => t = x.server BY <1>1, <1>3 DEF Prompts
<1>8. resetting' => \E i \in DOMAIN b : b[i].for = "nick" BY <1>1, <1>2 DEF Prompts
<1>9. \A i \in DOMAIN b : b[i].for = "oper" => i = 1 /\ b[i].server = window /\ entries[window].operCommand
    BY <1>1, <1>2 DEF Prompts
<1>10. Prompts' BY <1>5, <1>6, <1>7, <1>8, <1>9 DEF Prompts
<1> QED BY <1>2, <1>10 DEF NickPrompt

\* The first is answered; its server may be logged in to then, and no other.
LEMMA PromptGone ==
    ASSUME LoginInv, asking # <<>>, asking' = Tail(asking), resetting' => resetting /\ asking[1].for # "nick",
           \A t \in LoginServers : LoggingIn(t)' => LoggingIn(t) \/ (t = asking[1].server /\ asking[1].for # "oper"),
           \A s, t \in LoginServers : LoggingIn(s)' /\ LoggingIn(t)' => s = t
    PROVE  /\ asking' \in Seq(Prompt) /\ Prompts' /\ asking[1] \in Prompt
           /\ \A t \in LoginServers : NickPrompt(t) => NickPrompt(t)' \/ asking[1].server = t
           /\ asking[1].for = "oper" => asking[1].server = window /\ entries[window].operCommand
           /\ asking[1].for # "nick" => \A t \in LoginServers : NickPrompt(t) => NickPrompt(t)'
<1> DEFINE b == asking'
<1>1. asking \in Seq(Prompt) /\ Prompts BY DEF LoginInv, LoginTypes
<1>2. /\ b \in Seq(Prompt) /\ 1 \in DOMAIN asking /\ asking[1] \in Prompt
      /\ \A i \in DOMAIN b : i + 1 \in DOMAIN asking /\ b[i] = asking[i + 1]
      /\ \A k \in DOMAIN asking : k = 1 \/ (k - 1 \in DOMAIN b /\ b[k - 1] = asking[k])
    BY <1>1, Behead
<1>3. \A i \in DOMAIN b : i + 1 # 1
  <2>1. DOMAIN b = 1 .. Len(asking) - 1 /\ Len(asking) \in Nat BY <1>1, Behead
  <2> QED BY <2>1
<1>4. \A i \in DOMAIN b : b[i].for # "oper" BY <1>1, <1>2, <1>3 DEF Prompts
<1>5. \A i, j \in DOMAIN b : b[i].server = b[j].server BY <1>1, <1>2, <1>4 DEF Prompts
<1>6. ASSUME NEW i \in DOMAIN b, NEW t \in LoginServers, LoggingIn(t)' PROVE b[i].server = t
  <2>1. i + 1 \in DOMAIN asking /\ b[i] = asking[i + 1] /\ asking[i + 1].for # "oper" BY <1>2, <1>4
  <2>2. CASE LoggingIn(t) BY <1>1, <2>1, <2>2 DEF Prompts
  <2>3. CASE t = asking[1].server /\ asking[1].for # "oper"
    <3>1. asking[i + 1].server = asking[1].server BY <1>1, <1>2, <2>1, <2>3 DEF Prompts
    <3> QED BY <2>1, <2>3, <3>1
  <2> QED BY <1>6, <2>2, <2>3
<1>7. resetting' => \E i \in DOMAIN b : b[i].for = "nick"
  <2> SUFFICES ASSUME resetting' PROVE \E i \in DOMAIN b : b[i].for = "nick" OBVIOUS
  <2>1. resetting /\ asking[1].for # "nick" OBVIOUS
  <2>2. PICK k \in DOMAIN asking : asking[k].for = "nick" BY <1>1, <2>1 DEF Prompts
  <2>3. k - 1 \in DOMAIN b /\ b[k - 1] = asking[k] BY <1>2, <2>1, <2>2
  <2> QED BY <2>2, <2>3
<1>8. Prompts' BY <1>4, <1>5, <1>6, <1>7 DEF Prompts
<1>9. \A t \in LoginServers : NickPrompt(t) => NickPrompt(t)' \/ (asking[1].server = t /\ asking[1].for = "nick")
  <2> SUFFICES ASSUME NEW t \in LoginServers, NickPrompt(t), ~(asking[1].server = t /\ asking[1].for = "nick")
               PROVE  NickPrompt(t)'
    OBVIOUS
  <2>1. PICK k \in DOMAIN asking : asking[k].for = "nick" /\ asking[k].server = t BY DEF NickPrompt
  <2>2. k - 1 \in DOMAIN b /\ b[k - 1] = asking[k] BY <1>2, <2>1
  <2> QED BY <2>1, <2>2 DEF NickPrompt
<1>10. asking[1].for = "oper" => asking[1].server = window /\ entries[window].operCommand BY <1>1, <1>2 DEF Prompts
<1> QED BY <1>2, <1>8, <1>9, <1>10

\* 433: somebody is asked for another nickname, or has been.
LEMMA RefusedKeeps ==
    ASSUME LoginInv, NEW s \in LoginServers, Refused(s)
    PROVE  LoginInv'
<1> DEFINE e == entries[s]
           p == peers[s]
           q == toServer[s]
           f == fromServer[s]
           l == Head(f)
<1>1. Hears(s, "433") /\ Heard(s) /\ UNCHANGED <<entries, toServer, mine>> BY DEF Refused
<1>2. /\ f # <<>> /\ l.num = "433" /\ UNCHANGED <<window, loginEnv>>
      /\ e.up /\ (e.connected \/ e.attempting) /\ (e.connected => p.registered)
      /\ SaysAway(q \o <<>>, e.away)
    BY <1>1, Hearing
<1>3. /\ e \in LoginEntry /\ p \in Peer /\ q \in Seq(ClientLine) /\ f \in Seq(ServerLine)
      /\ mine \in Nicknames /\ window \in LoginServers /\ entries = [entries EXCEPT ![s] = e]
      /\ peers = [peers EXCEPT ![s] = p] /\ toServer = [toServer EXCEPT ![s] = q] /\ q \o <<>> = q
      /\ Session(e, p, q, f, loginEnv.secret)
    BY Here
<1>4. \A m : ~Touches(l, m) BY <1>2 DEF Touches
<1>5. toServer' = [toServer EXCEPT ![s] = q \o <<>>] BY <1>1, <1>3
<1>6. CASE ~Resets(s)
  <2>1. UNCHANGED <<resetting, asking>> BY <1>6 DEF Refused
  <2>2. ~p.registered => NickPrompt(s)
    <3> SUFFICES ASSUME ~p.registered PROVE NickPrompt(s) OBVIOUS
    <3>1. resetting BY <1>2, <1>6 DEF Resets, LoginRegistered
    <3>2. LoggingIn(s) BY <1>2 DEF LoggingIn
    <3>3. Prompts BY DEF LoginInv
    <3>4. PICK i \in DOMAIN asking : asking[i].for = "nick" BY <3>1, <3>3 DEF Prompts
    <3>5. asking[i].server = s BY <3>2, <3>3, <3>4 DEF Prompts
    <3> QED BY <3>4, <3>5 DEF NickPrompt
  <2> QED BY <1>1, <1>2, <1>3, <1>4, <1>5, <2>1, <2>2, Silence, HeardKeeps
<1>7. CASE Resets(s)
  <2> DEFINE x == [for |-> "nick", server |-> s]
  <2>1. resetting' = TRUE /\ asking' = Append(asking, x) BY <1>7 DEF Refused
  <2>2. x \in Prompt /\ x.for = "nick" /\ x.server = s BY DEF Prompt
  <2> HIDE DEF x
  <2>3. LoggingIn(s) BY <1>2, <1>7 DEF LoggingIn, Resets, LoginRegistered
  <2>4. \A t \in LoginServers : LoggingIn(t)' <=> LoggingIn(t) BY <1>1 DEF LoggingIn
  <2>5. entries[window].operCommand => entries'[window].operCommand BY <1>1
  <2>6. /\ asking' \in Seq(Prompt) /\ Prompts' /\ NickPrompt(s)'
        /\ \A t \in LoginServers : NickPrompt(t) => NickPrompt(t)'
    BY <1>2, <2>1, <2>2, <2>3, <2>4, <2>5, PromptAdded
  <2> HIDE DEF e, p, q, f
  <2>7. e.connected \/ e.attempting BY <1>2
  <2>8. /\ e.nickname = IF l.num = "001" THEN l.nick ELSE IF l.num = "NICK" /\ l.from = e.nickname THEN l.to ELSE e.nickname
        /\ \A m \in UserModes : m \in e.flags <=> IF Touches(l, m) THEN Gives(l, m) ELSE m \in e.flags
    BY <1>2, <1>4
  <2>9. <<>> \in Seq(ClientLine) /\ ~Has(<<>>, "PASS") /\ ~Has(<<>>, "OPER") BY Silence
  <2> HIDE DEF l
  <2>10. l.num # "002" /\ l.num # "464" BY <1>2
  <2>11. Session(e, p, q \o <<>>, Tail(f), loginEnv.secret)
    BY <1>2, <1>3, <2>7, <2>8, <2>9, <2>10, SessionHeard DEF l
  <2>12. Tail(f) \in Seq(ServerLine) BY <1>2, <1>3, Behead
  <2>13. resetting' \in BOOLEAN BY <2>1
  <2>14. /\ entries' = [entries EXCEPT ![s] = e] /\ peers' = [peers EXCEPT ![s] = p]
         /\ toServer' = [toServer EXCEPT ![s] = q] /\ fromServer' = [fromServer EXCEPT ![s] = Tail(f)]
    BY <1>1, <1>3 DEF Heard, f
  <2>15. Session(e, p, q, Tail(f), loginEnv.secret) BY <1>3, <2>11
  <2> QED BY <1>1, <1>2, <1>3, <2>6, <2>12, <2>13, <2>14, <2>15, OneServer, ZenonT(60)
<1> QED BY <1>6, <1>7

\* 464: the answer to /OPER, or the end of the connection and a prompt for the password.
LEMMA PasswordMismatchKeeps ==
    ASSUME LoginInv, NEW s \in LoginServers, PasswordMismatch(s)
    PROVE  LoginInv'
<1> DEFINE e == entries[s]
           p == peers[s]
           q == toServer[s]
           f == fromServer[s]
           l == Head(f)
<1>1. Hears(s, "464") /\ UNCHANGED <<resetting, mine>> BY DEF PasswordMismatch
<1>2. /\ f # <<>> /\ l.num = "464" /\ UNCHANGED <<window, loginEnv>>
      /\ e.up /\ (e.connected \/ e.attempting) /\ (e.connected => p.registered)
      /\ SaysAway(q \o <<>>, e.away) /\ (e.operCommand => p.registered)
    BY <1>1, Hearing
<1>3. /\ e \in LoginEntry /\ mine \in Nicknames /\ window \in LoginServers /\ entries = [entries EXCEPT ![s] = e]
      /\ toServer = [toServer EXCEPT ![s] = q] /\ q \o <<>> = q /\ f \in Seq(ServerLine)
      /\ Session(e, p, q, f, loginEnv.secret)
    BY Here
<1>4. CASE e.operCommand
  <2>1. Heard(s) /\ UNCHANGED <<entries, toServer, asking>> BY <1>4 DEF PasswordMismatch
  <2>2. \A m : ~Touches(l, m) BY <1>2 DEF Touches
  <2>3. toServer' = [toServer EXCEPT ![s] = q \o <<>>] BY <1>3, <2>1
  <2> QED BY <1>1, <1>2, <1>3, <1>4, <2>1, <2>2, <2>3, Silence, HeardKeeps
<1>5. CASE ~e.operCommand
  <2> DEFINE d == ClosedEntry(e)
             x == [for |-> "password", server |-> s]
  <2>1. ConnectionEnds(s) /\ asking' = Append(asking, x) BY <1>5 DEF PasswordMismatch
  <2>2. x \in Prompt /\ x.for = "password" /\ x.server = s BY DEF Prompt
  <2>3. d \in LoginEntry /\ ~d.up /\ ~d.connected /\ d.flags = {} /\ d.operCommand = e.operCommand
    BY <1>3 DEF ClosedEntry, LoginEntry
  <2>4. /\ entries' = [entries EXCEPT ![s] = d] /\ peers' = [peers EXCEPT ![s] = Stranger]
        /\ toServer' = [toServer EXCEPT ![s] = <<>>] /\ fromServer' = [fromServer EXCEPT ![s] = <<>>]
    BY <2>1 DEF ConnectionEnds
  <2>5. Stranger \in Peer /\ <<>> \in Seq(ClientLine) /\ <<>> \in Seq(ServerLine) BY Silence DEF Stranger, Peer, Away
  <2>6. LoggingIn(s)
    <3>1. Says(f, "464") BY <1>2, <1>3, SaysBeheaded
    <3>2. ~p.registered BY <1>3, <1>5, <3>1 DEF Session
    <3> QED BY <1>2, <3>2 DEF LoggingIn
  <2> HIDE DEF d, x
  <2>7. Session(d, Stranger, <<>>, <<>>, loginEnv.secret) BY <2>3, SessionDown
  <2>8. entries \in [LoginServers -> LoginEntry] /\ resetting \in BOOLEAN BY DEF LoginInv, LoginTypes
  <2>9. entries'[s] = d /\ \A t \in LoginServers \ {s} : entries'[t] = entries[t] BY <2>4, <2>8
  <2>10. \A t \in LoginServers : LoggingIn(t)' => LoggingIn(t) BY <2>3, <2>9 DEF LoggingIn
  <2>11. entries[window].operCommand => entries'[window].operCommand
    <3>1. CASE window = s BY <2>3, <2>9, <3>1
    <3>2. CASE window # s BY <1>3, <2>9, <3>2
    <3> QED BY <3>1, <3>2
  <2>12. asking' \in Seq(Prompt) /\ Prompts' /\ \A t \in LoginServers : NickPrompt(t) => NickPrompt(t)'
    BY <1>1, <1>2, <2>1, <2>2, <2>6, <2>10, <2>11, PromptAdded
  <2> QED BY <1>1, <1>2, <1>3, <2>3, <2>4, <2>5, <2>7, <2>8, <2>12, OneServer
<1> QED BY <1>4, <1>5


-----------------------------------------------------------------------------
(* The user.                                                               *)

\* A line is sent to a server, or is not when there is no connection.
LEMMA SentKeeps ==
    ASSUME LoginInv, NEW s \in LoginServers, NEW d \in LoginEntry, NEW l \in ClientLine,
           Sends(s, d, <<l>>), UNCHANGED <<peers, fromServer, window, loginEnv>>, mine' \in Nicknames,
           asking' \in Seq(Prompt), resetting' \in BOOLEAN,
           d.up = entries[s].up, d.connected = entries[s].connected, d.attempting = entries[s].attempting,
           d.flags = entries[s].flags, d.operCommand = entries[s].operCommand,
           d.up => d.nickname # NoNick, l.cmd # "PASS", l.cmd = "OPER" => d.operCommand,
           l.cmd = "AWAY" => l.text = d.away, l.cmd # "AWAY" => d.away = entries[s].away,
           \/ d.nickname = entries[s].nickname
           \/ /\ l.cmd = "NICK" /\ l.nick = d.nickname
              /\ d.up /\ peers[s].registered => Says(fromServer[s], "001") \/ l.nick \notin Taken,
           LoggingIn(s) /\ NickPrompt(s) => NickPrompt(s)' \/ l.cmd = "NICK",
           \A t \in LoginServers \ {s} : NickPrompt(t) /\ LoggingIn(t) => NickPrompt(t)',
           Prompts'
    PROVE  LoginInv'
<1> DEFINE e == entries[s]
           p == peers[s]
           q == toServer[s]
           f == fromServer[s]
           h == <<l>>
<1>1. /\ e \in LoginEntry /\ p \in Peer /\ q \in Seq(ClientLine) /\ f \in Seq(ServerLine)
      /\ window \in LoginServers /\ peers = [peers EXCEPT ![s] = p] /\ fromServer = [fromServer EXCEPT ![s] = f]
      /\ toServer = [toServer EXCEPT ![s] = q]
      /\ Session(e, p, q, f, loginEnv.secret) /\ NickAsked(s)
    BY Here
<1>2. h \in Seq(ClientLine) /\ \A c : Has(h, c) <=> l.cmd = c BY OneSent
<1>3. /\ entries' = [entries EXCEPT ![s] = d]
      /\ toServer' = [toServer EXCEPT ![s] = IF d.up THEN q \o h ELSE q]
    BY DEF Sends
<1>4. /\ peers' = [peers EXCEPT ![s] = p] /\ fromServer' = [fromServer EXCEPT ![s] = f] /\ window' \in LoginServers
      /\ loginEnv' = loginEnv
    BY <1>1
<1>5. e.up /\ ~p.registered /\ p.nick = NoNick /\ ~p.declined => Has(q, "NICK") \/ Says(f, "433") \/ NickPrompt(s)
    BY <1>1 DEF NickAsked
<1>6. ~p.registered => (LoggingIn(s) <=> e.up) BY <1>1 DEF Session, LoggingIn
<1>7. /\ d.up = e.up /\ d.connected = e.connected /\ d.attempting = e.attempting /\ d.flags = e.flags
      /\ d.operCommand = e.operCommand /\ (l.cmd # "AWAY" => d.away = e.away)
      /\ \/ d.nickname = e.nickname
         \/ l.cmd = "NICK" /\ l.nick = d.nickname /\ (d.up /\ p.registered => Says(f, "001") \/ l.nick \notin Taken)
    OBVIOUS
<1>8. CASE ~d.up
  <2>1. ~e.up /\ q = <<>> /\ f = <<>> /\ p = Stranger /\ e.flags = {} /\ ~e.connected BY <1>1, <1>7, <1>8 DEF Session
  <2>2. Session(d, Stranger, <<>>, <<>>, loginEnv.secret) BY <1>7, <1>8, <2>1, SessionDown
  <2>3. Session(d, p, q, f, loginEnv.secret)
    <3> HIDE DEF e, p, q, f
    <3> QED BY <2>1, <2>2
  <2>4. toServer' = [toServer EXCEPT ![s] = q] BY <1>3, <1>8
  <2> HIDE DEF e, p, q, f
  <2>5. p \in Peer /\ q \in Seq(ClientLine) /\ f \in Seq(ServerLine) BY <1>1
  <2>6. entries' = [entries EXCEPT ![s] = d] BY <1>3
  <2> QED BY <1>4, <1>8, <2>3, <2>4, <2>5, <2>6, OneServer
<1>9. CASE d.up
  <2> HIDE DEF e, p, q, f, h
  <2>1. e.up /\ (e.operCommand => e.connected) BY <1>1, <1>7, <1>9 DEF Session
  <2>2. p.registered => NickFollows(f, q \o h, d.nickname, p.nick)
    <3> SUFFICES ASSUME p.registered PROVE NickFollows(f, q \o h, d.nickname, p.nick) OBVIOUS
    <3>1. NickFollows(f, q, e.nickname, p.nick) BY <1>1 DEF Session
    <3>2. CASE d.nickname = e.nickname BY <1>1, <1>2, <3>1, <3>2, NickSent
    <3>3. CASE l.cmd = "NICK" /\ l.nick = d.nickname /\ (Says(f, "001") \/ l.nick \notin Taken)
      <4>1. NickFollows(f, q \o <<l>>, l.nick, p.nick) BY <1>1, <3>1, <3>3, NickAsserted
      <4> QED BY <3>3, <4>1 DEF h
    <3> QED BY <1>7, <1>9, <3>2, <3>3
  <2>3. q \o h \in Seq(ClientLine) /\ \A c : Has(q \o h, c) <=> Has(q, c) \/ l.cmd = c BY <1>1, <1>2, Joined, HasJoined
  <2>4. AwayFollows(f, q \o h, d.away, p.away, p.registered)
    <3>1. AwayFollows(f, q, e.away, p.away, p.registered) BY <1>1 DEF Session
    <3>2. CASE l.cmd = "AWAY"
      <4>1. SaysAway(q \o <<l>>, l.text) BY <1>1, <3>2, AwaySaid
      <4>2. SaysAway(q \o h, d.away) BY <3>2, <4>1 DEF h
      <4> QED BY <2>3, <3>2, <4>2 DEF AwayFollows
    <3>3. CASE l.cmd # "AWAY"
      <4>1. SaysAway(q, e.away) BY <3>1 DEF AwayFollows
      <4>2. SaysAway(q \o h, e.away) BY <1>1, <1>2, <3>3, <4>1, AwayKept
      <4> QED BY <1>7, <2>3, <3>1, <3>3, <4>2 DEF AwayFollows
    <3> QED BY <3>2, <3>3
  <2>5. Session(d, p, q \o h, f, loginEnv.secret)
    <3>1. ~Has(h, "PASS") /\ (Has(h, "OPER") => d.operCommand) /\ d.nickname # NoNick BY <1>2, <1>9
    <3>2. d.operCommand => d.connected BY <1>7, <2>1
    <3> QED BY <1>1, <1>2, <1>7, <1>9, <2>1, <2>2, <2>4, <3>1, <3>2, SessionSent
  <2>6. d.up /\ ~p.registered /\ p.nick = NoNick /\ ~p.declined => Has(q \o h, "NICK") \/ Says(f, "433") \/ NickPrompt(s)'
    BY <1>5, <1>6, <2>1, <2>3
  <2>7. toServer' = [toServer EXCEPT ![s] = q \o h] BY <1>3, <1>9
  <2>8. p \in Peer /\ q \o h \in Seq(ClientLine) /\ f \in Seq(ServerLine) BY <1>1, <2>3
  <2>9. entries' = [entries EXCEPT ![s] = d] BY <1>3
  <2> QED BY <1>4, <2>5, <2>6, <2>7, <2>8, <2>9, OneServer
<1> QED BY <1>8, <1>9

\* A line is sent while no prompt is answered.
LEMMA TypedKeeps ==
    ASSUME LoginInv, NEW s \in LoginServers, NEW d \in LoginEntry, NEW l \in ClientLine,
           Sends(s, d, <<l>>), UNCHANGED <<peers, fromServer, window, loginEnv, asking, resetting>>, mine' \in Nicknames,
           d.up = entries[s].up, d.connected = entries[s].connected, d.attempting = entries[s].attempting,
           d.flags = entries[s].flags, d.operCommand = entries[s].operCommand,
           d.up => d.nickname # NoNick, l.cmd \notin {"PASS", "OPER"},
           l.cmd = "AWAY" => l.text = d.away, l.cmd # "AWAY" => d.away = entries[s].away,
           \/ d.nickname = entries[s].nickname
           \/ /\ l.cmd = "NICK" /\ l.nick = d.nickname
              /\ d.up /\ peers[s].registered => Says(fromServer[s], "001") \/ l.nick \notin Taken
    PROVE  LoginInv'
<1>1. /\ entries \in [LoginServers -> LoginEntry] /\ asking \in Seq(Prompt) /\ resetting \in BOOLEAN
      /\ window \in LoginServers /\ Prompts
    BY DEF LoginInv, LoginTypes
<1>2. entries'[s] = d /\ \A t \in LoginServers \ {s} : entries'[t] = entries[t] BY <1>1 DEF Sends
<1>3. \A t \in LoginServers : LoggingIn(t)' <=> LoggingIn(t)
  <2> TAKE t \in LoginServers
  <2>1. CASE t = s BY <1>2, <2>1 DEF LoggingIn
  <2>2. CASE t # s BY <1>2, <2>2 DEF LoggingIn
  <2> QED BY <2>1, <2>2
<1>4. entries[window].operCommand => entries'[window].operCommand
  <2>1. CASE window = s BY <1>2, <2>1
  <2>2. CASE window # s BY <1>1, <1>2, <2>2
  <2> QED BY <2>1, <2>2
<1>5. Prompts' /\ \A t \in LoginServers : NickPrompt(t)' <=> NickPrompt(t) BY <1>1, <1>3, <1>4, PromptsKept
<1> QED BY <1>1, <1>5, SentKeeps

\* Where we are let in and have heard of it, or not: what the careful user asks for.
LEMMA CarefulNick ==
    ASSUME LoginInv, NEW s \in LoginServers, NEW nick, Careful(s, nick), loginEnv.careful
    PROVE  entries[s].up /\ peers[s].registered => Says(fromServer[s], "001") \/ nick \notin Taken
BY DEF Careful, LetIn, Says

LEMMA ENickKeeps ==
    ASSUME LoginInv, NEW nick \in Nicknames, ENick(nick), loginEnv.careful
    PROVE  LoginInv'
<1> DEFINE s == window
           e == entries[s]
           d == IF e.attempting THEN [e EXCEPT !.nickname = nick] ELSE e
           l == [cmd |-> "NICK", nick |-> nick]
<1>1. s \in LoginServers /\ mine \in Nicknames BY DEF LoginInv, LoginTypes
<1>2. e \in LoginEntry /\ Session(e, peers[s], toServer[s], fromServer[s], loginEnv.secret) BY <1>1, Here
<1>3. /\ UNCHANGED <<peers, fromServer, window, loginEnv, asking, resetting>>
      /\ Sends(s, d, <<l>>) /\ (e.attempting => Careful(s, nick))
    BY DEF ENick, Command, Types
<1>4. mine' \in Nicknames BY <1>1 DEF ENick, Nicknamed
<1>5. l \in ClientLine /\ l.cmd = "NICK" /\ l.nick = nick BY DEF ClientLine
<1>6. /\ d \in LoginEntry /\ d.up = e.up /\ d.connected = e.connected /\ d.attempting = e.attempting
      /\ d.flags = e.flags /\ d.operCommand = e.operCommand /\ d.away = e.away
      /\ d.nickname = IF e.attempting THEN nick ELSE e.nickname
    BY <1>2 DEF LoginEntry
<1>7. e.up => d.nickname # NoNick BY <1>2, <1>6, LoginAssumption DEF Session
<1>8. e.attempting /\ e.up /\ peers[s].registered => Says(fromServer[s], "001") \/ nick \notin Taken
    BY <1>1, <1>3, CarefulNick
<1> HIDE DEF d, l
<1> QED BY <1>1, <1>3, <1>4, <1>5, <1>6, <1>7, <1>8, TypedKeeps

LEMMA AwayOneKeeps ==
    ASSUME LoginInv, NEW text \in Away, AwayOne(text)
    PROVE  LoginInv'
<1> DEFINE s == window
           e == entries[s]
           d == [e EXCEPT !.away = text]
           l == [cmd |-> "AWAY", text |-> text]
<1>1. s \in LoginServers /\ mine \in Nicknames BY DEF LoginInv, LoginTypes
<1>2. e \in LoginEntry /\ Session(e, peers[s], toServer[s], fromServer[s], loginEnv.secret) BY <1>1, Here
<1>3. UNCHANGED <<peers, fromServer, mine, window, loginEnv, asking, resetting>> /\ Sends(s, d, <<l>>)
    BY DEF AwayOne, Command, Types
<1>4. l \in ClientLine /\ l.cmd = "AWAY" /\ l.text = text BY DEF ClientLine
<1>5. /\ d \in LoginEntry /\ d.up = e.up /\ d.connected = e.connected /\ d.attempting = e.attempting
      /\ d.flags = e.flags /\ d.operCommand = e.operCommand /\ d.away = text /\ d.nickname = e.nickname
    BY <1>2 DEF LoginEntry
<1>6. e.up => d.nickname # NoNick BY <1>2, <1>5 DEF Session
<1> HIDE DEF d, l
<1> QED BY <1>1, <1>3, <1>4, <1>5, <1>6, TypedKeeps

LEMMA ModeCommandKeeps ==
    ASSUME LoginInv, NEW mode \in UserModes, NEW on \in BOOLEAN, ModeCommand(mode, on)
    PROVE  LoginInv'
<1> DEFINE s == window
           e == entries[s]
           l == [cmd |-> "MODE", on |-> IF on THEN {mode} ELSE {}, off |-> IF on THEN {} ELSE {mode}]
<1>1. s \in LoginServers /\ mine \in Nicknames BY DEF LoginInv, LoginTypes
<1>2. e \in LoginEntry /\ Session(e, peers[s], toServer[s], fromServer[s], loginEnv.secret) BY <1>1, Here
<1>3. UNCHANGED <<peers, fromServer, mine, window, loginEnv, asking, resetting>> /\ Sends(s, e, <<l>>)
    BY DEF ModeCommand, Command, Types
<1>4. l \in ClientLine /\ l.cmd = "MODE" BY DEF ClientLine
<1>5. e.up => e.nickname # NoNick BY <1>2 DEF Session
<1> HIDE DEF l
<1> QED BY <1>1, <1>2, <1>3, <1>4, <1>5, TypedKeeps

\* Nobody is connected: nothing is sent, and what is marked is nobody's yet.
LEMMA AwayAllKeeps ==
    ASSUME LoginInv, NEW text \in Away, AwayAll(text), loginEnv.careful
    PROVE  LoginInv'
<1>1. /\ UNCHANGED <<peers, fromServer, mine, window, loginEnv, asking, resetting>>
      /\ \A s \in LoginServers : ~entries[s].up
    BY DEF AwayAll, Command, Types
<1>2. /\ LoginTypes /\ Sessions /\ Prompts BY DEF LoginInv
<1>3. toServer' = toServer
  <2>1. CASE text # ""
    <3>1. toServer' = [s \in LoginServers |-> toServer[s]] BY <1>1, <2>1 DEF AwayAll, LoginRegistered
    <3> QED BY <1>2, <3>1 DEF LoginTypes
  <2>2. CASE text = "" BY <2>2 DEF AwayAll
  <2> QED BY <2>1, <2>2
<1>4. /\ entries' \in [LoginServers -> LoginEntry]
      /\ \A s \in LoginServers : /\ entries'[s].up = entries[s].up /\ entries'[s].connected = entries[s].connected
                                 /\ entries'[s].flags = entries[s].flags
                                 /\ entries'[s].operCommand = entries[s].operCommand
  <2>1. CASE text # "" BY <1>2, <2>1 DEF AwayAll, LoginTypes
  <2>2. CASE text = ""
    <3>1. entries' = [s \in LoginServers |-> [entries[s] EXCEPT !.away = ""]] BY <2>2 DEF AwayAll
    <3>2. \A x \in LoginEntry : LET y == [x EXCEPT !.away = ""]
                                IN  /\ y \in LoginEntry /\ y.up = x.up /\ y.connected = x.connected /\ y.flags = x.flags
                                    /\ y.operCommand = x.operCommand
      BY DEF LoginEntry, Away
    <3> QED BY <1>2, <3>1, <3>2 DEF LoginTypes
  <2> QED BY <2>1, <2>2
<1>5. LoginTypes' BY <1>1, <1>2, <1>3, <1>4 DEF LoginTypes
<1>6. Sessions'
  <2> SUFFICES ASSUME NEW s \in LoginServers
               PROVE  Session(entries'[s], peers[s], toServer[s], fromServer[s], loginEnv.secret)
    BY <1>1, <1>3 DEF Sessions
  <2>1. /\ ~entries[s].up /\ toServer[s] = <<>> /\ fromServer[s] = <<>> /\ peers[s] = Stranger
        /\ entries[s].flags = {} /\ ~entries[s].connected
    BY <1>1, <1>2 DEF Sessions, Session
  <2>2. entries'[s] \in LoginEntry /\ ~entries'[s].up /\ entries'[s].flags = {} /\ ~entries'[s].connected
    BY <1>4, <2>1
  <2>3. Session(entries'[s], Stranger, <<>>, <<>>, loginEnv.secret) BY <2>2, SessionDown
  <2> QED BY <2>1, <2>3
<1>7. \A t \in LoginServers : LoggingIn(t)' => LoggingIn(t) BY <1>4 DEF LoggingIn
<1>8. entries[window].operCommand => entries'[window].operCommand BY <1>2, <1>4 DEF LoginTypes
<1>9. Prompts' BY <1>1, <1>2, <1>7, <1>8, PromptsKept
<1>10. \A s \in LoginServers : NickAsked(s)' BY <1>1, <1>4 DEF NickAsked
<1> QED BY <1>5, <1>6, <1>9, <1>10 DEF LoginInv


\* Answers to prompts: what is sent, and the prompt is gone.
LEMMA AnsweredKeeps ==
    ASSUME LoginInv, NEW for, ServerAnswers(for), NEW s \in LoginServers, NEW d \in LoginEntry, NEW l \in ClientLine,
           Sends(s, d, <<l>>), UNCHANGED <<peers, fromServer, window>>, mine' \in Nicknames,
           \/ /\ for = "oper" /\ s = window /\ l.cmd = "OPER" /\ d = entries[s] /\ resetting' = resetting
           \/ /\ for = "nick" /\ s = asking[1].server /\ l.cmd = "NICK" /\ resetting' = FALSE
              /\ l.nick = d.nickname /\ d.nickname # NoNick
              /\ entries[s].up /\ peers[s].registered => Says(fromServer[s], "001") \/ l.nick \notin Taken
              /\ d.up = entries[s].up /\ d.connected = entries[s].connected /\ d.attempting = entries[s].attempting
              /\ d.flags = entries[s].flags /\ d.operCommand = entries[s].operCommand /\ d.away = entries[s].away
    PROVE  LoginInv'
<1>1. asking # <<>> /\ asking[1].for = for /\ asking' = Tail(asking) /\ loginEnv' = loginEnv
    BY DEF ServerAnswers, Types
<1>2. /\ d.up = entries[s].up /\ d.connected = entries[s].connected /\ d.attempting = entries[s].attempting
      /\ d.flags = entries[s].flags /\ d.operCommand = entries[s].operCommand /\ d.away = entries[s].away
      /\ l.cmd \in {"OPER", "NICK"} /\ for \in {"oper", "nick"} /\ resetting' \in BOOLEAN
      /\ (resetting' => resetting /\ asking[1].for # "nick") /\ window' = window
  <2>1. resetting \in BOOLEAN BY DEF LoginInv, LoginTypes
  <2>2. CASE for = "oper" /\ s = window /\ l.cmd = "OPER" /\ d = entries[s] /\ resetting' = resetting
    BY <1>1, <2>1, <2>2
  <2>3. CASE /\ for = "nick" /\ s = asking[1].server /\ l.cmd = "NICK" /\ resetting' = FALSE
             /\ d.up = entries[s].up /\ d.connected = entries[s].connected /\ d.attempting = entries[s].attempting
             /\ d.flags = entries[s].flags /\ d.operCommand = entries[s].operCommand /\ d.away = entries[s].away
    BY <1>1, <2>3
  <2> QED BY <2>2, <2>3
<1>3. /\ entries \in [LoginServers -> LoginEntry] /\ Prompts
      /\ Session(entries[s], peers[s], toServer[s], fromServer[s], loginEnv.secret)
    BY DEF LoginInv, LoginTypes, Sessions
<1>4. entries'[s] = d /\ \A t \in LoginServers \ {s} : entries'[t] = entries[t] BY <1>3 DEF Sends
<1>5. \A t \in LoginServers : LoggingIn(t)' <=> LoggingIn(t)
  <2> TAKE t \in LoginServers
  <2>1. CASE t = s BY <1>2, <1>4, <2>1 DEF LoggingIn
  <2>2. CASE t # s BY <1>4, <2>2 DEF LoggingIn
  <2> QED BY <2>1, <2>2
<1>6. \A t, u \in LoginServers : LoggingIn(t)' /\ LoggingIn(u)' => t = u BY <1>3, <1>5 DEF Prompts
<1>7. /\ asking' \in Seq(Prompt) /\ Prompts'
      /\ \A t \in LoginServers : NickPrompt(t) => NickPrompt(t)' \/ asking[1].server = t
      /\ asking[1].for = "oper" => asking[1].server = window /\ entries[window].operCommand
      /\ asking[1].for # "nick" => \A t \in LoginServers : NickPrompt(t) => NickPrompt(t)'
    BY <1>1, <1>2, <1>5, <1>6, PromptGone
<1>8. l.cmd = "OPER" => d.operCommand BY <1>1, <1>2, <1>7
<1>9. d.up => d.nickname # NoNick BY <1>2, <1>3 DEF Session
<1>10. \/ d.nickname = entries[s].nickname
       \/ /\ l.cmd = "NICK" /\ l.nick = d.nickname
          /\ d.up /\ peers[s].registered => Says(fromServer[s], "001") \/ l.nick \notin Taken
    BY <1>2
<1>11. LoggingIn(s) /\ NickPrompt(s) => NickPrompt(s)' \/ l.cmd = "NICK" BY <1>1, <1>7
<1>12. \A t \in LoginServers \ {s} : NickPrompt(t) /\ LoggingIn(t) => NickPrompt(t)' BY <1>1, <1>7
<1> QED BY <1>1, <1>2, <1>7, <1>8, <1>9, <1>10, <1>11, <1>12, SentKeeps

LEMMA NicknameSendlineKeeps ==
    ASSUME LoginInv, NEW nick \in Nicknames, NicknameSendline(nick), loginEnv.careful
    PROVE  LoginInv'
<1> DEFINE s == asking[1].server
           e == entries[s]
           d == [e EXCEPT !.nickname = nick]
           l == [cmd |-> "NICK", nick |-> nick]
<1>1. /\ ServerAnswers("nick") /\ Careful(s, nick) /\ Sends(s, d, <<l>>) /\ resetting' = FALSE
      /\ UNCHANGED <<peers, fromServer, window>>
    BY LoginAssumption DEF NicknameSendline
<1>2. asking \in Seq(Prompt) /\ mine \in Nicknames BY DEF LoginInv, LoginTypes
<1>3. s \in LoginServers
  <2>1. asking[1] \in Prompt BY <1>1, <1>2, Behead DEF ServerAnswers
  <2> QED BY <2>1 DEF Prompt
<1>4. mine' \in Nicknames BY <1>2, LoginAssumption DEF NicknameSendline, Nicknamed
<1>5. e \in LoginEntry BY <1>3, Here
<1>6. /\ d \in LoginEntry /\ d.up = e.up /\ d.connected = e.connected /\ d.attempting = e.attempting
      /\ d.flags = e.flags /\ d.operCommand = e.operCommand /\ d.away = e.away /\ d.nickname = nick
    BY <1>5 DEF LoginEntry
<1>7. l \in ClientLine /\ l.cmd = "NICK" /\ l.nick = nick BY DEF ClientLine
<1>8. nick # NoNick BY LoginAssumption
<1>9. entries[s].up /\ peers[s].registered => Says(fromServer[s], "001") \/ nick \notin Taken
    BY <1>1, <1>3, CarefulNick
<1> HIDE DEF d, l
<1> QED BY <1>1, <1>3, <1>4, <1>6, <1>7, <1>8, <1>9, AnsweredKeeps, ZenonT(60)

\* An empty answer: the prompt is gone, and the server will not be given a nickname.
LEMMA NicknameDeclinedKeeps ==
    ASSUME LoginInv, NicknameSendline(NoNick)
    PROVE  LoginInv'
<1> DEFINE s == asking[1].server
           e == entries[s]
           p == peers[s]
           q == toServer[s]
           f == fromServer[s]
           r == [p EXCEPT !.declined = e.up]
<1>1. /\ asking # <<>> /\ asking[1].for = "nick" /\ asking' = Tail(asking) /\ loginEnv' = loginEnv /\ resetting' = FALSE
      /\ peers' = [peers EXCEPT ![s] = r] /\ UNCHANGED <<entries, toServer, fromServer, mine, window>>
    BY DEF NicknameSendline, ServerAnswers, Types
<1>2. /\ asking \in Seq(Prompt) /\ mine \in Nicknames /\ window \in LoginServers /\ Prompts
    BY DEF LoginInv, LoginTypes
<1>3. s \in LoginServers
  <2>1. asking[1] \in Prompt BY <1>1, <1>2, Behead
  <2> QED BY <2>1 DEF Prompt
<1>4. /\ e \in LoginEntry /\ p \in Peer /\ q \in Seq(ClientLine) /\ f \in Seq(ServerLine)
      /\ Session(e, p, q, f, loginEnv.secret) /\ entries = [entries EXCEPT ![s] = e]
      /\ toServer = [toServer EXCEPT ![s] = q] /\ fromServer = [fromServer EXCEPT ![s] = f]
    BY <1>3, Here
<1>5. /\ r \in Peer /\ r.registered = p.registered /\ r.modes = p.modes /\ r.away = p.away
      /\ r.user = p.user /\ r.nick = p.nick /\ r.pass = p.pass /\ r.declined = e.up
    BY <1>4 DEF Peer, LoginEntry
<1>6. ~e.up => r = Stranger
  <2>1. ~e.up => p = Stranger BY <1>4 DEF Session
  <2>2. e.up \in BOOLEAN BY <1>4 DEF LoginEntry
  <2>3. Stranger.declined = FALSE BY DEF Stranger
  <2>4. [p EXCEPT !.declined = p.declined] = p BY <1>4 DEF Peer
  <2> HIDE DEF e, p, r
  <2>5. ~e.up => p.declined = e.up BY <2>1, <2>2, <2>3
  <2> USE DEF r
  <2> QED BY <2>1, <2>4, <2>5
<1>7. \A t \in LoginServers : LoggingIn(t)' <=> LoggingIn(t) BY <1>1 DEF LoggingIn
<1>8. /\ asking' \in Seq(Prompt) /\ Prompts'
      /\ \A t \in LoginServers : NickPrompt(t) => NickPrompt(t)' \/ asking[1].server = t
  <2>1. \A t, u \in LoginServers : LoggingIn(t)' /\ LoggingIn(u)' => t = u BY <1>2, <1>7 DEF Prompts
  <2> QED BY <1>1, <1>2, <1>7, <2>1, PromptGone
<1> HIDE DEF s, e, p, q, f, r
<1>9. Session(e, r, q, f, loginEnv.secret) BY <1>4, <1>5, <1>6 DEF Session, Pending
<1>10. \A t \in LoginServers \ {s} : NickPrompt(t) => NickPrompt(t)' BY <1>8 DEF s
<1>11. e.up => r.declined BY <1>5
<1> QED BY <1>1, <1>2, <1>3, <1>4, <1>5, <1>8, <1>9, <1>10, <1>11, OneServer

LEMMA OperPasswordReceivedKeeps ==
    ASSUME LoginInv, NEW right \in BOOLEAN, OperPasswordReceived(right)
    PROVE  LoginInv'
<1> DEFINE l == [cmd |-> "OPER", right |-> right]
<1>1. /\ ServerAnswers("oper") /\ Sends(window, entries[window], <<l>>)
      /\ UNCHANGED <<peers, fromServer, resetting, mine, window>>
    BY DEF OperPasswordReceived
<1>2. window \in LoginServers /\ mine \in Nicknames /\ entries[window] \in LoginEntry BY DEF LoginInv, LoginTypes
<1>3. l \in ClientLine /\ l.cmd = "OPER" BY DEF ClientLine
<1> HIDE DEF l
<1> QED BY <1>1, <1>2, <1>3, AnsweredKeeps

\* /OPER: of a server that has let us in.
LEMMA OperKeeps ==
    ASSUME LoginInv, Oper, loginEnv.careful
    PROVE  LoginInv'
<1> DEFINE s == window
           e == entries[s]
           p == peers[s]
           q == toServer[s]
           f == fromServer[s]
           d == [e EXCEPT !.operCommand = TRUE]
           x == [for |-> "oper", server |-> s]
<1>1. /\ asking = <<>> /\ LoginRegistered(s) /\ entries' = [entries EXCEPT ![s] = d] /\ asking' = <<x>>
      /\ UNCHANGED <<peers, toServer, fromServer, resetting, mine, window, loginEnv>>
    BY DEF Oper, Types
<1>2. s \in LoginServers /\ mine \in Nicknames /\ resetting \in BOOLEAN /\ Prompts
      /\ entries \in [LoginServers -> LoginEntry]
    BY DEF LoginInv, LoginTypes
<1>3. /\ e \in LoginEntry /\ p \in Peer /\ q \in Seq(ClientLine) /\ f \in Seq(ServerLine)
      /\ Session(e, p, q, f, loginEnv.secret) /\ NickAsked(s) /\ q \o <<>> = q
      /\ peers = [peers EXCEPT ![s] = p] /\ toServer = [toServer EXCEPT ![s] = q]
      /\ fromServer = [fromServer EXCEPT ![s] = f]
    BY <1>2, Here
<1>4. /\ d \in LoginEntry /\ d.up = e.up /\ d.connected = e.connected /\ d.attempting = e.attempting
      /\ d.flags = e.flags /\ d.operCommand /\ d.away = e.away /\ d.nickname = e.nickname
    BY <1>3 DEF LoginEntry
<1>5. e.up /\ e.connected BY <1>1 DEF LoginRegistered
<1>6. x \in Prompt /\ x.for = "oper" /\ x.server = s BY <1>2 DEF Prompt
<1> HIDE DEF x, d
<1>7. asking' \in Seq(Prompt) /\ DOMAIN asking' = {1} /\ asking'[1] = x BY <1>1, <1>6
<1>8. ~resetting /\ \A t \in LoginServers : ~NickPrompt(t)
  <2>1. \A i \in DOMAIN asking : FALSE BY <1>1, Silence
  <2> QED BY <1>2, <2>1 DEF Prompts, NickPrompt
<1>9. entries'[s] = d /\ \A t \in LoginServers \ {s} : entries'[t] = entries[t] BY <1>1, <1>2
<1>10. \A t \in LoginServers : LoggingIn(t)' <=> LoggingIn(t)
  <2> TAKE t \in LoginServers
  <2>1. CASE t = s BY <1>4, <1>9, <2>1 DEF LoggingIn
  <2>2. CASE t # s BY <1>9, <2>2 DEF LoggingIn
  <2> QED BY <2>1, <2>2
<1>11. Prompts'
  <2>1. window' = s /\ entries'[s].operCommand BY <1>1, <1>4, <1>9
  <2>2. \A t, u \in LoginServers : LoggingIn(t)' /\ LoggingIn(u)' => t = u BY <1>2, <1>10 DEF Prompts
  <2> HIDE DEF s
  <2>3. \A i \in DOMAIN asking' : i = 1 /\ asking'[i].for = "oper" /\ asking'[i].server = s BY <1>6, <1>7
  <2>4. ~resetting' BY <1>1, <1>8
  <2> QED BY <2>1, <2>2, <2>3, <2>4 DEF Prompts
<1>12. p.registered BY <1>3, <1>5 DEF Session
<1>13. /\ entries' = [entries EXCEPT ![s] = d] /\ peers' = [peers EXCEPT ![s] = p]
       /\ toServer' = [toServer EXCEPT ![s] = q] /\ fromServer' = [fromServer EXCEPT ![s] = f]
       /\ loginEnv' = loginEnv /\ mine' \in Nicknames /\ resetting' \in BOOLEAN /\ window' \in LoginServers
    BY <1>1, <1>2, <1>3
<1> HIDE DEF s, e, p, q, f
<1>14. Session(d, p, q, f, loginEnv.secret)
  <2>1. /\ d.nickname # NoNick /\ (p.registered => NickFollows(f, q, e.nickname, p.nick))
        /\ AwayFollows(f, q, e.away, p.away, p.registered)
    BY <1>3, <1>4, <1>5 DEF Session
  <2>2. <<>> \in Seq(ClientLine) /\ ~Has(<<>>, "PASS") BY Silence
  <2>3. /\ p.registered => NickFollows(f, q \o <<>>, d.nickname, p.nick)
        /\ AwayFollows(f, q \o <<>>, d.away, p.away, p.registered)
    BY <1>3, <1>4, <2>1
  <2>4. Session(d, p, q \o <<>>, f, loginEnv.secret) BY <1>3, <1>4, <1>5, <2>1, <2>2, <2>3, SessionSent
  <2> QED BY <1>3, <2>4
<1> QED BY <1>2, <1>3, <1>4, <1>7, <1>8, <1>11, <1>12, <1>14, <1>13, OneServer

\* connect_to_server(), to who is not connected: nothing is left of what was, and we log in or do not.
LEMMA Connects ==
    ASSUME LoginInv, NEW s \in LoginServers, NEW e \in LoginEntry, ConnectToServer(s, e), ~LoginRegistered(s)
    PROVE  \E d \in LoginEntry, q \in Seq(ClientLine) :
               /\ entries' = [entries EXCEPT ![s] = d] /\ peers' = [peers EXCEPT ![s] = Stranger]
               /\ toServer' = [toServer EXCEPT ![s] = q] /\ fromServer' = [fromServer EXCEPT ![s] = <<>>]
               /\ Session(d, Stranger, q, <<>>, loginEnv.secret) /\ ~d.connected
               /\ d.up => Has(q, "NICK")
<1> DEFINE dialled == [ClosedEntry(e) EXCEPT !.operCommand = FALSE]
           named == [dialled EXCEPT !.up = TRUE, !.attempting = TRUE, !.nickname = IF @ = NoNick THEN mine ELSE @]
           lost == [dialled EXCEPT !.attempting = FALSE]
<1>1. /\ peers' = [peers EXCEPT ![s] = Stranger] /\ fromServer' = [fromServer EXCEPT ![s] = <<>>]
      /\ \/ entries' = [entries EXCEPT ![s] = lost] /\ toServer' = [toServer EXCEPT ![s] = <<>>]
         \/ entries' = [entries EXCEPT ![s] = named] /\ toServer' = [toServer EXCEPT ![s] = LoginLines(named)]
    BY DEF ConnectToServer
<1>2. mine \in Nicknames BY DEF LoginInv, LoginTypes
<1>3. /\ dialled \in LoginEntry /\ ~dialled.up /\ ~dialled.connected /\ dialled.flags = {} /\ ~dialled.operCommand
    BY DEF ClosedEntry, LoginEntry
<1> HIDE DEF dialled
<1>4. lost \in LoginEntry /\ ~lost.up /\ ~lost.connected /\ lost.flags = {} BY <1>3 DEF LoginEntry
<1>5. /\ named \in LoginEntry /\ named.up /\ ~named.connected /\ named.flags = {} /\ ~named.operCommand
      /\ named.attempting /\ named.nickname \in Nicknames
    BY <1>2, <1>3 DEF LoginEntry
<1> HIDE DEF lost, named
<1>6. Session(lost, Stranger, <<>>, <<>>, loginEnv.secret) /\ <<>> \in Seq(ClientLine)
    BY <1>4, SessionDown, Silence
<1>7. /\ LoginLines(named) \in Seq(ClientLine) /\ Has(LoginLines(named), "NICK")
      /\ Session(named, Stranger, LoginLines(named), <<>>, loginEnv.secret)
    BY <1>5, SessionFresh
<1>8. CASE entries' = [entries EXCEPT ![s] = lost] /\ toServer' = [toServer EXCEPT ![s] = <<>>]
    BY <1>1, <1>4, <1>6, <1>8
<1>9. CASE entries' = [entries EXCEPT ![s] = named] /\ toServer' = [toServer EXCEPT ![s] = LoginLines(named)]
    BY <1>1, <1>5, <1>7, <1>9
<1> QED BY <1>1, <1>8, <1>9

\* The careful user connects to one server after the other.
LEMMA OneAtATime ==
    ASSUME LoginInv, NEW s \in LoginServers, MayConnect(s), loginEnv.careful, NEW d, entries' = [entries EXCEPT ![s] = d]
    PROVE  /\ \A t \in LoginServers : LoggingIn(t)' => t = s
           /\ \A t, u \in LoginServers : LoggingIn(t)' /\ LoggingIn(u)' => t = u
           /\ \A t \in LoginServers \ {s} : ~LoggingIn(t)
<1>1. entries \in [LoginServers -> LoginEntry] BY DEF LoginInv, LoginTypes
<1>2. \A t \in LoginServers \ {s} : entries'[t] = entries[t] BY <1>1
<1>3. \A t \in LoginServers \ {s} : ~LoggingIn(t) BY DEF MayConnect, LoginRegistered, LoggingIn
<1>4. \A t \in LoginServers \ {s} : ~LoggingIn(t)' BY <1>2, <1>3 DEF LoggingIn
<1> QED BY <1>3, <1>4

LEMMA ServerKeeps ==
    ASSUME LoginInv, NEW s \in LoginServers, Server(s), loginEnv.careful
    PROVE  LoginInv'
<1>1. /\ asking = <<>> /\ MayConnect(s) /\ window' = s /\ ConnectToServer(s, entries[s])
      /\ UNCHANGED <<asking, resetting, mine, loginEnv>>
    BY DEF Server, Types
<1>2. ~LoginRegistered(s) BY <1>1 DEF MayConnect
<1>3. mine \in Nicknames /\ resetting \in BOOLEAN /\ asking \in Seq(Prompt) /\ entries[s] \in LoginEntry /\ Prompts
    BY DEF LoginInv, LoginTypes
<1>4. PICK d \in LoginEntry, q \in Seq(ClientLine) :
               /\ entries' = [entries EXCEPT ![s] = d] /\ peers' = [peers EXCEPT ![s] = Stranger]
               /\ toServer' = [toServer EXCEPT ![s] = q] /\ fromServer' = [fromServer EXCEPT ![s] = <<>>]
               /\ Session(d, Stranger, q, <<>>, loginEnv.secret) /\ ~d.connected
               /\ d.up => Has(q, "NICK")
    BY <1>1, <1>2, <1>3, Connects
<1>5. \A i \in DOMAIN asking' : FALSE BY <1>1, Silence
<1>6. ~resetting' BY <1>1, <1>3, <1>5 DEF Prompts
<1>7. /\ \A t, u \in LoginServers : LoggingIn(t)' /\ LoggingIn(u)' => t = u
      /\ \A t \in LoginServers \ {s} : ~LoggingIn(t)
    BY <1>1, <1>4, OneAtATime
<1>8. Prompts' BY <1>5, <1>6, <1>7 DEF Prompts
<1>9. Stranger \in Peer /\ <<>> \in Seq(ServerLine) BY Silence DEF Stranger, Peer, Away
<1> QED BY <1>1, <1>3, <1>4, <1>7, <1>8, <1>9, OneServer

LEMMA PasswordSendlineKeeps ==
    ASSUME LoginInv, NEW right \in BOOLEAN, PasswordSendline(right), loginEnv.careful
    PROVE  LoginInv'
<1> DEFINE s == asking[1].server
           e == [entries[s] EXCEPT !.password = right]
<1>1. /\ asking # <<>> /\ asking[1].for = "password" /\ asking' = Tail(asking) /\ MayConnect(s)
      /\ ConnectToServer(s, e) /\ UNCHANGED <<resetting, mine, window, loginEnv>>
    BY DEF PasswordSendline, ServerAnswers, Types
<1>2. /\ asking \in Seq(Prompt) /\ mine \in Nicknames /\ resetting \in BOOLEAN /\ window \in LoginServers
    BY DEF LoginInv, LoginTypes
<1>3. s \in LoginServers
  <2>1. asking[1] \in Prompt BY <1>1, <1>2, Behead
  <2> QED BY <2>1 DEF Prompt
<1>4. e \in LoginEntry
  <2>1. entries[s] \in LoginEntry BY <1>3, Here
  <2> QED BY <2>1 DEF LoginEntry
<1>5. ~LoginRegistered(s) BY <1>1 DEF MayConnect
<1> HIDE DEF e
<1>6. PICK d \in LoginEntry, q \in Seq(ClientLine) :
               /\ entries' = [entries EXCEPT ![s] = d] /\ peers' = [peers EXCEPT ![s] = Stranger]
               /\ toServer' = [toServer EXCEPT ![s] = q] /\ fromServer' = [fromServer EXCEPT ![s] = <<>>]
               /\ Session(d, Stranger, q, <<>>, loginEnv.secret) /\ ~d.connected
               /\ d.up => Has(q, "NICK")
    BY <1>1, <1>3, <1>4, <1>5, Connects
<1>7. /\ \A t \in LoginServers : LoggingIn(t)' => t = s
      /\ \A t, u \in LoginServers : LoggingIn(t)' /\ LoggingIn(u)' => t = u
      /\ \A t \in LoginServers \ {s} : ~LoggingIn(t)
    BY <1>1, <1>3, <1>6, OneAtATime
<1>8. asking' \in Seq(Prompt) /\ Prompts'
  <2>1. \A t \in LoginServers : LoggingIn(t)' => LoggingIn(t) \/ (t = asking[1].server /\ asking[1].for # "oper")
    BY <1>1, <1>7
  <2>2. resetting' => resetting /\ asking[1].for # "nick" BY <1>1
  <2> QED BY <1>1, <1>7, <2>1, <2>2, PromptGone
<1>9. Stranger \in Peer /\ <<>> \in Seq(ServerLine) BY Silence DEF Stranger, Peer, Away
<1> HIDE DEF s
<1> QED BY <1>1, <1>2, <1>3, <1>6, <1>7, <1>8, <1>9, OneServer

-----------------------------------------------------------------------------
(* Together.                                                               *)

LEMMA LoginStarts ==
    ASSUME LoginInit
    PROVE  LoginInv
<1>1. NewEntry \in LoginEntry /\ ~NewEntry.up /\ NewEntry.flags = {} /\ ~NewEntry.connected
    BY DEF NewEntry, LoginEntry, Away
<1>2. Stranger \in Peer /\ <<>> \in Seq(ServerLine) /\ <<>> \in Seq(ClientLine) BY Silence DEF Stranger, Peer, Away
<1>3. LoginTypes
  <2>1. loginEnv.first \in Nicknames BY LoginAssumption DEF LoginInit, LoginSetting
  <2>2. <<>> \in Seq(Prompt) OBVIOUS
  <2> QED BY <1>1, <1>2, <2>1, <2>2, LoginAssumption DEF LoginInit, LoginTypes
<1>4. \A s \in LoginServers : /\ entries[s] = NewEntry /\ peers[s] = Stranger
                              /\ toServer[s] = <<>> /\ fromServer[s] = <<>>
    BY DEF LoginInit
<1>5. Sessions
  <2>1. Session(NewEntry, Stranger, <<>>, <<>>, loginEnv.secret) BY <1>1, SessionDown
  <2> QED BY <1>4, <2>1 DEF Sessions
<1>6. Prompts
  <2>1. \A i \in DOMAIN asking : FALSE BY Silence DEF LoginInit
  <2>2. \A s \in LoginServers : ~LoggingIn(s) BY <1>1, <1>4 DEF LoggingIn
  <2> QED BY <2>1, <2>2 DEF Prompts, LoginInit
<1>7. \A s \in LoginServers : NickAsked(s) BY <1>1, <1>4 DEF NickAsked
<1> QED BY <1>3, <1>5, <1>6, <1>7 DEF LoginInv

LEMMA LoginSteps ==
    ASSUME LoginInv, LoginNext, \A e \in LoginSettings : e.careful
    PROVE  LoginInv'
<1>1. loginEnv.careful BY DEF LoginInv, LoginTypes
<1>2. ASSUME NEW s \in LoginServers, ConnectionLost(s) \/ DisconnectCmd(s) PROVE LoginInv'
  <2>1. ConnectionEnds(s) /\ UNCHANGED <<asking, resetting, mine, window, loginEnv>>
    BY <1>2 DEF ConnectionLost, DisconnectCmd, Command, Types
  <2> QED BY <2>1, EndKeeps
<1>3. ASSUME NEW s \in LoginServers, YourHost(s) PROVE LoginInv'
  <2>1. Hears(s, "002") /\ GotInitialVersion(s) /\ Heard(s) /\ UNCHANGED <<asking, resetting, mine>>
    BY <1>3 DEF YourHost
  <2> QED BY <2>1, InitialVersionKeeps
<1>4. ASSUME NEW s \in LoginServers, UserMode(s) PROVE LoginInv'
  <2> DEFINE new == (entries[s].flags \cup Head(fromServer[s]).on) \ Head(fromServer[s]).off
  <2>1. /\ Hears(s, "MODE") /\ Heard(s) /\ UNCHANGED <<toServer, asking, resetting, mine>>
        /\ entries' = [entries EXCEPT ![s].flags = new]
    BY <1>4 DEF UserMode
  <2> QED BY <2>1, UserModeKeeps
<1>5. ASSUME NEW s \in LoginServers, Operator(s) PROVE LoginInv'
  <2>1. /\ Heard(s) /\ UNCHANGED <<toServer, asking, resetting, mine>>
        /\ \/ Hears(s, "381") /\ entries' = [entries EXCEPT ![s].flags = entries[s].flags \cup {"o"}]
           \/ Hears(s, "385") /\ entries' = [entries EXCEPT ![s].flags = entries[s].flags \ {"o"}]
    BY <1>5 DEF Operator
  <2> QED BY <2>1, UserModeKeeps
<1>6. ASSUME NEW s \in LoginServers,
             \/ PeerReads(s) \/ PeerForces(s) \/ Welcomed(s) \/ EndOfMotd(s) \/ Refused(s) \/ NickChanged(s)
             \/ NotRegistered(s) \/ PasswordMismatch(s) \/ Server(s)
      PROVE  LoginInv'
    BY <1>1, <1>6, PeerReadsKeeps, PeerForcesKeeps, WelcomedKeeps, EndOfMotdKeeps, RefusedKeeps, NickChangedKeeps,
       NotRegisteredKeeps, PasswordMismatchKeeps, ServerKeeps
<1>7. ASSUME NEW nick \in Nicknames, ENick(nick) \/ NicknameSendline(nick) PROVE LoginInv'
    BY <1>1, <1>7, ENickKeeps, NicknameSendlineKeeps
<1>12. ASSUME NicknameSendline(NoNick) PROVE LoginInv' BY <1>12, NicknameDeclinedKeeps
<1>8. ASSUME NEW text \in Away, AwayOne(text) \/ AwayAll(text) PROVE LoginInv'
    BY <1>1, <1>8, AwayOneKeeps, AwayAllKeeps
<1>9. ASSUME NEW mode \in UserModes, NEW on \in BOOLEAN, ModeCommand(mode, on) PROVE LoginInv'
    BY <1>9, ModeCommandKeeps
<1>10. ASSUME Oper PROVE LoginInv' BY <1>1, <1>10, OperKeeps
<1>11. ASSUME NEW right \in BOOLEAN, OperPasswordReceived(right) \/ PasswordSendline(right) PROVE LoginInv'
    BY <1>1, <1>11, OperPasswordReceivedKeeps, PasswordSendlineKeeps
<1> QED BY <1>2, <1>3, <1>4, <1>5, <1>6, <1>7, <1>8, <1>9, <1>10, <1>11, <1>12 DEF LoginNext

LEMMA LoginStutters ==
    ASSUME LoginInv, UNCHANGED loginVars
    PROVE  LoginInv'
<1>1. UNCHANGED <<entries, peers, toServer, fromServer, asking, resetting, mine, window, loginEnv>> BY DEF loginVars
<1>2. LoginTypes' BY <1>1 DEF LoginInv, LoginTypes
<1>3. Sessions' BY <1>1 DEF LoginInv, Sessions
<1>4. Prompts' /\ \A s \in LoginServers : NickAsked(s)' BY <1>1 DEF LoginInv, Prompts, LoggingIn, NickAsked, NickPrompt
<1> QED BY <1>2, <1>3, <1>4 DEF LoginInv

\* Once nothing is on its way, what follows from the lines on their way is so.
LEMMA LoginInvAgrees ==
    ASSUME LoginInv
    PROVE  LoginAgreed
<1> SUFFICES ASSUME NEW s \in LoginServers, LoginQuiet(s)
             PROVE  /\ peers[s].registered => NicknameAgreed(s) /\ ModesAgreed(s) /\ AwayAgreed(s)
                    /\ ~peers[s].registered /\ ~peers[s].declined =>
                           \E i \in DOMAIN asking : asking[i] = [for |-> "nick", server |-> s]
    BY DEF LoginAgreed, SessionAgreed, RefusedIsAsked
<1>1. /\ entries[s] \in LoginEntry /\ peers[s] \in Peer
      /\ Session(entries[s], peers[s], <<>>, <<>>, loginEnv.secret) /\ NickAsked(s)
    BY Here DEF LoginQuiet
<1>2. toServer[s] = <<>> /\ fromServer[s] = <<>> /\ entries[s].up BY DEF LoginQuiet
<1>3. /\ \A i \in DOMAIN <<>> : FALSE
      /\ \A n : ~Says(<<>>, n) /\ ~Has(<<>>, n)
    BY Silence
<1>4. ASSUME peers[s].registered PROVE NicknameAgreed(s) /\ ModesAgreed(s) /\ AwayAgreed(s)
  <2>1. /\ NickFollows(<<>>, <<>>, entries[s].nickname, peers[s].nick)
        /\ ModesFollow(<<>>, entries[s].flags, peers[s].modes)
        /\ AwayFollows(<<>>, <<>>, entries[s].away, peers[s].away, peers[s].registered)
    BY <1>1, <1>4 DEF Session
  <2>2. entries[s].nickname = peers[s].nick BY <1>3, <2>1 DEF NickFollows, Leads
  <2>3. entries[s].flags = peers[s].modes
    <3>1. entries[s].flags \subseteq UserModes /\ peers[s].modes \subseteq UserModes BY <1>1 DEF LoginEntry, Peer
    <3>2. \A m \in UserModes : m \in entries[s].flags <=> m \in peers[s].modes BY <1>3, <2>1 DEF ModesFollow
    <3> QED BY <3>1, <3>2
  <2>4. entries[s].away = peers[s].away BY <1>3, <1>4, <2>1 DEF AwayFollows
  <2> QED BY <2>2, <2>3, <2>4 DEF NicknameAgreed, ModesAgreed, AwayAgreed
<1>5. ASSUME ~peers[s].registered, ~peers[s].declined PROVE \E i \in DOMAIN asking : asking[i] = [for |-> "nick", server |-> s]
  <2>1. Pending(peers[s], <<>>, <<>>) BY <1>1, <1>2, <1>5 DEF Session
  <2>2. peers[s].nick = NoNick BY <1>3, <2>1 DEF Pending
  <2>3. NickPrompt(s) BY <1>1, <1>2, <1>3, <1>5, <2>2 DEF NickAsked
  <2>4. PICK i \in DOMAIN asking : asking[i].for = "nick" /\ asking[i].server = s BY <2>3 DEF NickPrompt
  <2>5. asking[i] \in Prompt BY DEF LoginInv, LoginTypes
  <2>6. asking[i] = [for |-> "nick", server |-> s] BY <2>4, <2>5 DEF Prompt
  <2> QED BY <2>6
<1> QED BY <1>4, <1>5

\* The client and a server agree on our nickname there, our modes and our absence, once nothing is on
\* its way, and whoever has not been let in is asked for a nickname, or gave none when asked last:
\* for any number of servers, nicknames and commands, of the careful user (numbers.c, funny.c, edit.c).
THEOREM LoginIsAgreed ==
    ASSUME \A e \in LoginSettings : e.careful
    PROVE  LoginSpec => []LoginAgreed
<1>1. LoginInit => LoginInv BY LoginStarts
<1>2. LoginInv /\ [LoginNext]_loginVars => LoginInv' BY LoginSteps, LoginStutters
<1>3. LoginInv => LoginAgreed BY LoginInvAgrees
<1> QED BY <1>1, <1>2, <1>3, PTL DEF LoginSpec

=============================================================================
