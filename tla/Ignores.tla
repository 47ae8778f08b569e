------------------------------- MODULE Ignores -------------------------------
(***************************************************************************)
(* /IGNORE (ignore.c): the list of whom to ignore, and the counts by which *)
(* the client knows whether it needs somebody's user@host to tell.         *)
(***************************************************************************)
EXTENDS Naturals, Sequences, FiniteSets

CONSTANTS
    IgnoreLevels,      \* the kinds of message
    MaxSums,           \* bound: how high a count goes
    IgnoreSettings     \* what kinds of run there are: the patterns that are typed

\* "host" stands for u@h, of somebody whose nickname is "nick"; "@" for *@*; "*" for everybody.
Patterns == {"nick", "host", "@", "*"}
WithAt == {"host", "@"}
IgnoreFlags == {"IGNORED", "DONT_IGNORE", "HIGHLIGHTED", "REMOVE"}

ASSUME IgnoresAssumption ==
    /\ IgnoreLevels # {} /\ IsFiniteSet(IgnoreLevels) /\ MaxSums \in Nat
    /\ IgnoreSettings \subseteq SUBSET Patterns

VARIABLES
    ignored,           \* ignored_nicks: the entry of each pattern, none for a pattern not in it
    sums,              \* ignore_usernames_sums
    lookUp,            \* do_ignore_usernames: kinds that need a user@host
    lastSaid,          \* of each pattern and kind, what was said of it last
    ignoreEnv          \* the setting of this run, never changed

ignoresVars == <<ignored, sums, lookUp, lastSaid, ignoreEnv>>

NoIgnore == [type |-> {}, dont |-> {}, high |-> {}]
IgnoreEntry == [type: SUBSET IgnoreLevels, dont: SUBSET IgnoreLevels, high: SUBSET IgnoreLevels]

IgnoresTypeOK ==
    /\ ignored \in [Patterns -> IgnoreEntry]
    /\ sums \in [IgnoreLevels -> 0 .. MaxSums]
    /\ lookUp \subseteq IgnoreLevels
    /\ lastSaid \in [Patterns -> [IgnoreLevels -> IgnoreFlags]]

IgnoresInit ==
    /\ ignored = [p \in Patterns |-> NoIgnore]
    /\ sums = [l \in IgnoreLevels |-> 0] /\ lookUp = {}
    /\ lastSaid = [p \in Patterns |-> [l \in IgnoreLevels |-> "REMOVE"]]
    /\ ignoreEnv \in IgnoreSettings

----------------------------------------------------------------------------
\* ignore_usernames_mask(), when it adds.
MaskAdd(s, levels) == [l \in IgnoreLevels |-> IF l \in levels THEN s[l] + 1 ELSE s[l]]

\* Mutant: what is ignored no more is taken from every kind.
MaskSubAll(s, levels) == [l \in IgnoreLevels |-> s[l] - 1]

\* ignore_usernames_mask(), when it subtracts.
MaskSub(s, levels) == [l \in IgnoreLevels |-> IF l \in levels THEN s[l] - 1 ELSE s[l]]
MaskOf(s) == {l \in IgnoreLevels : s[l] # 0}

\* Mutant: what is highlighted, or ignored, is not taken out of what is never ignored.
MarkedOver(entry, levels, flag) ==
    LET now(is, with) == IF flag = with THEN is \cup levels
                         ELSE IF flag = "REMOVE" THEN is \ levels ELSE is
    IN  [type |-> now(entry.type, "IGNORED"), dont |-> now(entry.dont, "DONT_IGNORE"),
         high |-> now(entry.high, "HIGHLIGHTED")]

\* The switch of ignore_nickname().
Marked(entry, levels, flag) ==
    LET now(is, with) == IF flag = with THEN is \cup levels ELSE is \ levels
    IN  [type |-> now(entry.type, "IGNORED"), dont |-> now(entry.dont, "DONT_IGNORE"),
         high |-> now(entry.high, "HIGHLIGHTED")]

\* One pattern of ignore_nickname().  The count goes up whatever is said of the pattern, and
\* comes down by what is ignored when the entry is removed (remove_ignore()).
IgnoreNickname(state, pattern, levels, flag) ==
    LET entry == Marked(state.list[pattern], levels, flag)
        counted == IF pattern \in WithAt THEN MaskAdd(state.sums, levels) ELSE state.sums
        goes == entry = NoIgnore \/ (levels = IgnoreLevels /\ flag = "REMOVE")
    IN  IF state.list[pattern] = NoIgnore /\ flag = "REMOVE"
        THEN [state EXCEPT !.sums = counted]
        ELSE [list |-> [state.list EXCEPT ![pattern] = IF goes THEN NoIgnore ELSE entry],
              sums |-> IF goes /\ pattern \in WithAt THEN MaskSub(counted, entry.type) ELSE counted]

Becomes(state) ==
    /\ \A l \in IgnoreLevels : state.sums[l] <= MaxSums
    /\ ignored' = state.list /\ sums' = state.sums /\ lookUp' = MaskOf(state.sums)

Say(patterns, levels, flag) ==
    lastSaid' = [p \in Patterns |-> [l \in IgnoreLevels |->
                    IF p \in patterns /\ l \in levels THEN flag ELSE lastSaid[p][l]]]

Present == [list |-> ignored, sums |-> sums]

\* IGNORE pattern type.  A pattern without a type that is known leaves things as they are.
Ignore ==
    /\ \E p \in ignoreEnv, levels \in SUBSET IgnoreLevels, flag \in IgnoreFlags :
          /\ Becomes(IgnoreNickname(Present, p, levels, flag))
          /\ Say({p}, levels, flag)
    /\ UNCHANGED ignoreEnv

\* IGNORE pattern,pattern type.  Of ALL, only the first: ignore_nickname() returns.
IgnoreSeveral ==
    /\ \E p, q \in ignoreEnv, levels \in SUBSET IgnoreLevels, flag \in IgnoreFlags :
          LET first == IgnoreNickname(Present, p, levels, flag)
              returns == levels = IgnoreLevels /\ ~(flag = "REMOVE" /\ ignored[p] = NoIgnore)
          IN  /\ p # q
              /\ Becomes(IF returns THEN first ELSE IgnoreNickname(first, q, levels, flag))
              /\ Say(IF returns THEN {p} ELSE {p, q}, levels, flag)
    /\ UNCHANGED ignoreEnv

\* IGNORE pattern NONE
IgnoreNone ==
    /\ \E p \in ignoreEnv :
          /\ ignored[p] # NoIgnore
          /\ Becomes([list |-> [ignored EXCEPT ![p] = NoIgnore],
                      sums |-> IF p \in WithAt THEN MaskSub(sums, ignored[p].type) ELSE sums])
          /\ Say({p}, IgnoreLevels, "REMOVE")
    /\ UNCHANGED ignoreEnv

IgnoresNext == Ignore \/ IgnoreSeveral \/ IgnoreNone

IgnoresSpec == IgnoresInit /\ [][IgnoresNext]_ignoresVars

----------------------------------------------------------------------------
(* Whether somebody is ignored.                                            *)

\* list_lookup() with USE_WILDCARDS: the entry that matches the most of a name.
Strength(pattern) == IF pattern \in {"nick", "host"} THEN 3 ELSE IF pattern = "@" THEN 2 ELSE 1
Matching(name) == {p \in Patterns : ignored[p] # NoIgnore /\
                      (p = name \/ p = "*" \/ (p = "@" /\ name = "host"))}

IsIgnored(name, level) ==
    IF Matching(name) = {} THEN "no"
    ELSE LET p == CHOOSE q \in Matching(name) : \A r \in Matching(name) : Strength(r) <= Strength(q)
         IN  IF level \in ignored[p].dont THEN "DONT_IGNORE"
             ELSE IF level \in ignored[p].type THEN "IGNORED"
             ELSE IF level \in ignored[p].high THEN "HIGHLIGHTED" ELSE "no"

\* ignore_combo(), double_ignore()
IgnoreCombo(flags) ==
    IF "DONT_IGNORE" \in flags THEN "DONT_IGNORE"
    ELSE IF "IGNORED" \in flags THEN "IGNORED"
    ELSE IF "HIGHLIGHTED" \in flags THEN "HIGHLIGHTED" ELSE "no"

DoubleIgnore(userhost, level) ==
    IgnoreCombo({IsIgnored("nick", level)} \cup (IF userhost THEN {IsIgnored("host", level)} ELSE {}))

----------------------------------------------------------------------------
(* SAVE -IGNORE, and loading what it wrote.                                *)

\* ignore_info(): ALL when that is all there is of one sort, and each kind by itself otherwise.
SavedWords(entry) ==
    IF entry.type = IgnoreLevels THEN {<<"IGNORED", IgnoreLevels>>}
    ELSE IF entry.high = IgnoreLevels THEN {<<"HIGHLIGHTED", IgnoreLevels>>}
    ELSE IF entry.dont = IgnoreLevels THEN {<<"DONT_IGNORE", IgnoreLevels>>}
    ELSE {<<"IGNORED", {l}>> : l \in entry.type}
           \cup {<<"HIGHLIGHTED", {l}>> : l \in entry.high \ entry.type}
           \cup {<<"DONT_IGNORE", {l}>> : l \in entry.dont \ (entry.type \cup entry.high)}

\* The words are read one after the other; no two are of the same kind of message.
Loaded(words) ==
    LET of(flag) == UNION {w[2] : w \in {v \in words : v[1] = flag}}
    IN  [type |-> of("IGNORED"), dont |-> of("DONT_IGNORE"), high |-> of("HIGHLIGHTED")]

----------------------------------------------------------------------------
(* What is right of it.                                                    *)

\* "The nickname with the most true matching characters" decides (help/ignore:62), by what was
\* said last of it for that kind of message: among the patterns of which anything holds, nothing
\* said of a weaker one, nor what was said before and taken back, has any say in it.  That is said of
\* the + for a user@host too, as the code has it, where the help has not: see PlusOnlyForNicknames.
LastSaidHolds ==
    \A name \in {"nick", "host"}, level \in IgnoreLevels :
        LET holds == {p \in Patterns : (p = name \/ p = "*" \/ (p = "@" /\ name = "host"))
                         /\ \E l \in IgnoreLevels : lastSaid[p][l] # "REMOVE"}
            p == CHOOSE q \in holds : \A r \in holds : Strength(r) <= Strength(q)
        IN  IsIgnored(name, level) =
                IF holds = {} \/ lastSaid[p][level] = "REMOVE" THEN "no" ELSE lastSaid[p][level]

\* And the list that was saved is the list that is loaded.
SavedComesBack == \A p \in Patterns : Loaded(SavedWords(ignored[p])) = ignored[p]

IgnoresAreKept == LastSaidHolds /\ SavedComesBack

\* Whoever is to be ignored by their user@host is: as long as an entry ignores a kind of message
\* by that, messages of that kind wait for the user@host (ignore_usernames()), however often it
\* was entered and taken back.  (Not the other way about: the kind may be looked up for nothing.)
LookedUpIfNeeded ==
    \A p \in WithAt : ignored[p].type \subseteq lookUp

\* What was said to be ignored is, and is what is saved (ignore.c).
IgnoresHold == IgnoresAreKept /\ LookedUpIfNeeded

\* "MSG's from BigCheese will be ignored, and all other types of messages from BigCheese will be
\* unaffected" (help/ignore:65), with an entry for BigCheese and one for everybody.  The code
\* looks for the user@host too, which everybody's entry matches.
OthersUnaffected ==
    \A level \in IgnoreLevels : ignored["nick"] # NoIgnore => DoubleIgnore(TRUE, level) = IsIgnored("nick", level)

\* "The + has no effect with the user@host name format" (help/ignore:43-44).  ignore_nickname()
\* sets high for any pattern (ignore.c:158-160) and is_ignored() answers HIGHLIGHTED for any.
PlusOnlyForNicknames ==
    \A level \in IgnoreLevels : IsIgnored("host", level) = "HIGHLIGHTED" =>
        \E p \in Matching("host") \ WithAt : level \in ignored[p].high

=============================================================================
