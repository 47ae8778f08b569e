-------------------------------- MODULE Hooks --------------------------------
(***************************************************************************)
(* /ON: the lists of hooks of hook.c, and do_hook() that runs them, whose  *)
(* commands may add and remove hooks and bring about other events.         *)
(*                                                                         *)
(* A hook is named by the number of its making.  Three lists stand for     *)
(* all: "MSG", "WINDOW", which is not run while it runs, and one that      *)
(* belongs to a "numeric".  How much a hook displays is left out.          *)
(***************************************************************************)
EXTENDS Naturals, Sequences, FiniteSets

CONSTANTS
    MaxHooks,          \* bound: hooks made
    MaxLevel,          \* bound: events within events
    WaitBuffer,        \* WAIT_BUFFER: what is kept of what was freed in a hook
    HookSettings       \* what kinds of run there are, a subset of HookSetting

Lists == {"MSG", "WINDOW", "numeric"}
NoRecurse == {"WINDOW"}
HookNicks == {"*", "x"}              \* what an event has to be about
Topics == {"x", "y"}                 \* what an event is about
AnyServer == 0                       \* -1 in the code
Exclusive == 10                      \* HS_NOGENERIC
HookServers == {1, 2}
ServersOf == {AnyServer} \cup HookServers \cup {Exclusive + s : s \in HookServers}

HookSetting == [lists: SUBSET Lists, serials: SUBSET Nat, servers: SUBSET ServersOf,
                nots: SUBSET BOOLEAN, hooks: 0 .. MaxHooks]

ASSUME HooksAssumption ==
    /\ MaxHooks \in Nat /\ MaxLevel \in Nat /\ WaitBuffer \in Nat \ {0}
    /\ HookSettings \subseteq HookSetting

VARIABLES
    hook,              \* every hook made so far
    hookList,          \* the lists, in their order
    waiting,           \* wait_pointers: removed, and not freed yet
    gone,              \* freed
    frames,            \* the calls of do_hook(), the innermost last
    marks,             \* mark: how often each list is being run
    ran,               \* what the innermost call has run so far, and those around it
    hookEnv            \* the setting of this run, never changed

hooksVars == <<hook, hookList, waiting, gone, frames, marks, ran, hookEnv>>

HookIds == 1 .. MaxHooks
Hook == [nick: HookNicks, sernum: Nat, server: ServersOf, not: BOOLEAN]
Frame == [which: Lists, array: Seq(HookIds), next: Nat, running: BOOLEAN]

HooksTypeOK ==
    /\ hook \in Seq(Hook) /\ Len(hook) <= MaxHooks
    /\ hookList \in [Lists -> Seq(HookIds)]
    /\ waiting \in Seq(HookIds) /\ gone \subseteq HookIds
    /\ frames \in Seq(Frame)
    /\ marks \in [Lists -> Nat]
    /\ ran \in Seq(SUBSET HookIds)
    /\ hookEnv \in HookSettings

HooksInit ==
    /\ hook = <<>> /\ hookList = [l \in Lists |-> <<>>]
    /\ waiting = <<>> /\ gone = {}
    /\ frames = <<>> /\ marks = [l \in Lists |-> 0] /\ ran = <<>>
    /\ hookEnv \in HookSettings

----------------------------------------------------------------------------
(* The lists.                                                              *)

Generic(server) == IF server > Exclusive THEN server - Exclusive ELSE server

\* Add_Remove_Check(): how an entry compares to what is looked for; by itself for adding.
LaterThan(h, new) ==
    \/ h.sernum > new.sernum
    \/ h.sernum = new.sernum /\ h.server > Generic(new.server)
SameHook(h, nick, sernum, server) ==
    h.sernum = sernum /\ h.nick = nick /\ h.server = Generic(server)

\* add_to_list_ext()
Placed(list, id, new) ==
    LET later == {i \in DOMAIN list : LaterThan(hook[list[i]], new)}
        at == IF later = {} THEN Len(list) + 1 ELSE CHOOSE i \in later : \A j \in later : i <= j
    IN  SubSeq(list, 1, at - 1) \o <<id>> \o SubSeq(list, at, Len(list))

\* remove_from_list_ext(): the first of them.
Dropped(list, ids) ==
    LET hits == {i \in DOMAIN list : list[i] \in ids}
        at == CHOOSE i \in hits : \A j \in hits : i <= j
    IN  IF hits = {} THEN [list |-> list, out |-> {}]
        ELSE [list |-> SubSeq(list, 1, at - 1) \o SubSeq(list, at + 1, Len(list)), out |-> {list[at]}]

Named(l, nick, sernum, server) ==
    {id \in {hookList[l][i] : i \in DOMAIN hookList[l]} : SameHook(hook[id], nick, sernum, server)}

\* A numeric's are removed by what they match alone (remove_numeric_hook()).
NamedToRemove(l, nick, sernum, server) ==
    IF l = "numeric" THEN {hookList[l][i] : i \in {j \in DOMAIN hookList[l] : hook[hookList[l][j]].nick = nick}}
    ELSE Named(l, nick, sernum, server)

\* wait_new_free(): freed later, or when the buffer has gone round.
SetToWait(out) ==
    IF out = {} THEN UNCHANGED <<waiting, gone>>
    ELSE LET id == CHOOSE i \in out : TRUE IN
         /\ waiting' = Append(IF Len(waiting) = WaitBuffer THEN Tail(waiting) ELSE waiting, id)
         /\ gone' = IF Len(waiting) = WaitBuffer THEN gone \cup {Head(waiting)} ELSE gone

\* Commands are typed, or run by a hook.
MayCommand == frames # <<>> => frames[Len(frames)].running

\* ON list match: an entry for the same is replaced.
OnAdd ==
    /\ MayCommand /\ Len(hook) < hookEnv.hooks
    /\ \E l \in hookEnv.lists, nick \in HookNicks, sernum \in hookEnv.serials,
          server \in hookEnv.servers, not \in hookEnv.nots :
          LET new == [nick |-> nick, sernum |-> sernum, server |-> server, not |-> not]
              old == Dropped(hookList[l], Named(l, nick, sernum, server))
          IN
          /\ hook' = Append([i \in DOMAIN hook |->
                                IF i \in old.out THEN [hook[i] EXCEPT !.not = TRUE] ELSE hook[i]], new)
          /\ hookList' = [hookList EXCEPT ![l] = Placed(old.list, Len(hook) + 1, new)]
          /\ SetToWait(old.out)
    /\ UNCHANGED <<frames, marks, ran, hookEnv>>

\* Mutant: a removed hook is freed, and not marked.
OnRemoveAtOnce ==
    /\ MayCommand
    /\ \E l \in hookEnv.lists, nick \in HookNicks, sernum \in hookEnv.serials, server \in hookEnv.servers :
          LET old == Dropped(hookList[l], NamedToRemove(l, nick, sernum, server)) IN
          /\ old.out # {}
          /\ hookList' = [hookList EXCEPT ![l] = old.list]
          /\ SetToWait(old.out)
    /\ UNCHANGED <<hook, frames, marks, ran, hookEnv>>

\* ON list -match
OnRemove ==
    /\ MayCommand
    /\ \E l \in hookEnv.lists, nick \in HookNicks, sernum \in hookEnv.serials, server \in hookEnv.servers :
          LET old == Dropped(hookList[l], NamedToRemove(l, nick, sernum, server)) IN
          /\ old.out # {}
          /\ hook' = [i \in DOMAIN hook |-> IF i \in old.out THEN [hook[i] EXCEPT !.not = TRUE] ELSE hook[i]]
          /\ hookList' = [hookList EXCEPT ![l] = old.list]
          /\ SetToWait(old.out)
    /\ UNCHANGED <<frames, marks, ran, hookEnv>>

\* ON list -
OnRemoveAll ==
    /\ MayCommand
    /\ \E l \in hookEnv.lists :
          LET out == {hookList[l][i] : i \in DOMAIN hookList[l]}
              all == waiting \o hookList[l]
              kept == IF Len(all) > WaitBuffer THEN SubSeq(all, Len(all) - WaitBuffer + 1, Len(all)) ELSE all
          IN
          /\ out # {}
          /\ hook' = [i \in DOMAIN hook |-> IF i \in out THEN [hook[i] EXCEPT !.not = TRUE] ELSE hook[i]]
          /\ hookList' = [hookList EXCEPT ![l] = <<>>]
          /\ waiting' = kept
          /\ gone' = gone \cup ({all[i] : i \in DOMAIN all} \ {kept[i] : i \in DOMAIN kept})
    /\ UNCHANGED <<frames, marks, ran, hookEnv>>

----------------------------------------------------------------------------
(* Events.                                                                 *)

\* wild_match(): the more a pattern says, the more it counts; 0 for no match.
WildMatch(nick, topic) == IF nick = topic THEN 2 ELSE IF nick = "*" THEN 1 ELSE 0

\* A hook for one server alone: compared with a server that is masked out, so none is its own.
Shuts(h, fromServer) == h.server > Exclusive

LookedAt(list, sernum) == {i \in DOMAIN list : hook[list[i]].sernum = sernum}

\* Nothing of a serial number is run when one of its hooks shuts it.
Shut(list, sernum, fromServer) ==
    \E i \in LookedAt(list, sernum) : Shuts(hook[list[i]], fromServer)

\* The first of the best matches of a serial number, if it is not shut: a set of at most one.
BestMatch(list, sernum, topic, fromServer) ==
    LET w(i) == WildMatch(hook[list[i]].nick, topic)
        seen == LookedAt(list, sernum)
    IN  IF Shut(list, sernum, fromServer) THEN {}
        ELSE {i \in seen : w(i) > 0 /\ \A j \in seen : w(j) < w(i) \/ (w(j) = w(i) /\ i <= j)}

\* do_hook(): what will be run is chosen before any of it runs.
HookArray(l, topic, fromServer) ==
    LET list == hookList[l]
        best == UNION {BestMatch(list, s, topic, fromServer) : s \in {hook[list[i]].sernum : i \in DOMAIN list}}
        at(n) == CHOOSE i \in best : Cardinality({j \in best : j <= i}) = n
    IN  [n \in 1 .. Cardinality(best) |-> list[at(n)]]

DoHook ==
    /\ MayCommand /\ Len(frames) < MaxLevel
    /\ \E l \in hookEnv.lists, topic \in Topics, fromServer \in HookServers :
          LET array == HookArray(l, topic, fromServer) IN
          /\ ~(l \in NoRecurse /\ marks[l] > 0)
          /\ array # <<>>
          /\ frames' = Append(frames, [which |-> l, array |-> array, next |-> 1, running |-> FALSE])
          /\ marks' = [marks EXCEPT ![l] = IF l = "numeric" THEN @ ELSE @ + 1]
    /\ ran' = Append(ran, {})
    /\ UNCHANGED <<hook, hookList, waiting, gone, hookEnv>>

Innermost == frames[Len(frames)]
HookEntry == Innermost.array[Innermost.next]

\* The next of them, unless it was removed meanwhile or says to do nothing.
HookRuns ==
    /\ frames # <<>> /\ ~Innermost.running /\ Innermost.next <= Len(Innermost.array)
    /\ IF hook[HookEntry].not
       THEN /\ frames' = [frames EXCEPT ![Len(frames)].next = @ + 1]
            /\ UNCHANGED ran
       ELSE /\ frames' = [frames EXCEPT ![Len(frames)].running = TRUE]
            /\ ran' = [ran EXCEPT ![Len(ran)] = @ \cup {HookEntry}]
    /\ UNCHANGED <<hook, hookList, waiting, gone, marks, hookEnv>>

HookRan ==
    /\ frames # <<>> /\ Innermost.running
    /\ frames' = [frames EXCEPT ![Len(frames)].running = FALSE, ![Len(frames)].next = @ + 1]
    /\ UNCHANGED <<hook, hookList, waiting, gone, marks, ran, hookEnv>>

\* The call returns; the outermost frees what was removed (really_free()).
HookDone ==
    /\ frames # <<>> /\ ~Innermost.running /\ Innermost.next > Len(Innermost.array)
    /\ frames' = SubSeq(frames, 1, Len(frames) - 1)
    /\ ran' = SubSeq(ran, 1, Len(ran) - 1)
    /\ marks' = [marks EXCEPT ![Innermost.which] = IF Innermost.which = "numeric" THEN @ ELSE @ - 1]
    /\ IF Len(frames) = 1
       THEN waiting' = <<>> /\ gone' = gone \cup {waiting[i] : i \in DOMAIN waiting}
       ELSE UNCHANGED <<waiting, gone>>
    /\ UNCHANGED <<hook, hookList, hookEnv>>

HooksNext ==
    \/ OnAdd \/ OnRemove \/ OnRemoveAll
    \/ DoHook \/ HookRuns \/ HookRan \/ HookDone

HooksSpec == HooksInit /\ [][HooksNext]_hooksVars

----------------------------------------------------------------------------
(* What is right of it.                                                    *)

\* What do_hook() will still look at has not been freed, and what it will still run is in a
\* list: a hook that was removed or replaced while others ran does not run any more.
RemovedNeverRun ==
    \A f \in DOMAIN frames : \A i \in frames[f].next .. Len(frames[f].array) :
        LET id == frames[f].array[i] IN
        i > frames[f].next \/ ~frames[f].running =>
            /\ id \notin gone
            /\ ~hook[id].not => \E l \in Lists, k \in 1 .. MaxHooks :
                   k \in DOMAIN hookList[l] /\ hookList[l][k] = id

\* Of one event, hooks of different serial numbers run ("multiple ON's trigger of one
\* event", help/on/on:46), one of each, and in the order of the numbers; a list that must
\* not be run while it runs has one call at most.
OneOfEachSerial ==
    /\ \A f \in DOMAIN frames : \A i, j \in DOMAIN frames[f].array :
           i < j => hook[frames[f].array[i]].sernum < hook[frames[f].array[j]].sernum
    /\ \A l \in NoRecurse : Cardinality({f \in DOMAIN frames : frames[f].which = l}) <= 1
    /\ \A l \in Lists \ {"numeric"} : marks[l] = Cardinality({f \in DOMAIN frames : frames[f].which = l})

\* Hooks that change the lists while hooks run: nothing that was removed runs, and nothing runs
\* twice for one event (hook.c).
HooksHold == RemovedNeverRun /\ OneOfEachSerial

=============================================================================
