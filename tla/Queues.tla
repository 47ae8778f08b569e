----------------------------- MODULE Queues -----------------------------
(***************************************************************************)
(* /QUEUE (queue.c): commands are kept under a name and run later, all of  *)
(* them in the order they were given.  A queued command may be a QUEUE     *)
(* again and change the queues while do_queue() walks one of them.         *)
(*                                                                         *)
(* Queues and their entries have identities, so that a pointer to what was *)
(* freed can be told from one to what took its place.  "ended" says that   *)
(* the program went through such a pointer, or through none: nothing is    *)
(* known of what follows but that it can be started again.                 *)
(***************************************************************************)
EXTENDS Naturals, FiniteSets, FiniteSetsExt, SequencesExt

CONSTANTS
    QueuedCommands,       \* commands, those in the braces of others too
    QueueSettings,     \* what may be typed: a set of sets of commands
    MaxQueued,         \* bound: queues and entries made
    MaxQueueCalls      \* bound: queues running in one another

\* A command: a QUEUE with its options, its name and number, and what is in braces, if
\* anything.  "Speak" stands for a command of any other kind.
Queueing(name, options, number, what) ==
    [name |-> name, options |-> options, number |-> number, what |-> what]
NoName == ""
Speak == Queueing(NoName, {}, 0, <<>>)

ASSUME QueuesAssumption ==
    /\ MaxQueued \in Nat /\ MaxQueueCalls \in Nat
    /\ QueueSettings \subseteq SUBSET QueuedCommands
    /\ \A cmd \in QueuedCommands :
          cmd.number \in Nat /\ (cmd.what # <<>> => cmd.what[1] \in QueuedCommands)

VARIABLES
    typing,            \* what may be typed
    queues,            \* Queuelist, without "Top"
    made,              \* how many queues and entries were made
    queueCalls,           \* the calls of do_queue(), the innermost last
    ended,             \* "no"; or "null", "freed": the program read there
    ranEntries,               \* the entries run so far
    dropped            \* the entries a run of their queue dropped

queuesVars == <<typing, queues, made, queueCalls, ended, ranEntries, dropped>>

Ids == 1 .. MaxQueued

QueuesTypeOK ==
    /\ typing \in QueueSettings
    /\ made \in 0 .. MaxQueued
    /\ \A i \in DOMAIN queues :
          /\ queues[i].id \in Ids /\ queues[i].name # NoName
          /\ \A j \in DOMAIN queues[i].list : queues[i].list[j].id \in Ids
    /\ \A i \in DOMAIN queueCalls : queueCalls[i].before \in 0 .. MaxQueued
                                 /\ queueCalls[i].queue \in Ids /\ queueCalls[i].at \in Ids
    /\ Len(queueCalls) <= MaxQueueCalls
    /\ ended \in {"no", "null", "freed"}
    /\ ranEntries \subseteq Ids /\ dropped \subseteq Ids

QueuesInit ==
    /\ typing \in QueueSettings
    /\ queues = <<>> /\ made = 0 /\ queueCalls = <<>> /\ ended = "no"
    /\ ranEntries = {} /\ dropped = {}

----------------------------------------------------------------------------
(* What a QUEUE does to the queues: these map the lists, the count and the *)
(* end of the program, held in a record, to what becomes of them; k is the *)
(* place of the queue after "tmp", beyond the list if there is none.       *)

Null(s) == [s EXCEPT !.ended = "null"]
IdsOf(list) == {list[i].id : i \in DOMAIN list}

\* lookup_queue(): where it is, or the end.
Lookup(list, name) ==
    Min({i \in DOMAIN list : list[i].name = name} \cup {Len(list) + 1})

\* make_new_queue(), behind the last.
MakeNewQueue(s, name) ==
    [s EXCEPT !.queues = Append(@, [id |-> s.made + 1, name |-> name, list |-> <<>>]),
              !.made = @ + 1]

\* Mutant: at the head of the list.
AddCommandsFirst(s, k, what) ==
    IF s.ended # "no" THEN s
    ELSE IF k > Len(s.queues) THEN Null(s)
    ELSE [s EXCEPT !.queues[k].list = <<[id |-> s.made + 1, what |-> what]>> \o @,
                   !.made = @ + 1]

\* add_commands_to_queue(): at the end of the list.
AddCommands(s, k, what) ==
    IF s.ended # "no" THEN s
    ELSE IF k > Len(s.queues) THEN Null(s)
    ELSE [s EXCEPT !.queues[k].list = Append(@, [id |-> s.made + 1, what |-> what]),
                   !.made = @ + 1]

\* remove_a_queue(), flush_queue().
RemoveAQueue(s, k) ==
    IF s.ended # "no" THEN s
    ELSE IF k > Len(s.queues) THEN Null(s)
    ELSE [s EXCEPT !.queues = RemoveAt(@, k)]

\* delete_commands_from_queue(): whatever is no number is 0, and takes the second; one more
\* than there are goes through the last one's next.
DeleteCommands(s, k, which) ==
    LET list == s.queues[k].list
        before == Max({1, which - 1}) IN
    IF list = <<>> THEN Null(s)
    ELSE IF which = 1
    THEN IF Len(list) = 1 THEN RemoveAQueue(s, k) ELSE [s EXCEPT !.queues[k].list = Tail(@)]
    ELSE IF before > Len(list) THEN s
    ELSE IF before = Len(list) THEN Null(s)
    ELSE [s EXCEPT !.queues[k].list = RemoveAt(@, before + 1)]

\* print_queue() of nothing.
PrintQueue(s, k) == IF s.ended = "no" /\ k > Len(s.queues) THEN Null(s) ELSE s

\* queuecmd(), after it looked the queue up and until it may have to run it.
UntilRun(s, k, cmd) ==
    LET deleted == IF "DELETE" \in cmd.options THEN DeleteCommands(s, k, cmd.number) ELSE s
        listed == IF "LIST" \in cmd.options THEN PrintQueue(deleted, k) ELSE deleted IN
    IF "DO" \in cmd.options /\ listed.ended = "no"
       /\ (k > Len(listed.queues) \/ listed.queues[k].list = <<>>)
    THEN Null(listed) ELSE listed

\* queuecmd(), after it may have run it.
AfterRun(s, k, cmd) ==
    LET flushed == IF "FLUSH" \in cmd.options THEN RemoveAQueue(s, k) ELSE s IN
    IF cmd.what # <<>> THEN AddCommands(flushed, k, cmd.what[1]) ELSE flushed

Now == [queues |-> queues, made |-> made, ended |-> ended]
Becomes(s) == queues' = s.queues /\ made' = s.made /\ ended' = s.ended

\* queuecmd(), of the innermost call or of what is typed: "calls" go on after it.
QueueCmd(cmd, calls) ==
    LET k == Lookup(queues, cmd.name)
        absent == k > Len(queues)
        found == IF absent THEN MakeNewQueue(Now, cmd.name) ELSE Now
        s == UntilRun(found, k, cmd) IN
    IF cmd.name = NoName \/ (absent /\ cmd.what = <<>>)
    THEN UNCHANGED <<queues, made, ended>> /\ queueCalls' = calls
    ELSE IF "DO" \in cmd.options /\ s.ended = "no"
    THEN /\ Becomes(s)
         /\ queueCalls' = Append(calls, [cmd |-> cmd, done |-> FALSE,
                                      before |-> IF k = 1 THEN 0 ELSE s.queues[k - 1].id,
                                      queue |-> s.queues[k].id, at |-> s.queues[k].list[1].id])
    ELSE Becomes(AfterRun(s, k, cmd)) /\ queueCalls' = calls

----------------------------------------------------------------------------
(* Running a queue: do_queue() runs an entry by parse_line(), and only     *)
(* then looks for the next.                                                *)

InnerQueue == queueCalls[Len(queueCalls)]
IsThere(id) == \E i \in DOMAIN queues : queues[i].id = id
PlaceOf(id) == IF id = 0 THEN 0 ELSE CHOOSE i \in DOMAIN queues : queues[i].id = id
EntryThere == IsThere(InnerQueue.queue) /\ InnerQueue.at \in IdsOf(queues[PlaceOf(InnerQueue.queue)].list)
ListOf == queues[PlaceOf(InnerQueue.queue)].list
At == CHOOSE i \in DOMAIN ListOf : ListOf[i].id = InnerQueue.at
OneOf(cmds) == made + 2 <= MaxQueued /\ Len(queueCalls) < MaxQueueCalls

TypeQueue(cmd) ==
    /\ ended = "no" /\ queueCalls = <<>> /\ OneOf(typing)
    /\ QueueCmd(cmd, <<>>)
    /\ UNCHANGED <<typing, ranEntries, dropped>>

RunEntry ==
    /\ ended = "no" /\ queueCalls # <<>> /\ ~InnerQueue.done /\ OneOf(typing)
    /\ EntryThere
    /\ ranEntries' = ranEntries \cup {InnerQueue.at}
    /\ QueueCmd(ListOf[At].what, [queueCalls EXCEPT ![Len(queueCalls)].done = TRUE])
    /\ UNCHANGED <<typing, dropped>>

\* tmp->next.
MoreToRun == EntryThere /\ At < Len(ListOf)

NextEntry ==
    /\ ended = "no" /\ queueCalls # <<>> /\ InnerQueue.done
    /\ MoreToRun
    /\ queueCalls' = [queueCalls EXCEPT ![Len(queueCalls)] =
                      [@ EXCEPT !.done = FALSE, !.at = ListOf[At + 1].id]]
    /\ UNCHANGED <<typing, queues, made, ended, ranEntries, dropped>>

\* The queue goes unless -NO_FLUSH was given, and the rest of queuecmd() follows.
DoneQueue ==
    /\ ended = "no" /\ queueCalls # <<>> /\ InnerQueue.done
    /\ EntryThere /\ ~MoreToRun
    /\ InnerQueue.before = 0 \/ IsThere(InnerQueue.before)
    /\ LET flushes == "NO_FLUSH" \notin InnerQueue.cmd.options
           s == IF flushes THEN RemoveAQueue(Now, PlaceOf(InnerQueue.queue)) ELSE Now IN
       /\ dropped' = IF flushes THEN dropped \cup IdsOf(ListOf) ELSE dropped
       /\ Becomes(AfterRun(s, PlaceOf(InnerQueue.before) + 1, InnerQueue.cmd))
    /\ queueCalls' = Front(queueCalls)
    /\ UNCHANGED <<typing, ranEntries>>

\* The entry that ran, its queue, or the one before it was freed by what it ran.
WasFreed ==
    /\ ended = "no" /\ queueCalls # <<>> /\ InnerQueue.done
    /\ ~EntryThere \/ (~MoreToRun /\ InnerQueue.before # 0 /\ ~IsThere(InnerQueue.before))
    /\ ended' = "freed"
    /\ UNCHANGED <<typing, queues, made, queueCalls, ranEntries, dropped>>

\* The program is started again.
StartAgain ==
    /\ ended # "no"
    /\ queues' = <<>> /\ made' = 0 /\ queueCalls' = <<>> /\ ended' = "no"
    /\ ranEntries' = {} /\ dropped' = {} /\ UNCHANGED typing

QueuesNext ==
    \/ \E cmd \in typing : TypeQueue(cmd)
    \/ RunEntry
    \/ NextEntry
    \/ DoneQueue
    \/ WasFreed
    \/ StartAgain

QueuesSpec == QueuesInit /\ [][QueuesNext]_queuesVars

----------------------------------------------------------------------------

(* What is dropped because its queue ran has run itself, the commands the  *)
(* queue was given while it was running too (do_queue() looks for the next *)
(* entry only after the last one has run).                                 *)
DroppedHaveRun == dropped \subseteq ranEntries
=============================================================================
