--------------------------------- MODULE Exec ---------------------------------
(***************************************************************************)
(* Processes started with /EXEC: the process list of exec.c, the buffered  *)
(* reading of newio.c, and the part of the main loop of irc.c that serves  *)
(* them, against the pipes and processes of the kernel.                    *)
(*                                                                         *)
(* A process is named by the number of its start.  Its index in            *)
(* process_list, its pid and its descriptors are used again by others.     *)
(* What it writes is a sequence of pieces: a "line" ends with a newline, a *)
(* "part" does not.                                                        *)
(***************************************************************************)
EXTENDS Naturals, Sequences, FiniteSets

CONSTANTS
    MaxStarts,         \* bound: processes
    Pids,              \* process ids of the system
    MaxDescriptor,     \* descriptors the client may have open
    ExecSettings       \* what kinds of run there are, a subset of ExecSetting

Piece == {"line", "part"}

ExecSetting == [starts: 0 .. MaxStarts,      \* bound: processes of this run
                pieces: Nat,                 \* bound: what each of them writes
                kinds: SUBSET Piece,         \* of which kinds
                limits: SUBSET Nat,          \* values of SHELL_LIMIT, 0 for none
                fails: BOOLEAN,              \* fork() may fail
                reuse: BOOLEAN]              \* the pid of a listed process may be used again

ASSUME MaxStartsAssumption == MaxStarts \in Nat
ASSUME PidsAssumption == Pids \subseteq Nat
ASSUME MaxDescriptorAssumption == MaxDescriptor \in Nat
ASSUME ExecSettingsAssumption == ExecSettings \subseteq ExecSetting

VARIABLES
    processList,       \* process_list: the process at each index, 0 for none
    proc,              \* each process's entry
    child,             \* each process as the kernel has it
    open,              \* the pipe end behind each descriptor
    ioRec,             \* io_rec: what was read from each descriptor and not used
    shellLimit,        \* SHELL_LIMIT
    loop,              \* where irc_io() is
    started,           \* processes so far
    execEnv            \* the setting of this run, never changed

execVars == <<processList, proc, child, open, ioRec, shellLimit, loop, started, execEnv>>

Starts == 1 .. MaxStarts
Descriptors == 1 .. MaxDescriptor
Closed == 0                          \* -1 in an entry
Streams == {"out", "err"}
Fds == Streams \cup {"in"}
Other(s) == IF s = "out" THEN "err" ELSE "out"

Ends == Starts \X Fds
NoEnd == <<0, "none">>
LostEnd == <<0, "lost">>             \* open, and forgotten

Process ==
    [pid: Pids \cup {0},
     fd: [Fds -> Descriptors \cup {Closed}],
     counter: Nat,
     exited: BOOLEAN]

NoProcess == [pid |-> 0, fd |-> [f \in Fds |-> Closed], counter |-> 0, exited |-> FALSE]

Child ==
    [life: {"new", "running", "zombie", "gone"},
     writes: SUBSET Streams,         \* the streams that it or a descendant has open
     pipe: [Streams -> Seq(Piece)],
     pieces: Nat,                    \* what it wrote so far
     left: [Streams -> Nat],         \* its lines that no hook has seen
     cut: BOOLEAN]                   \* the client closed its pipes before their end

Indices == 1 .. Len(processList)
Listed == {processList[i] : i \in Indices} \ {0}

-----------------------------------------------------------------------------
(* newio.c *)

\* new_close() of a set of descriptors: the records of what was read go as well.
OpenWithout(fds) == [d \in Descriptors |-> IF d \in fds THEN NoEnd ELSE open[d]]
\* Mutant: close() alone.
IoRecWithoutNot(fds) == ioRec

IoRecWithout(fds) == [d \in Descriptors |-> IF d \in fds THEN <<>> ELSE ioRec[d]]

NewClose(fds) == open' = OpenWithout(fds) /\ ioRec' = IoRecWithout(fds)

HasLine(pieces) == \E i \in DOMAIN pieces : pieces[i][2] = "line"

FirstLine(pieces) ==
    CHOOSE i \in DOMAIN pieces : pieces[i][2] = "line" /\ \A j \in 1 .. i - 1 : pieces[j][2] = "part"

Readable(d) ==
    LET c == open[d][1]
        s == open[d][2]
    IN  open[d] \in Starts \X Streams /\ (child[c].pipe[s] # <<>> \/ s \notin child[c].writes)

\* What dgets() takes from on descriptor d: it reads the pipe once its record has no line.
Available(d) ==
    LET end == open[d]
        pipe == child[end[1]].pipe[end[2]]
    IN  IF HasLine(ioRec[d]) THEN ioRec[d] ELSE ioRec[d] \o [i \in DOMAIN pipe |-> <<end, pipe[i]>>]

\* dgets(): "line", "eof" when the writers are gone, or "prompt" when a second passes without
\* the end of a line.  A part that nothing ended is consumed with both.
Dgets(d) ==
    IF HasLine(Available(d)) THEN "line"
    ELSE IF open[d][2] \in child[open[d][1]].writes THEN "prompt" ELSE "eof"

\* What it leaves in the record
Leftover(d) ==
    LET from == Available(d)
    IN  IF HasLine(from) THEN SubSeq(from, FirstLine(from) + 1, Len(from)) ELSE <<>>

\* The pipe after it
Drained(d) == IF HasLine(ioRec[d]) THEN child[open[d][1]].pipe[open[d][2]] ELSE <<>>

\* new_select(): a descriptor with something left is ready, whatever the kernel says.
NewSelect ==
    LET wanted == UNION {{proc[c].fd[s] : s \in Streams} : c \in Listed} \ {Closed}
    IN  {d \in wanted : Readable(d)} \cup {d \in Descriptors : ioRec[d] # <<>>}

-----------------------------------------------------------------------------
(* exec.c: the list. *)

\* The end of delete_process(): the list shrinks when its last entry goes.
Shrunk(list) ==
    LET used == {i \in DOMAIN list : list[i] # 0}
    IN  SubSeq(list, 1, IF used = {} THEN 0 ELSE CHOOSE i \in used : \A j \in used : j <= i)

NothingLeft == [s \in Streams |-> 0]

\* delete_process(): the WAIT -CMD commands and ON EXEC_EXIT run once the entry is off the list.
\* An entry that stays gets a new value.
DeletedIf(deleted, i, entry) ==
    /\ processList' = IF deleted THEN Shrunk([processList EXCEPT ![i] = 0]) ELSE processList
    /\ proc' = [proc EXCEPT ![processList[i]] = IF deleted THEN NoProcess ELSE entry]

FirstIndex(set) == CHOOSE i \in set : \A j \in set : i <= j

\* add_process(): the first unused index, or one more.
Added(c) ==
    LET unused == {i \in Indices : processList[i] = 0}
    IN  IF unused = {} THEN Append(processList, c)
        ELSE [processList EXCEPT ![FirstIndex(unused)] = c]

-----------------------------------------------------------------------------
(* Commands, which the user types, or which hooks and timers run between the steps of the loop. *)

MayCommand == loop.pc \in {"commands", "timers"} \/ loop.hooked

UserActs == MayCommand /\ UNCHANGED <<loop, execEnv>>

LowestFree(n) ==
    LET free == {d \in Descriptors : open[d] = NoEnd}
    IN  {d \in free : Cardinality({e \in free : e < d}) < n}

Nth(set, n) == CHOOSE d \in set : Cardinality({e \in set : e < d}) = n - 1

FreePids ==
    LET taken == {c \in 1 .. started :
                     child[c].life \in {"running", "zombie"} \/ (c \in Listed /\ ~execEnv.reuse)}
    IN  Pids \ {proc[c].pid : c \in taken}

\* start_process(): three pipes take six descriptors, and the parent keeps p0[1], p1[0], p2[0].
StartProcess ==
    LET c == started + 1
        pipes == LowestFree(6)
        ends == [f \in Fds |-> Nth(pipes, IF f = "in" THEN 2 ELSE IF f = "out" THEN 3 ELSE 5)]
    IN  /\ UserActs
        /\ started < execEnv.starts
        /\ Cardinality(pipes) = 6
        /\ started' = c
        /\ \E pid \in FreePids :
               proc' = [proc EXCEPT ![c] = [pid |-> pid, fd |-> ends, counter |-> 0, exited |-> FALSE]]
        /\ processList' = Added(c)
        /\ child' = [child EXCEPT ![c].life = "running", ![c].writes = Streams]
        /\ open' = [d \in Descriptors |-> IF \E f \in Fds : ends[f] = d
                                          THEN <<c, CHOOSE f \in Fds : ends[f] = d>> ELSE open[d]]
        /\ UNCHANGED <<ioRec, shellLimit>>

\* start_process(): fork() fails and the three pipes stay open.
StartProcessFails ==
    /\ UserActs
    /\ execEnv.fails
    /\ Cardinality(LowestFree(6)) = 6
    /\ open' = [d \in Descriptors |-> IF d \in LowestFree(6) THEN LostEnd ELSE open[d]]
    /\ UNCHANGED <<processList, proc, child, ioRec, shellLimit, started>>

\* is_process_running()
IsProcessRunning(i) == processList[i] # 0 /\ ~proc[processList[i]].exited

FdsOf(c) == {proc[c].fd[f] : f \in Fds} \ {Closed}
AllClosed == [f \in Fds |-> Closed]
EmptyPipes == [s \in Streams |-> <<>>]

\* The client closes what it has of a process.
CutOff(c) ==
    /\ child' = [child EXCEPT ![c].cut = @ \/ \E s \in Streams : proc[c].fd[s] # Closed,
                              ![c].writes = {}, ![c].pipe = EmptyPipes]
    /\ NewClose(FdsOf(c))

\* /EXEC -CLOSE %i
ExecClose(i) ==
    LET c == processList[i]
    IN  /\ UserActs
        /\ IsProcessRunning(i)
        /\ proc' = [proc EXCEPT ![c].fd = AllClosed]
        /\ CutOff(c)
        /\ UNCHANGED <<processList, shellLimit, started>>

SetShellLimit(limit) ==
    /\ UserActs
    /\ shellLimit' = limit
    /\ UNCHANGED <<processList, proc, child, open, ioRec, started>>

-----------------------------------------------------------------------------
(* The main loop: irc_io(). *)

UserWaits == UNCHANGED <<shellLimit, started, execEnv>>

\* Nothing but the place in the loop changes.
Goes(to) ==
    /\ loop' = to
    /\ UNCHANGED <<processList, proc, child, open, ioRec>> /\ UserWaits

\* new_select(), which may also find nothing to read.
Select ==
    /\ loop.pc = "select"
    /\ Goes([loop EXCEPT !.pc = "commands", !.rd = NewSelect])

\* The other parts of the client have read what they had to.
EnterDoProcesses ==
    /\ loop.pc = "commands"
    /\ Goes([loop EXCEPT !.pc = "reading", !.at = 0])

\* do_processes() goes through the indices, standard output before standard error.
Place(i, s) == 2 * i + IF s = "err" THEN 1 ELSE 0

Due == {p \in Indices \X Streams :
           /\ Place(p[1], p[2]) >= loop.at
           /\ processList[p[1]] # 0 /\ proc[processList[p[1]]].fd[p[2]] \in loop.rd}

Earliest == CHOOSE p \in Due : \A q \in Due : Place(p[1], p[2]) <= Place(q[1], q[2])

ReadOn(p, hooked) == loop' = [loop EXCEPT !.at = Place(p[1], p[2]) + 1, !.hooked = hooked]

\* A line: ON EXEC or ON EXEC_ERRORS, then send_exec_result().
ReadLine ==
    /\ loop.pc = "reading" /\ Due # {}
    /\ LET c == processList[Earliest[1]]
           s == Earliest[2]
           d == proc[c].fd[s]
       IN  /\ Dgets(d) = "line"
           /\ ioRec' = [ioRec EXCEPT ![d] = Leftover(d)]
           /\ child' = [child EXCEPT ![c].pipe[s] = Drained(d), ![c].left[s] = @ - 1]
           /\ proc' = [proc EXCEPT ![c].counter = @ + 1]
    /\ ReadOn(Earliest, TRUE)
    /\ UNCHANGED <<processList, open>> /\ UserWaits

\* No end of line for a second: ON EXEC_PROMPT.  For standard error, a hook that is not silent
\* goes on as if it had been a line.
ReadPrompt ==
    /\ loop.pc = "reading" /\ Due # {}
    /\ LET c == processList[Earliest[1]]
           s == Earliest[2]
           d == proc[c].fd[s]
       IN  /\ Dgets(d) = "prompt"
           /\ ioRec' = [ioRec EXCEPT ![d] = Leftover(d)]
           /\ child' = [child EXCEPT ![c].pipe[s] = Drained(d)]
           /\ \E flag \in BOOLEAN :
                  proc' = [proc EXCEPT ![c].counter = IF s = "err" /\ flag THEN @ + 1 ELSE @]
    /\ ReadOn(Earliest, TRUE)
    /\ UNCHANGED <<processList, open>> /\ UserWaits

\* The end of one stream: the second one to end closes standard input too, and removes the
\* process if it is known to have exited.
ClosesAt(c, s) ==
    IF proc[c].fd[Other(s)] = Closed THEN {"in", s} ELSE {s}

ReadEof ==
    /\ loop.pc = "reading" /\ Due # {}
    /\ LET i == Earliest[1]
           c == processList[i]
           s == Earliest[2]
           d == proc[c].fd[s]
           removed == proc[c].fd[Other(s)] = Closed /\ proc[c].exited
       IN  /\ Dgets(d) = "eof"
           /\ NewClose({proc[c].fd[f] : f \in ClosesAt(c, s)})
           /\ child' = [child EXCEPT ![c].pipe[s] = <<>>]
           /\ DeletedIf(removed, i, [proc[c] EXCEPT !.fd = [f \in Fds |-> IF f \in ClosesAt(c, s) THEN Closed ELSE @[f]]])
           /\ ReadOn(Earliest, removed)
    /\ UserWaits

LeaveDoProcesses ==
    /\ loop.pc = "reading" /\ Due = {}
    /\ Goes([loop EXCEPT !.pc = "timers", !.rd = {}, !.at = 0, !.hooked = FALSE])

\* execute_timer() is done; check_process_limits() reads SHELL_LIMIT.
EnterLimits ==
    /\ loop.pc = "timers"
    /\ Goes([loop EXCEPT !.pc = "limits", !.limit = shellLimit])

AtLimit(c) == loop.limit # 0 /\ proc[c].counter >= loop.limit

OverLimit == {i \in Indices : i >= loop.at /\ processList[i] # 0 /\ AtLimit(processList[i])}

\* check_process_limits() at one index
CloseAtLimit ==
    /\ loop.pc = "limits" /\ OverLimit # {}
    /\ LET i == FirstIndex(OverLimit)
           c == processList[i]
       IN  /\ CutOff(c)
           /\ DeletedIf(proc[c].exited, i, [proc[c] EXCEPT !.fd = AllClosed])
           /\ loop' = [loop EXCEPT !.at = i + 1, !.hooked = proc[c].exited]
    /\ UserWaits

LeaveLimits ==
    /\ loop.pc = "limits" /\ OverLimit = {}
    /\ Goes([loop EXCEPT !.pc = "reaping", !.limit = 0, !.at = 0, !.hooked = FALSE])

\* The entry of a pid that was waited for: the first one that has it.
EntryOf(pid) ==
    LET having == {i \in Indices : processList[i] # 0 /\ proc[processList[i]].pid = pid}
    IN  FirstIndex(having)

RemovedByExit(c) == \A s \in Streams : proc[c].fd[s] = Closed

\* check_wait_status(-1) reports one child.
CheckWaitStatus(z) ==
    /\ loop.pc = "reaping"
    /\ child[z].life = "zombie"
    /\ child' = [child EXCEPT ![z].life = "gone"]
    /\ LET i == EntryOf(proc[z].pid)
           c == processList[i]
       IN  /\ DeletedIf(RemovedByExit(c), i, [proc[c] EXCEPT !.exited = TRUE])
           /\ loop' = [loop EXCEPT !.hooked = RemovedByExit(c)]
    /\ UNCHANGED <<open, ioRec>> /\ UserWaits

\* No child has exited: round again.
LoopAgain ==
    /\ loop.pc = "reaping"
    /\ \A c \in Starts : child[c].life # "zombie"
    /\ Goes([loop EXCEPT !.pc = "select", !.hooked = FALSE])

-----------------------------------------------------------------------------
(* The processes.  They act at any time, but the client sees what they write only when it       *)
(* selects and reads, and that they exit only when it waits for them: only there do they act.  *)

ChildActs == UNCHANGED <<processList, proc, open, ioRec, shellLimit, loop, started, execEnv>>

Writes(c, s, piece) ==
    /\ loop.pc \in {"select", "reading"}
    /\ s \in child[c].writes /\ child[c].pieces < execEnv.pieces
    /\ child' = [child EXCEPT ![c].pipe[s] = Append(@, piece), ![c].pieces = @ + 1,
                              ![c].left[s] = IF piece = "line" THEN @ + 1 ELSE @]
    /\ ChildActs

EndsStream(c, s) ==
    /\ loop.pc \in {"select", "reading"}
    /\ s \in child[c].writes
    /\ child' = [child EXCEPT ![c].writes = @ \ {s}]
    /\ ChildActs

Exits(c) ==
    /\ loop.pc = "reaping"
    /\ child[c].life = "running"
    /\ child' = [child EXCEPT ![c].life = "zombie"]
    /\ ChildActs

-----------------------------------------------------------------------------
ExecInit ==
    /\ execEnv \in ExecSettings
    /\ processList = <<>> /\ started = 0
    /\ proc = [c \in Starts |-> NoProcess]
    /\ child = [c \in Starts |-> [life |-> "new", writes |-> {}, pipe |-> EmptyPipes, pieces |-> 0,
                                   left |-> NothingLeft, cut |-> FALSE]]
    /\ open = [d \in Descriptors |-> NoEnd]
    /\ ioRec = [d \in Descriptors |-> <<>>]
    /\ shellLimit \in execEnv.limits
    /\ loop = [pc |-> "commands", at |-> 0, rd |-> {}, limit |-> 0, hooked |-> FALSE]

ExecNext ==
    \/ StartProcess \/ StartProcessFails
    \/ \E i \in Indices : ExecClose(i)
    \/ \E limit \in execEnv.limits : SetShellLimit(limit)
    \/ Select \/ EnterDoProcesses
    \/ ReadLine \/ ReadPrompt \/ ReadEof \/ LeaveDoProcesses
    \/ EnterLimits \/ CloseAtLimit \/ LeaveLimits
    \/ \E c \in Starts : CheckWaitStatus(c)
    \/ LoopAgain
    \/ \E c \in Starts : Exits(c)
    \/ \E c \in Starts, s \in Streams : EndsStream(c, s) \/ \E piece \in execEnv.kinds : Writes(c, s, piece)

ExecSpec == ExecInit /\ [][ExecNext]_execVars

-----------------------------------------------------------------------------
(* Properties. *)

\* Every variable has its type, an entry is on the list once, and the list ends with one.
ExecTypeOK ==
    /\ processList \in Seq(0 .. started) /\ started \in 0 .. MaxStarts
    /\ \A i, j \in Indices : i # j => processList[i] # processList[j] \/ processList[i] = 0
    /\ processList # <<>> => processList[Len(processList)] # 0
    /\ proc \in [Starts -> Process]
    /\ child \in [Starts -> Child]
    /\ open \in [Descriptors -> Ends \cup {NoEnd, LostEnd}]
    /\ ioRec \in [Descriptors -> Seq((Starts \X Streams) \X Piece)]
    /\ shellLimit \in execEnv.limits /\ execEnv \in ExecSetting
    /\ loop \in [pc: {"select", "commands", "reading", "timers", "limits", "reaping"}, at: Nat,
                  rd: SUBSET Descriptors, limit: execEnv.limits \cup {0}, hooked: BOOLEAN]

\* A descriptor of an entry is an end of that process's own pipe, every pipe end that is open
\* belongs to an entry (but those that a failed fork() leaves), and what was read from a
\* descriptor and not used yet came from the pipe behind it now.
OwnPipes ==
    /\ \A c \in Listed, f \in Fds : proc[c].fd[f] # Closed => open[proc[c].fd[f]] = <<c, f>>
    /\ \A d \in Descriptors :
           /\ open[d] \in Ends => open[d][1] \in Listed /\ proc[open[d][1]].fd[open[d][2]] = d
           /\ \A i \in DOMAIN ioRec[d] : ioRec[d][i][1] = open[d]

\* A process is removed, and so its WAIT -CMD commands run, when it has exited and, unless
\* the user or SHELL_LIMIT closed its pipes, after a hook has seen each of its lines.
RemovedInFull ==
    [][\A c \in Listed : c \notin Listed' =>
           /\ child[c]'.life = "gone"
           /\ child[c].cut' \/ \A s \in Streams : child[c].left[s] = 0]_execVars

\* Exits are not lost: an entry is marked exited exactly when its process was waited for, and
\* then it has an open pipe whose end will remove it.  Where a pid is not used again too soon.
ExitsNoticed ==
    \A c \in Listed :
        /\ proc[c].exited => \E s \in Streams : proc[c].fd[s] # Closed
        /\ ~execEnv.reuse => (proc[c].exited <=> child[c].life = "gone")

\* A limit that stays the same stops a process after at most one line more.
LimitKept ==
    \A c \in Listed, limit \in execEnv.limits \ {0} :
        execEnv.limits = {limit} => proc[c].counter <= limit + 1

\* The exit of a process and the ends of its streams, noticed in any order, by functions that do
\* not know of each other: all of what it wrote and nothing else is seen, once (exec.c).
ExecHolds == [](ExecTypeOK /\ OwnPipes /\ ExitsNoticed /\ LimitKept) /\ RemovedInFull

=============================================================================
