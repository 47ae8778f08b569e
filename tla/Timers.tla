-------------------------------- MODULE Timers --------------------------------
(***************************************************************************)
(* Commands put off with /TIMER: the list of pending timers of edit.c, and *)
(* the part of the main loop of irc.c that decides how long to sleep and   *)
(* then runs what is due.                                                  *)
(*                                                                         *)
(* Time is counted in ticks, PerSecond of them a second: the seconds and   *)
(* microseconds of the code are Sec and Part of a time.                    *)
(***************************************************************************)
EXTENDS Naturals, Sequences

CONSTANTS
    PerSecond,         \* ticks in a second
    ClockSeconds,      \* seconds the loop sleeps at most when no timer is pending
    MaxNow,            \* bound: no timer is set for later
    MaxTimers,         \* bound: timers
    Waits              \* what /TIMER is asked to wait

ASSUME TimersAssumption ==
    /\ PerSecond \in Nat \ {0} /\ ClockSeconds \in Nat \ {0}
    /\ MaxNow \in Nat /\ MaxTimers \in Nat /\ Waits \subseteq Nat

VARIABLES
    now,               \* gettimeofday()
    pendingTimers,     \* PendingTimers: [id, time, ref], in order
    currentExecTimer,  \* current_exec_timer: the ref of the timer that runs
    looked,            \* the time execute_timer() goes by, 0 outside it
    timerLoop,         \* where irc_io() is
    deadline,          \* when select() gives up, 0 outside it
    nextTimer,         \* the id of the next timer
    lastTimer          \* what happened last to a timer: [what, id]

timersVars ==
    <<now, pendingTimers, currentExecTimer, looked, timerLoop, deadline, nextTimer, lastTimer>>

NoTimer == 0                         \* -1 in the code: references count from 1 here
Refs == 1 .. MaxTimers
LoopPlace == {"top", "select", "ready", "timers", "running", "gone"}
LastWhat == {"nothing", "armed", "taken", "fired"}
MaxTick == MaxNow + (ClockSeconds + 1) * PerSecond

TimersTypeOK ==
    /\ now \in Nat
    /\ pendingTimers \in Seq([id: Nat, time: Nat, ref: Refs])
    /\ currentExecTimer \in Refs \cup {NoTimer}
    /\ looked \in Nat
    /\ timerLoop \in LoopPlace
    /\ deadline \in Nat
    /\ nextTimer \in Nat \ {0}
    /\ lastTimer \in [what: LastWhat, id: Nat]

TimersInit ==
    /\ now = 0 /\ looked = 0 /\ deadline = 0
    /\ pendingTimers = <<>> /\ currentExecTimer = NoTimer
    /\ timerLoop = "top"
    /\ nextTimer = 1 /\ lastTimer = [what |-> "nothing", id |-> 0]

----------------------------------------------------------------------------
(* The list.                                                               *)

\* Where a timer for time t goes: before the first that is later.
Slot(t) ==
    CHOOSE i \in 1 .. Len(pendingTimers) + 1 :
        /\ i <= Len(pendingTimers) => pendingTimers[i].time > t
        /\ \A j \in 1 .. i - 1 : pendingTimers[j].time <= t

InsertedAt(i, timer) ==
    [j \in 1 .. Len(pendingTimers) + 1 |->
        IF j < i THEN pendingTimers[j] ELSE IF j = i THEN timer ELSE pendingTimers[j - 1]]

RemovedFrom(i) ==
    [j \in 1 .. Len(pendingTimers) - 1 |->
        IF j < i THEN pendingTimers[j] ELSE pendingTimers[j + 1]]

RefsInUse == {pendingTimers[i].ref : i \in 1 .. Len(pendingTimers)}

\* create_timer_ref(): the one that is wanted, if free, or the lowest that is free.
TimerRef(ref, want) ==
    /\ ref \in Refs \ RefsInUse
    /\ IF want = NoTimer THEN \A r \in Refs \ RefsInUse : ref <= r ELSE ref = want

\* /TIMER [-REFNUM want] wait command: typed, of a script, or of a timer that runs.
TimerCmd ==
    /\ timerLoop \in {"ready", "running"} /\ nextTimer <= MaxTimers
    /\ \E wait \in Waits, want \in Refs \cup {NoTimer} : \E ref \in Refs :
          /\ now + wait <= MaxNow
          /\ TimerRef(ref, want)
          /\ pendingTimers' = InsertedAt(Slot(now + wait),
                                         [id |-> nextTimer, time |-> now + wait, ref |-> ref])
    /\ lastTimer' = [what |-> "armed", id |-> nextTimer]
    /\ nextTimer' = nextTimer + 1
    /\ UNCHANGED <<now, currentExecTimer, looked, timerLoop, deadline>>

\* Mutant: a timer that runs may delete timers, itself too.
TimerDeleteAlways ==
    /\ timerLoop \in {"ready", "running"}
    /\ \E i \in 1 .. Len(pendingTimers) :
          /\ pendingTimers' = RemovedFrom(i)
          /\ lastTimer' = [what |-> "taken", id |-> pendingTimers[i].id]
    /\ UNCHANGED <<now, currentExecTimer, looked, timerLoop, deadline, nextTimer>>

\* /TIMER -DELETE ref: nothing a timer may do while it runs.
TimerDelete ==
    /\ timerLoop \in {"ready", "running"} /\ currentExecTimer = NoTimer
    /\ \E i \in 1 .. Len(pendingTimers) :
          /\ pendingTimers' = RemovedFrom(i)
          /\ lastTimer' = [what |-> "taken", id |-> pendingTimers[i].id]
    /\ UNCHANGED <<now, currentExecTimer, looked, timerLoop, deadline, nextTimer>>

----------------------------------------------------------------------------
(* The main loop.                                                          *)

Sec(t) == t \div PerSecond
Part(t) == t % PerSecond

\* Mutant: nothing is borrowed from the seconds.
TimerTimeoutUnborrowed ==
    LET first == pendingTimers[1].time IN
    IF pendingTimers = <<>> THEN [sec |-> ClockSeconds + 1, part |-> 0]
    ELSE IF first < now THEN [sec |-> 0, part |-> 0]
    ELSE [sec |-> Sec(first) - Sec(now),
          part |-> IF Part(first) >= Part(now) THEN Part(first) - Part(now) ELSE Part(now) - Part(first)]

\* timer_timeout(): how long until the first timer, [sec, part].
TimerTimeout ==
    LET first == pendingTimers[1].time IN
    IF pendingTimers = <<>> THEN [sec |-> ClockSeconds + 1, part |-> 0]
    ELSE IF first < now THEN [sec |-> 0, part |-> 0]
    ELSE IF Part(first) >= Part(now)
         THEN [sec |-> Sec(first) - Sec(now), part |-> Part(first) - Part(now)]
         ELSE [sec |-> Sec(first) - Sec(now) - 1, part |-> Part(now) - Part(first)]

\* Shown when the cursor is in the display, when a held window has more to show.
Sleeps(most, heldOver) ==
    IF heldOver THEN 0
    ELSE IF TimerTimeout.sec <= most THEN TimerTimeout.sec * PerSecond + TimerTimeout.part
    ELSE most * PerSecond

Select ==
    /\ timerLoop = "top"
    /\ \E most \in {1, ClockSeconds}, heldOver \in BOOLEAN : deadline' = now + Sleeps(most, heldOver)
    /\ timerLoop' = "select"
    /\ UNCHANGED <<now, pendingTimers, currentExecTimer, looked, nextTimer, lastTimer>>

\* Nothing came, or a signal did.
SelectEnds(interrupted) ==
    /\ timerLoop = "select" /\ (interrupted \/ now >= deadline)
    /\ timerLoop' = "timers" /\ looked' = now /\ deadline' = 0
    /\ UNCHANGED <<now, pendingTimers, currentExecTimer, nextTimer, lastTimer>>

\* Servers, screens, processes or DCC have something, and commands are run for them.
SelectReady ==
    /\ timerLoop = "select" /\ timerLoop' = "ready" /\ deadline' = 0
    /\ UNCHANGED <<now, pendingTimers, currentExecTimer, looked, nextTimer, lastTimer>>

Served ==
    /\ timerLoop = "ready" /\ timerLoop' = "timers" /\ looked' = now
    /\ UNCHANGED <<now, pendingTimers, currentExecTimer, deadline, nextTimer, lastTimer>>

\* Mutant: the parts are compared whatever the seconds are.
FirstIsDueByPart ==
    /\ pendingTimers # <<>>
    /\ Sec(pendingTimers[1].time) = Sec(looked) /\ Part(pendingTimers[1].time) <= Part(looked)

FirstIsDue ==
    /\ pendingTimers # <<>>
    /\ \/ Sec(pendingTimers[1].time) < Sec(looked)
       \/ Sec(pendingTimers[1].time) = Sec(looked) /\ Part(pendingTimers[1].time) <= Part(looked)

\* execute_timer(): the first timer, while it is due, is run and only then freed.
TimerRuns ==
    /\ timerLoop = "timers" /\ FirstIsDue
    /\ timerLoop' = "running" /\ currentExecTimer' = pendingTimers[1].ref
    /\ lastTimer' = [what |-> "fired", id |-> pendingTimers[1].id]
    /\ UNCHANGED <<now, pendingTimers, looked, deadline, nextTimer>>

TimerRan ==
    /\ timerLoop = "running" /\ timerLoop' = "timers"
    /\ currentExecTimer' = NoTimer
    /\ pendingTimers' = RemovedFrom(1)
    /\ UNCHANGED <<now, looked, deadline, nextTimer, lastTimer>>

TimersDone ==
    /\ timerLoop = "timers" /\ ~FirstIsDue
    /\ timerLoop' = "top" /\ looked' = 0
    /\ UNCHANGED <<now, pendingTimers, currentExecTimer, deadline, nextTimer, lastTimer>>

\* /EXIT: what is put off is never run.
Quits ==
    /\ timerLoop \in {"ready", "running"} /\ timerLoop' = "gone"
    /\ UNCHANGED <<now, pendingTimers, currentExecTimer, looked, deadline, nextTimer, lastTimer>>

\* Time passes while the client sleeps, and while a command runs (/SLEEP).
Tick ==
    /\ timerLoop \in {"select", "running"} /\ now < MaxTick
    /\ now' = now + 1
    /\ UNCHANGED <<pendingTimers, currentExecTimer, looked, timerLoop, deadline, nextTimer, lastTimer>>

LoopStep == Select \/ SelectEnds(FALSE) \/ Served \/ TimerRuns \/ TimerRan \/ TimersDone

TimersNext ==
    \/ LoopStep
    \/ SelectEnds(TRUE) \/ SelectReady
    \/ TimerCmd \/ TimerDelete \/ Quits
    \/ Tick

TimersSpec == TimersInit /\ [][TimersNext]_timersVars

\* The loop goes on, and time passes, however often something wakes it.
TimersFairness ==
    /\ WF_timersVars(LoopStep)
    /\ SF_timersVars(timerLoop = "select" /\ Tick)

----------------------------------------------------------------------------
(* What is promised.                                                       *)

\* What is put off and does not run yet.
Armed ==
    {[id |-> pendingTimers[i].id, due |-> pendingTimers[i].time] :
        i \in {j \in 1 .. Len(pendingTimers) : pendingTimers[j].ref # currentExecTimer}}

Promise == INSTANCE Alarms WITH
    clock <- now, armed <- Armed, fresh <- nextTimer, last <- lastTimer

\* Every timer runs once, not before its time, the earliest first, unless it is
\* deleted: also when the command of one sets others (edit.c, execute_timer()).
TimersKeepPromise == Promise!AlarmsSpec

\* select() is told to give up less than a second after the first timer is due,
\* when it is not due yet: timer_timeout() borrows from the seconds.
SleepsLessThanASecondLate ==
    [][timerLoop = "top" /\ timerLoop' = "select" /\ pendingTimers # <<>>
         => deadline' < pendingTimers[1].time + PerSecond \/ deadline' = now]_timersVars

\* "all will activate at the appropriate time" (help/timer:15): a client with nothing
\* else to do wakes when the first timer is due.
SleepsUntilTheTimer ==
    [][timerLoop = "top" /\ timerLoop' = "select" /\ pendingTimers # <<>>
         => deadline' <= pendingTimers[1].time \/ deadline' = now]_timersVars

\* A timer does not wait for ever: it runs or is deleted, or the client ends.
TimersEnd ==
    \A n \in 1 .. MaxTimers :
        (\E a \in Armed : a.id = n) ~> (~(\E a \in Armed : a.id = n) \/ timerLoop = "gone")

=============================================================================
