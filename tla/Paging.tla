------------------------------- MODULE Paging -------------------------------
(***************************************************************************)
(* What one window does with the lines written to it: hold mode (hold.c),  *)
(* the decision of rite() in output.c, the display, the log of the window  *)
(* (lastlog.c) and scrolling back in it (window.c).                        *)
(*                                                                         *)
(* A line is a number, one row of the screen.  Lines written while the     *)
(* window is held or scrolled back queue up; the main loop shows one of    *)
(* them in each of its rounds once nothing stops it.                       *)
(***************************************************************************)
EXTENDS Naturals, Sequences, FiniteSets

CONSTANTS
    DisplaySize,       \* rows of the window
    HoldModeMaxes,     \* values of HOLD_MODE_MAX, 0 for no limit
    Lastlogs,          \* values that LASTLOG is set to
    PagingSettings,    \* what kinds of run there are, a subset of PagingSetting
    MaxWritten         \* bound: lines

PagingSetting == [careful: BOOLEAN,      \* the user scrolls back only from a window at rest
                  elsewhere: BOOLEAN]    \* LASTLOG is set from another window

ASSUME DisplaySizeAssumption == DisplaySize \in Nat \ {0}
ASSUME HoldModeMaxesAssumption == HoldModeMaxes \subseteq Nat
ASSUME LastlogsAssumption == Lastlogs \subseteq Nat \ {0}
ASSUME PagingSettingsAssumption == PagingSettings \subseteq PagingSetting
ASSUME MaxWrittenAssumption == MaxWritten \in Nat

VARIABLES
    win,               \* the window
    holdModeMax,       \* HOLD_MODE_MAX
    lastlogMax,        \* LASTLOG
    written,           \* lines so far; the last one is the number of the newest
    shownUpTo,         \* the last line that was displayed or flushed
    page,              \* lines displayed since the user did something
    pagingEnv          \* the setting of this run, never changed

pagingVars == <<win, holdModeMax, lastlogMax, written, shownUpTo, page, pagingEnv>>

Line == [id: 1 .. MaxWritten, logged: BOOLEAN]

\* A row of the display.  A row that was cleared has no line, but keeps its linetype.
Row == [id: 0 .. MaxWritten, logged: BOOLEAN]

PagedWindow ==
    [holdMode: BOOLEAN,          \* hold_mode: the user wants pages
     held: BOOLEAN,              \* hold_info->held
     holdOnNextRite: BOOLEAN,    \* hold_on_next_rite
     lineCnt: Nat,               \* line_cnt
     scrolled: Nat,              \* scrolled_lines
     newScrolled: Nat,
     queue: Seq(Line),           \* the hold list, oldest first
     display: [1 .. DisplaySize -> Row],
     cursor: 0 .. DisplaySize,   \* the rows in use
     log: Seq(Line)]             \* the lastlog, newest first

-----------------------------------------------------------------------------
(* hold.c *)

\* hold_output()
HoldOutput(w) == w.held \/ w.scrolled # 0

\* hold_mode(): only ON does anything to a window that is scrolled back.
HoldMode(w, flag) == IF ~flag /\ w.scrolled # 0 THEN w ELSE [w EXCEPT !.held = flag]

\* reset_hold()
ResetHold(w) == IF w.scrolled = 0 THEN [w EXCEPT !.lineCnt = 0] ELSE w

\* add_to_hold_list(): a list that is too long ends the hold.
AddToHoldList(w, line) ==
    LET longer == [w EXCEPT !.queue = Append(@, line)]
    IN  IF holdModeMax # 0 /\ Len(longer.queue) > holdModeMax THEN HoldMode(longer, FALSE)
        ELSE longer

-----------------------------------------------------------------------------
(* output.c *)

\* window_add_display_line() and scroll_window(): the display scrolls by one line if need be.
AddDisplayLine(w, line) ==
    IF w.cursor = DisplaySize
    THEN [w EXCEPT !.display = [i \in 1 .. DisplaySize |-> IF i < DisplaySize THEN @[i + 1] ELSE line]]
    ELSE [w EXCEPT !.display[w.cursor + 1] = line, !.cursor = @ + 1]

\* The end of rite(), for a line that goes to the display
Displayed(w, line) ==
    LET full == w.lineCnt + 1 >= DisplaySize
    IN  [AddDisplayLine(w, line) EXCEPT !.lineCnt = IF full THEN 0 ELSE @ + 1,
                                        !.holdOnNextRite = @ \/ full]

\* A page is full and hold mode is on: the first half of rite().
PageEnds(w) == w.holdMode /\ w.holdOnNextRite

Begun(w) ==
    LET counted == IF w.scrolled # 0 THEN [w EXCEPT !.newScrolled = @ + 1] ELSE w
    IN  IF PageEnds(w) THEN HoldMode([counted EXCEPT !.holdOnNextRite = FALSE], TRUE) ELSE counted

\* Mutant: a line overtakes those that are held while they drain.
MustHoldNot(w) == HoldOutput(w)

\* Whether rite() sends a new line to the hold list
MustHold(w) == HoldOutput(w) \/ w.queue # <<>>

Shown(line) == shownUpTo' = line.id /\ page' = page + 1

\* rite() for a new line, show = 0
RiteNew(w, line) ==
    LET begun == Begun(w)
    IN  IF MustHold(begun)
        THEN win' = AddToHoldList(begun, line) /\ UNCHANGED <<shownUpTo, page>>
        ELSE win' = Displayed(begun, line) /\ Shown(line)

-----------------------------------------------------------------------------
(* The log, lastlog.c. *)

\* add_to_lastlog(): exactly at the limit the oldest line goes.
AddToLastlog(log, line) ==
    IF Len(log) = lastlogMax THEN <<line>> \o SubSeq(log, 1, Len(log) - 1) ELSE <<line>> \o log

\* add_to_window()
AddToWindow(logged) ==
    LET line == [id |-> written + 1, logged |-> logged]
    IN  /\ written < MaxWritten /\ (pagingEnv.careful => logged)
        /\ written' = written + 1
        /\ RiteNew([win EXCEPT !.log = IF logged THEN AddToLastlog(@, line) ELSE @], line)
        /\ UNCHANGED <<holdModeMax, lastlogMax, pagingEnv>>

\* unhold_windows(): rite() with show = 1 for the oldest line
UnholdWindows ==
    /\ ~HoldOutput(win) /\ win.queue # <<>>
    /\ IF PageEnds(win)
       THEN win' = Begun(win) /\ UNCHANGED <<shownUpTo, page>>
       ELSE /\ win' = [Displayed(Begun(win), Head(win.queue)) EXCEPT !.queue = Tail(@)]
            /\ Shown(Head(win.queue))
    /\ UNCHANGED <<holdModeMax, lastlogMax, written, pagingEnv>>

-----------------------------------------------------------------------------
(* The user. *)

Acts(w) ==
    /\ win' = w /\ page' = 0
    /\ UNCHANGED <<holdModeMax, written, pagingEnv>>

Keeps == UNCHANGED <<lastlogMax, shownUpTo>>

\* send_line(), before the line is looked at
SendLine == Acts(HoldMode(ResetHold(win), FALSE)) /\ Keeps

\* toggle_stop_screen()
ToggleStopScreen ==
    /\ Acts(IF win.scrolled # 0 THEN win ELSE [win EXCEPT !.held = ~@])
    /\ Keeps

\* unstop_all_windows()
UnstopAllWindows == Acts(HoldMode(win, FALSE)) /\ Keeps

\* Mutant: the next line is written where the display ended before.
EraseDisplayNot(w) ==
    [w EXCEPT !.display = [i \in 1 .. DisplaySize |-> [@[i] EXCEPT !.id = 0]], !.lineCnt = 0,
              !.holdOnNextRite = FALSE]

\* erase_display(): the lines go, the types of the rows stay.
EraseDisplay(w) ==
    [w EXCEPT !.display = [i \in 1 .. DisplaySize |-> [@[i] EXCEPT !.id = 0]], !.cursor = 0,
              !.lineCnt = 0, !.holdOnNextRite = FALSE]

\* my_clear()
Clear(unhold) ==
    /\ Acts(EraseDisplay(IF unhold THEN HoldMode(win, FALSE) ELSE win))
    /\ Keeps

\* reset_line_cnt(), for /SET HOLD_MODE
SetHoldMode(value) ==
    Acts([win EXCEPT !.holdMode = value, !.holdOnNextRite = FALSE, !.lineCnt = 0]) /\ Keeps

\* /WINDOW HOLD_MODE, which resets nothing
WindowHoldMode(value) == Acts([win EXCEPT !.holdMode = value]) /\ Keeps

\* flush() while HOLD_MODE is on; otherwise it leaves the hold list alone.
FlushHeld ==
    /\ ~pagingEnv.careful
    /\ Acts(HoldMode([win EXCEPT !.queue = <<>>], FALSE))
    /\ shownUpTo' = written /\ UNCHANGED lastlogMax

\* set_lastlog_size(): only the log of the current window is cut.
SetLastlogSize(size) ==
    /\ ~pagingEnv.careful
    /\ lastlogMax' = size /\ UNCHANGED shownUpTo
    /\ Acts(IF pagingEnv.elsewhere \/ Len(win.log) <= size THEN win
            ELSE [win EXCEPT !.log = SubSeq(@, 1, size)])

\* The newest lines of the log that scrolling back passes over: as many as have been
\* written since, and as many as there are rows with the type of a logged line
Skipped == win.newScrolled + Cardinality({i \in 1 .. DisplaySize : win.display[i].logged})

\* lastlog_lines(): the rest of the log, and the lines written since are counted as well
LastlogLines == win.newScrolled + IF Len(win.log) > Skipped THEN Len(win.log) - Skipped ELSE 0

\* scrollback_backwards_lines(): too far is as far as there are lines, even if that is
\* nearer than where the window is.
BackBy(distance) ==
    [win EXCEPT !.scrolled = IF distance + @ > LastlogLines THEN LastlogLines ELSE distance + @]

\* At the end of the log the window pages again, or does not.
Paged(w) == HoldMode(w, w.holdMode)

\* scrollback_forwards_lines()
ForwardBy(distance) ==
    IF win.scrolled <= distance THEN Paged([win EXCEPT !.scrolled = 0, !.newScrolled = 0])
    ELSE [win EXCEPT !.scrolled = @ - distance]

\* scrollback_backwards() and scrollback_forwards(), by half of the window
ScrollBackwards ==
    /\ pagingEnv.careful => (win.scrolled = 0 => win.queue = <<>>)
    /\ Acts(BackBy(DisplaySize \div 2)) /\ Keeps

ScrollForwards == win.scrolled # 0 /\ Acts(ForwardBy(DisplaySize \div 2)) /\ Keeps

\* Mutant: the lines written meanwhile stay counted as new.
ScrolledToEndNot(w) == Paged([w EXCEPT !.scrolled = 0])

ScrolledToEnd(w) == Paged([w EXCEPT !.scrolled = 0, !.newScrolled = 0])

\* scrollback_end(), in one step or by ScrollForwards
ScrollEnd == Acts(IF win.scrolled = 0 THEN [win EXCEPT !.newScrolled = 0] ELSE ScrolledToEnd(win)) /\ Keeps

\* scrollback_start(): the lines written meanwhile are no longer counted as new.
ScrollStart ==
    /\ win.log # <<>>
    /\ pagingEnv.careful => win.newScrolled = 0 /\ (win.scrolled = 0 => win.queue = <<>>)
    /\ Acts(IF LastlogLines < DisplaySize THEN BackBy(LastlogLines)
            ELSE Paged([win EXCEPT !.scrolled = LastlogLines, !.newScrolled = 0]))
    /\ Keeps

-----------------------------------------------------------------------------
PagingInit ==
    /\ pagingEnv \in PagingSettings
    /\ win \in [holdMode: BOOLEAN, held: {FALSE}, holdOnNextRite: {FALSE}, lineCnt: {0},
                scrolled: {0}, newScrolled: {0}, queue: {<<>>}, log: {<<>>}, cursor: {0},
                display: [1 .. DisplaySize -> {[id |-> 0, logged |-> FALSE]}]]
    /\ holdModeMax \in HoldModeMaxes
    /\ lastlogMax \in IF pagingEnv.careful THEN {MaxWritten + 1} ELSE Lastlogs
    /\ written = 0 /\ shownUpTo = 0 /\ page = 0

PagingNext ==
    \/ \E logged \in BOOLEAN : AddToWindow(logged)
    \/ UnholdWindows
    \/ SendLine \/ ToggleStopScreen \/ UnstopAllWindows
    \/ \E b \in BOOLEAN : Clear(b) \/ SetHoldMode(b) \/ WindowHoldMode(b)
    \/ FlushHeld \/ \E size \in Lastlogs : SetLastlogSize(size)
    \/ ScrollBackwards \/ ScrollForwards \/ ScrollEnd \/ ScrollStart

PagingSpec == PagingInit /\ [][PagingNext]_pagingVars

-----------------------------------------------------------------------------
(* Properties. *)

\* Every variable has its type, and the rows in use are those that hold a line.
PagingTypeOK ==
    /\ win \in PagedWindow
    /\ \A i \in 1 .. DisplaySize : win.display[i].id # 0 <=> i <= win.cursor
    /\ holdModeMax \in HoldModeMaxes /\ lastlogMax \in Nat \ {0}
    /\ written \in 0 .. MaxWritten /\ shownUpTo \in 0 .. written /\ page \in Nat
    /\ pagingEnv \in PagingSetting

\* Lines are displayed in the order they were written, and none is lost: what has not been
\* displayed (or flushed) is in the hold list, oldest first.
InOrder ==
    /\ Len(win.queue) = written - shownUpTo
    /\ \A i \in DOMAIN win.queue : win.queue[i].id = shownUpTo + i
    /\ \A i, j \in 1 .. win.cursor : i < j => win.display[i].id < win.display[j].id

\* In hold mode, no more lines than the window has are displayed before the user has done
\* something: nothing scrolls off unseen.  A limit on held lines is meant to break this.
PageAtMost == win.holdMode /\ holdModeMax = 0 => page <= DisplaySize

\* The log of the window is no longer than LASTLOG, if LASTLOG is set in this window.
LogBounded == ~pagingEnv.elsewhere => Len(win.log) <= lastlogMax

\* What is written to a window in hold mode is seen, in order, and is logged as long as LASTLOG
\* says (output.c, lastlog.c); the rows with a line on them are the first ones.
DisplayHolds == PagingTypeOK /\ InOrder /\ PageAtMost /\ LogBounded

\* Scrolling back shows what is not on the display: the lines of the log that it passes over
\* are those on the display and those that wait in the hold list, and after /CLEAR some of
\* those that were cleared.  For a user who begins with an empty hold list, logs every line
\* and drops none.
SkippedAreSeen ==
    LET passed == {win.log[i] : i \in 1 .. Skipped}
        seen == {win.display[i] : i \in 1 .. win.cursor} \cup {win.queue[i] : i \in DOMAIN win.queue}
        stale == \E i \in 1 .. DisplaySize : i > win.cursor /\ win.display[i].logged
    IN  pagingEnv.careful =>
            IF win.scrolled = 0 THEN win.newScrolled = 0
            ELSE seen \subseteq passed /\ (stale \/ passed = seen)

=============================================================================
