------------------------------- MODULE Windows -------------------------------
(***************************************************************************)
(* The windows of one screen (window.c): how they divide its rows, which   *)
(* are shown and which hidden, and which is the current one, under the     *)
(* /WINDOW command and the keys that change windows.                       *)
(*                                                                         *)
(* Rows are numbered from 0.  A window of "size" lines has its first in    *)
(* row "top" and its status line in row "bottom" = top + size; with        *)
(* "double" = 1 a second status line follows, with -1 there is none.  The  *)
(* last row of the terminal is the input line.                             *)
(*                                                                         *)
(* A pane is a struct window_stru.  SWAP exchanges the contents of two, so *)
(* that what the user calls a window may move from one to another: "id" is *)
(* the window, for the properties.                                         *)
(***************************************************************************)
EXTENDS Integers, SequencesExt, FiniteSetsExt

CONSTANTS
    Panes,             \* bound: structures in memory
    MaxStack,          \* bound: entries of the window stack
    WindowSettings     \* what kinds of run there are

WindowSetting == [heights: SUBSET Nat,        \* lines of the terminal
                  grows: SUBSET Int,          \* arguments of GROW, negative for SHRINK
                  moves: SUBSET Int,          \* arguments of MOVE
                  doubles: SUBSET (-1 .. 1),  \* 1 for DOUBLE ON, 0 for OFF, -1 for NOSTATUS
                  numbers: SUBSET Nat,        \* arguments of NUMBER
                  stacks: BOOLEAN,            \* PUSH, POP and STACK
                  biggest: BOOLEAN,           \* ALWAYS_SPLIT_BIGGEST
                  panes: Nat,                 \* bound: windows there may be
                  careful: BOOLEAN]           \* nobody shows a window for which there is no room

ASSUME PanesAssumption == Panes \in Nat \ {0}
ASSUME MaxStackAssumption == MaxStack \in Nat
ASSUME WindowSettingsAssumption ==
    WindowSettings \subseteq WindowSetting /\ \A e \in WindowSettings : e.panes \in 1 .. Panes

VARIABLES
    screen,            \* the screen, its windows and invisible_list
    local,             \* window of the windowcmd() that runs, 0 for none
    windowEnv          \* the setting of this run, never changed

windowVars == <<screen, local, windowEnv>>

Slots == 1 .. Panes

Pane == [id: Nat, refnum: Nat, top: Int, bottom: Int, size: Int, double: -1 .. 1]

NoPane == [id |-> 0, refnum |-> 0, top |-> 0, bottom |-> 0, size |-> 0, double |-> 0]

Screen ==
    [shown: Seq(Slots),          \* window_list
     hidden: Seq(Slots),         \* invisible_list
     pane: [Slots -> Pane],
     curr: Slots,                \* current_window
     last: Nat,                  \* last_window_refnum
     visible: Nat,               \* visible_windows
     stack: Seq(Nat),            \* window_stack
     li: Nat,                    \* get_li()
     cramped: BOOLEAN]           \* the last balance found too few rows

\* The operators take a screen to the one that a function leaves.
IsShown(w, p) == p \in Range(w.shown)
IsHidden(w, p) == p \in Range(w.hidden)
Existing(w) == Range(w.shown) \cup Range(w.hidden)

PlaceOf(w, p) == CHOOSE i \in DOMAIN w.shown : w.shown[i] = p
NextOf(w, p) == IF PlaceOf(w, p) < Len(w.shown) THEN w.shown[PlaceOf(w, p) + 1] ELSE 0
PrevOf(w, p) == IF PlaceOf(w, p) > 1 THEN w.shown[PlaceOf(w, p) - 1] ELSE 0

\* get_window_by_refnum(): shown windows come first; 0 when there is none.
ByRefnum(w, n) ==
    LET all == w.shown \o w.hidden
    IN  IF \E i \in DOMAIN all : w.pane[all[i]].refnum = n
        THEN all[CHOOSE i \in DOMAIN all :
                    w.pane[all[i]].refnum = n /\ \A j \in 1 .. i - 1 : w.pane[all[j]].refnum # n]
        ELSE 0

\* Mutant: without a window to go back to, the one after the current one, which may be the last.
SetCurrentOrNext(w, p, next) ==
    [w EXCEPT !.last = w.pane[w.curr].refnum,
              !.curr = IF IsShown(w, p) THEN p
                       ELSE IF IsShown(w, ByRefnum(w, w.last)) THEN ByRefnum(w, w.last) ELSE next]

\* set_current_window(), p = 0 for NULL; next is the window after the current one.
SetCurrentFrom(w, p, next) ==
    LET named == ByRefnum(w, w.last)
    IN  [w EXCEPT !.last = w.pane[w.curr].refnum,
                  !.curr = IF IsShown(w, p) THEN p
                           ELSE IF IsShown(w, named) THEN named
                           ELSE IF next # 0 THEN next ELSE Head(w.shown)]

SetCurrent(w, p) == SetCurrentFrom(w, p, NextOf(w, w.curr))

-----------------------------------------------------------------------------
(* Space *)

\* The rows of window i of the screen, which the functions set from its new size and top.
Laid(w, size, top) ==
    [w EXCEPT !.pane = [p \in Slots |->
        IF IsShown(w, p)
        THEN LET i == PlaceOf(w, p)
             IN  [@[p] EXCEPT !.top = top[i], !.bottom = top[i] + size[i], !.size = size[i]]
        ELSE @[p]]]

\* The top of each window when they follow each other without a gap
Tops(w, size) ==
    LET top[i \in DOMAIN w.shown] ==
            IF i = 1 THEN 0 ELSE top[i - 1] + size[i - 1] + 1 + w.pane[w.shown[i - 1]].double
    IN  top

\* recalculate_window_positions()
Positioned(w) ==
    LET size == [i \in DOMAIN w.shown |-> w.pane[w.shown[i]].size]
    IN  Laid(w, size, Tops(w, size))

\* balance_windows(): every window gets as many rows, status included, and the first ones one
\* more.  A window for which nothing is left is said to have one line.
Balanced(w) ==
    LET n == Len(w.shown)
        rows == w.li - 1
        base == rows \div n
        size == [i \in 1 .. n |-> base - 1 + (IF i <= rows % n THEN 1 ELSE 0) - w.pane[w.shown[i]].double]
        laid == Laid(w, size, Tops(w, size))
    IN  [laid EXCEPT !.cramped = \E i \in 1 .. n : size[i] <= 0,
                     !.pane = [p \in Slots |-> IF IsShown(w, p) /\ @[p].size <= 0
                                               THEN [@[p] EXCEPT !.size = 1] ELSE @[p]]]

Sizes(w) == {w.pane[p].size : p \in Range(w.shown)}

\* The window that add_to_window_list() splits: the current one, or the first of the largest.
Splits(w) ==
    IF w.pane[w.curr].size < 4 \/ windowEnv.biggest
    THEN w.shown[CHOOSE i \in DOMAIN w.shown :
                    /\ w.pane[w.shown[i]].size = Max(Sizes(w))
                    /\ \A j \in 1 .. i - 1 : w.pane[w.shown[j]].size # Max(Sizes(w))]
    ELSE w.curr

HasRoom(w) == w.pane[Splits(w)].size >= 4

\* add_to_window_list(): p, on no list, gets the upper half.
AddedShown(w, p) ==
    LET old == Splits(w)
        was == w.pane[old]
        bottom == (was.top + was.bottom) \div 2 - w.pane[p].double
        top == bottom + w.pane[p].double + 1
    IN  [w EXCEPT !.visible = @ + 1,
                  !.shown = InsertAt(@, PlaceOf(w, old), p),
                  !.pane[p].top = was.top, !.pane[p].bottom = bottom, !.pane[p].size = bottom - was.top,
                  !.pane[old].top = top, !.pane[old].size = was.bottom - top]

\* remove_from_window_list(): the next window gets its rows, or the one before the last.
RemovedShown(w, p) ==
    LET gone == w.pane[p]
        next == NextOf(w, p)
        prev == PrevOf(w, p)
        pane == IF next # 0
                THEN [w.pane EXCEPT ![next].top = gone.top, ![next].size = w.pane[next].bottom - gone.top]
                ELSE [w.pane EXCEPT
                        ![prev].bottom = gone.bottom + gone.double - w.pane[prev].double,
                        ![prev].size = gone.bottom + gone.double - w.pane[prev].double - w.pane[prev].top]
        less == [w EXCEPT !.shown = Remove(@, p), !.visible = @ - 1, !.pane = pane]
        chosen == IF p = w.curr THEN SetCurrentFrom(less, 0, next) ELSE less
    IN  IF gone.refnum = chosen.last THEN [chosen EXCEPT !.last = chosen.pane[chosen.curr].refnum] ELSE chosen

\* swap_window(): the contents of v and h change places, while the places stay; what is hidden
\* now keeps that of the other, which nobody looks at.
Swapped(w, v, h) ==
    LET out == w.pane[v]
        in == w.pane[h]
    IN  IF IsHidden(w, h) /\ IsShown(w, v)
        THEN [w EXCEPT !.last = out.refnum,
                       !.hidden = <<h>> \o Remove(@, h),
                       !.pane[v] = [in EXCEPT !.top = out.top,
                                              !.bottom = out.bottom + out.double - in.double,
                                              !.size = out.size + out.double - in.double],
                       !.pane[h] = [out EXCEPT !.top = in.top, !.bottom = in.bottom - out.double,
                                               !.size = in.size]]
        ELSE w

\* hide_window()
Hidden(w, p) ==
    IF w.visible # 1 /\ IsShown(w, p)
    THEN SetCurrent([RemovedShown(w, p) EXCEPT !.hidden = <<p>> \o @, !.pane[p].size = w.li - 2], 0)
    ELSE w

Freed(w, p) == [w EXCEPT !.pane[p] = NoPane]

\* show_window().  Without room add_to_window_list() frees the window, which then goes back to
\* the hidden ones.
Revealed(w, p) ==
    IF IsShown(w, p) THEN SetCurrent(w, p)
    ELSE LET taken == [w EXCEPT !.hidden = Remove(@, p)]
         IN  IF HasRoom(w) THEN SetCurrent(AddedShown(taken, p), p)
             ELSE Freed([taken EXCEPT !.hidden = <<p>> \o @], p)

\* The user who is careful
MayReveal(w, p) == windowEnv.careful /\ IsHidden(w, p) => HasRoom(w)

\* Mutant: the last window shown is killed although the swap has moved it to another structure.
DeletedInPlace(w, p) ==
    IF IsShown(w, p) /\ w.visible = 1
    THEN IF w.hidden = <<>> THEN w ELSE Freed(Swapped(w, p, Head(w.hidden)), p)
    ELSE IF IsShown(w, p) THEN Freed(RemovedShown(w, p), p)
         ELSE Freed([w EXCEPT !.hidden = Remove(@, p)], p)

\* delete_window(): the last window shown changes places with a hidden one first.
Deleted(w, p) ==
    IF IsShown(w, p) /\ w.visible = 1
    THEN IF w.hidden = <<>> THEN w
         ELSE LET h == Head(w.hidden)
              IN  Freed([Swapped(w, p, h) EXCEPT !.hidden = Tail(@)], h)
    ELSE IF IsShown(w, p) THEN Freed(RemovedShown(w, p), p)
         ELSE Freed([w EXCEPT !.hidden = Remove(@, p)], p)

-----------------------------------------------------------------------------
(* /WINDOW.  Its arguments are commands of their own; those that do not say which window they     *)
(* mean are about "window", the one that was current when the command began or the last one named *)
(* since.                                                                                         *)

Window == IF local = 0 THEN screen.curr ELSE local

\* A window that KILL freed, or NEW for want of room, is not named again: what the code does with
\* it then is anything.
Usable == Window \in Existing(screen)

\* One argument: the screen it leaves, and what "window" is for the next one.
Leaves(w, window) == screen' = w /\ local' = window /\ UNCHANGED windowEnv

\* create_refnum()
FreeRefnum(w) == Min(1 .. Panes + 1 \ {w.pane[p].refnum : p \in Existing(w)})
FreeId(w) == Min(1 .. Panes \ {w.pane[p].id : p \in Existing(w)})
Unused(w) == Slots \ Existing(w)

\* NEW: new_window()
WindowNew ==
    /\ Cardinality(Existing(screen)) < windowEnv.panes
    /\ LET p == Min(Unused(screen))
           made == [NoPane EXCEPT !.id = FreeId(screen), !.refnum = FreeRefnum(screen), !.size = 1]
       IN  Leaves(IF HasRoom(screen) THEN SetCurrent(AddedShown([screen EXCEPT !.pane[p] = made], p), p)
                  ELSE screen, p)

\* REFNUM: to no hidden window, nor from one, whose screen is none.  The command ends when there
\* is no such window.
WindowRefnum(p) ==
    /\ Usable
    /\ IF p \notin Existing(screen) THEN Leaves(screen, 0)
       ELSE IF IsShown(screen, p) /\ IsShown(screen, Window) THEN Leaves(SetCurrent(screen, p), p)
       ELSE Leaves(screen, Window)

\* KILL
WindowKill == Usable /\ Leaves(Deleted(screen, Window), Window)

\* GROW and SHRINK: grow_window()
WindowGrow(n) ==
    LET p == Window
        next == NextOf(screen, p)
        other == IF next # 0 THEN next ELSE PrevOf(screen, p)
        pane == screen.pane
        grown == IF next # 0
                 THEN [pane EXCEPT ![p].bottom = @ + n, ![p].size = @ + n,
                                   ![other].top = @ + n, ![other].size = @ - n]
                 ELSE [pane EXCEPT ![p].top = @ - n, ![p].size = @ + n,
                                   ![other].bottom = @ - n, ![other].size = @ - n]
        fits == other # 0 /\ pane[p].size + n >= 4 /\ pane[other].size - n >= 4
    IN  Usable /\ Leaves(IF IsShown(screen, p) /\ fits THEN [screen EXCEPT !.pane = grown] ELSE screen, p)

WindowBalance == Leaves(Balanced(screen), Window)

\* GOTO
WindowGoto(n) ==
    LET w == IF n \in DOMAIN screen.shown THEN SetCurrent(screen, screen.shown[n]) ELSE screen
    IN  Leaves(w, w.curr)

\* LAST
WindowLast == Leaves(SetCurrent(screen, 0), Window)

\* MOVE: move_window()
WindowMove(n) ==
    LET p == Window
        to == (PlaceOf(screen, p) - 1 + n) % screen.visible
    IN  Leaves(IF n # 0 /\ IsShown(screen, p)
               THEN Positioned([screen EXCEPT !.shown = InsertAt(Remove(@, p), to + 1, p)])
               ELSE screen, screen.curr)

\* SWAP
WindowSwap(h) == Usable /\ Leaves(Swapped(screen, Window, h), Window)

\* HIDE
WindowHide == Usable /\ Leaves(Hidden(screen, Window), Window)

\* PUSH
WindowPush ==
    /\ windowEnv.stacks /\ Usable /\ Len(screen.stack) < MaxStack
    /\ Leaves([screen EXCEPT !.stack = <<screen.pane[Window].refnum>> \o @], Window)

\* POP: pop_window() drops the entries that name no window.
WindowPop ==
    LET named == {i \in DOMAIN screen.stack : ByRefnum(screen, screen.stack[i]) # 0}
        rest == IF named = {} THEN <<>> ELSE SubSeq(screen.stack, Min(named) + 1, Len(screen.stack))
        w == [screen EXCEPT !.stack = rest]
    IN  /\ windowEnv.stacks
        /\ IF named = {} THEN Leaves(w, Window)
           ELSE LET p == ByRefnum(screen, screen.stack[Min(named)])
                IN  /\ MayReveal(screen, p)
                    /\ Leaves(Revealed(w, p), Window)

\* STACK: show_stack() drops them as well.
WindowStack ==
    /\ windowEnv.stacks
    /\ Leaves([screen EXCEPT !.stack = SelectSeq(@, LAMBDA n : ByRefnum(screen, n) # 0)], Window)

\* SHOW
WindowShow(p) ==
    /\ p \in Existing(screen)
    /\ MayReveal(screen, p)
    /\ LET w == Revealed(screen, p) IN Leaves(w, w.curr)

\* HIDE_OTHERS and KILL_OTHERS go through the windows that were shown.
WindowHideOthers ==
    Leaves(FoldLeft(LAMBDA w, p : IF p = screen.curr THEN w ELSE Hidden(w, p), screen, screen.shown), Window)

WindowKillOthers ==
    Leaves(FoldLeft(LAMBDA w, p : IF p = screen.curr THEN w ELSE Deleted(w, p), screen, screen.shown), Window)

\* NEXT and PREVIOUS, each an argument and a key: the hidden window whose number follows that of the current one, or the
\* lowest or highest of those hidden.
HiddenNumbers(w) == {w.pane[p].refnum : p \in Range(w.hidden)}

NextNumber(w) ==
    LET curr == w.pane[w.curr].refnum
        higher == {n \in HiddenNumbers(w) : n > curr}
    IN  IF higher # {} THEN Min(higher) ELSE Min(HiddenNumbers(w) \cup {curr})

PreviousNumber(w) ==
    LET curr == w.pane[w.curr].refnum
        lower == {n \in HiddenNumbers(w) : n < curr}
    IN  IF lower # {} THEN Max(lower) ELSE Max(HiddenNumbers(w) \cup {curr})

SwapNextWindow ==
    /\ screen.hidden # <<>>
    /\ \E window \in {local, Window} : Leaves(Swapped(screen, screen.curr, ByRefnum(screen, NextNumber(screen))), window)

SwapPreviousWindow ==
    /\ screen.hidden # <<>>
    /\ \E window \in {local, Window} : Leaves(Swapped(screen, screen.curr, ByRefnum(screen, PreviousNumber(screen))), window)

\* BACK: back_window()
BackWindow ==
    LET p == ByRefnum(screen, screen.last)
    IN  /\ p # 0
        /\ Leaves(IF IsShown(screen, p) THEN SetCurrent(screen, p) ELSE Swapped(screen, screen.curr, p), Window)

\* KILLSWAP: window_kill_swap()
WindowKillSwap ==
    /\ screen.hidden # <<>>
    /\ LET w == Swapped(screen, screen.curr, Head(screen.hidden))
       IN  Leaves(Deleted(w, ByRefnum(w, w.last)), Window)

\* NUMBER, which may exchange the numbers of two windows
WindowNumber(n) ==
    LET p == Window
        other == ByRefnum(screen, n)
        pane == screen.pane
    IN  /\ Usable
        /\ Leaves([screen EXCEPT !.pane =
                      IF other = 0 THEN [pane EXCEPT ![p].refnum = n]
                      ELSE [pane EXCEPT ![other].refnum = pane[p].refnum, ![p].refnum = n]], p)

\* DOUBLE and NOSTATUS
WindowDouble(d) ==
    LET p == Window
        w == [screen EXCEPT !.pane[p].double = d, !.pane[p].size = @ + screen.pane[p].double - d]
    IN  Usable /\ Leaves(Positioned(w), p)

\* The end of windowcmd()
WindowDone == local # 0 /\ Leaves(screen, 0)

-----------------------------------------------------------------------------
(* Keys, and the size of the terminal *)

AtKeys == local = 0

\* next_window()
NextWindow ==
    LET next == NextOf(screen, screen.curr)
    IN  /\ AtKeys /\ screen.visible # 1
        /\ Leaves(SetCurrent(screen, IF next # 0 THEN next ELSE Head(screen.shown)), 0)

\* previous_window()
PreviousWindow ==
    LET prev == PrevOf(screen, screen.curr)
    IN  /\ AtKeys /\ screen.visible # 1
        /\ Leaves(SetCurrent(screen, IF prev # 0 THEN prev ELSE Last(screen.shown)), 0)

\* swap_last_window()
SwapLastWindow ==
    /\ AtKeys /\ screen.hidden # <<>>
    /\ Leaves(Swapped(screen, screen.curr, Head(screen.hidden)), 0)

\* refresh_screen() after a change of size
RefreshScreen(li) ==
    /\ AtKeys /\ li # screen.li
    /\ Leaves(Balanced([screen EXCEPT !.li = li]), 0)

-----------------------------------------------------------------------------
WindowsInit ==
    /\ windowEnv \in WindowSettings
    /\ local = 0
    /\ \E li \in windowEnv.heights :
           screen = [shown |-> <<1>>, hidden |-> <<>>,
                     pane |-> [p \in Slots |-> IF p = 1 THEN [id |-> 1, refnum |-> 1, top |-> 0, bottom |-> li - 2,
                                                              size |-> li - 2, double |-> 0]
                                               ELSE NoPane],
                     curr |-> 1, last |-> 1, visible |-> 1, stack |-> <<>>, li |-> li, cramped |-> FALSE]

WindowsNext ==
    \/ WindowNew \/ WindowKill \/ WindowBalance \/ WindowLast \/ WindowHide
    \/ WindowPush \/ WindowPop \/ WindowStack
    \/ WindowHideOthers \/ WindowKillOthers \/ WindowKillSwap
    \/ SwapNextWindow \/ SwapPreviousWindow \/ BackWindow
    \/ \E p \in Slots : WindowRefnum(p) \/ WindowSwap(p) \/ WindowShow(p)
    \/ \E n \in windowEnv.grows : WindowGrow(n)
    \/ \E n \in Slots : WindowGoto(n)
    \/ \E n \in windowEnv.moves : WindowMove(n)
    \/ \E n \in windowEnv.numbers : WindowNumber(n)
    \/ \E d \in windowEnv.doubles : WindowDouble(d)
    \/ WindowDone
    \/ NextWindow \/ PreviousWindow \/ SwapLastWindow
    \/ \E li \in windowEnv.heights : RefreshScreen(li)

WindowsSpec == WindowsInit /\ [][WindowsNext]_windowVars

-----------------------------------------------------------------------------
(* Properties. *)

\* Every variable has its type.
WindowsTypeOK ==
    /\ screen \in Screen /\ screen.li \in windowEnv.heights /\ Len(screen.stack) <= MaxStack
    /\ local \in Slots \cup {0} /\ windowEnv \in WindowSetting

\* Each window has exactly one place, on the screen or hidden, and its own number and contents;
\* the current one is shown, and the screen knows how many are.
WindowsListed ==
    LET all == screen.shown \o screen.hidden
    IN  /\ \A i, j \in DOMAIN all : i # j =>
               /\ all[i] # all[j]
               /\ screen.pane[all[i]].id # screen.pane[all[j]].id
               /\ screen.pane[all[i]].refnum # screen.pane[all[j]].refnum
        /\ \A p \in Slots : p \in Range(all) <=> screen.pane[p].id # 0
        /\ IsShown(screen, screen.curr)
        /\ screen.visible = Len(screen.shown)

\* The windows shown and their status lines cover the rows above the input line: each begins
\* where the one before it ended.  Not once the terminal was made too small for them.
Tiled ==
    LET shown == [i \in DOMAIN screen.shown |-> screen.pane[screen.shown[i]]]
    IN  screen.cramped \/
        /\ shown[1].top = 0
        /\ \A i \in DOMAIN shown :
               /\ shown[i].size = shown[i].bottom - shown[i].top
               /\ shown[i].bottom + shown[i].double + 1 =
                      IF i < Len(shown) THEN shown[i + 1].top ELSE screen.li - 1

\* Every window on the hidden list is still there.
HiddenExists == \A p \in Range(screen.hidden) : screen.pane[p].id # 0

Ids(w) == {w.pane[p].id : p \in Existing(w)}
CurrentId(w) == w.pane[w.curr].id

\* HIDE_OTHERS and KILL_OTHERS leave the current window, alone on the screen and of its whole
\* size; nothing else is killed by either, and KILLSWAP kills the window it replaces.
OthersGone ==
    [][/\ WindowHideOthers => Ids(screen') = Ids(screen)
       /\ WindowKillOthers => Ids(screen') = {CurrentId(screen)} \cup {screen.pane[p].id : p \in Range(screen.hidden)}
       /\ WindowHideOthers \/ WindowKillOthers => CurrentId(screen') = CurrentId(screen) /\ Len(screen'.shown) = 1
       /\ WindowKillSwap => Ids(screen') = Ids(screen) \ {CurrentId(screen)}]_windowVars

\* The lists of windows, their numbers and their rows agree after any sequence of commands, and
\* those that hide or kill several touch these only (window.c).
WindowsArranged == [](WindowsTypeOK /\ WindowsListed /\ Tiled) /\ OthersGone

=============================================================================
