---------------------------- MODULE PagingProofs ----------------------------
(***************************************************************************)
(* For any size of window, limits and number of lines: no line is lost or  *)
(* overtaken on its way to the display, no more than a page goes by unseen *)
(* in hold mode, the log stays within LASTLOG, and scrolling back begins   *)
(* behind the lines that are on the display.  And for any text, width and  *)
(* CONTINUED_LINE: the lines of the screen that it becomes have each of    *)
(* its letters once and in order, and are no wider than the screen.        *)
(***************************************************************************)
EXTENDS Paging, Splits, FiniteSetTheorems, SequenceTheorems, WellFoundedInduction, TLAPS

\* The first u lines have been displayed, in order; those up to n wait in the hold list.
Ordered(w, u, n) ==
    /\ Len(w.queue) = n - u
    /\ \A i \in 1 .. Len(w.queue) : w.queue[i].id = u + i
    /\ \A i \in 1 .. w.cursor : w.display[i].id <= u
    /\ \A i, j \in 1 .. w.cursor : i < j => w.display[i].id < w.display[j].id

Bounded(w) == ~pagingEnv.elsewhere => Len(w.log) <= lastlogMax

PagingInv ==
    /\ win \in PagedWindow
    /\ written \in Nat /\ written <= MaxWritten /\ shownUpTo \in Nat /\ shownUpTo <= written
    /\ lastlogMax \in Nat \ {0} /\ pagingEnv \in PagingSetting
    /\ Ordered(win, shownUpTo, written) /\ Bounded(win)

-----------------------------------------------------------------------------
\* What holding and counting leave alone
Same(v, w) == v.queue = w.queue /\ v.display = w.display /\ v.log = w.log /\ v.cursor = w.cursor

\* hold_mode() and reset_hold() change neither the lists nor their types.
LEMMA HoldModeSame ==
    ASSUME NEW w \in PagedWindow, NEW flag \in BOOLEAN
    PROVE  /\ HoldMode(w, flag) \in PagedWindow /\ Same(HoldMode(w, flag), w)
           /\ ResetHold(w) \in PagedWindow /\ Same(ResetHold(w), w)
BY DEF HoldMode, ResetHold, PagedWindow, Same

\* A window with a new line counted while it is scrolled back, as rite() begins
LineCounted(w) == IF w.scrolled # 0 THEN [w EXCEPT !.newScrolled = @ + 1] ELSE w

\* Counting a new line leaves everything but the count as it was.
LEMMA LineCountedSame ==
    ASSUME NEW w \in PagedWindow
    PROVE  LET v == LineCounted(w)
           IN  /\ v \in PagedWindow /\ Same(v, w)
               /\ v.lineCnt = w.lineCnt /\ v.holdMode = w.holdMode /\ v.held = w.held
               /\ v.holdOnNextRite = w.holdOnNextRite /\ v.scrolled = w.scrolled
               /\ v.newScrolled = IF w.scrolled # 0 THEN w.newScrolled + 1 ELSE w.newScrolled
<1> DEFINE v == LineCounted(w)
<1>1. CASE w.scrolled # 0
    <2> DEFINE more == w.newScrolled + 1
    <2>1. more \in Nat
        BY DEF PagedWindow
    <2>2. v = [w EXCEPT !.newScrolled = more]
        BY <1>1 DEF LineCounted
    <2> HIDE DEF v, more
    <2>3. v \in PagedWindow
        BY ONLY <2>1, <2>2, w \in PagedWindow, SMTT(30) DEF PagedWindow
    <2>4. v.newScrolled = more /\ v.scrolled = w.scrolled
        BY ONLY <2>2, w \in PagedWindow, SMTT(30) DEF PagedWindow
    <2>5. /\ v.lineCnt = w.lineCnt /\ v.holdMode = w.holdMode /\ v.held = w.held
          /\ v.holdOnNextRite = w.holdOnNextRite
        BY ONLY <2>2, w \in PagedWindow, SMTT(30) DEF PagedWindow
    <2>6. Same(v, w)
        BY ONLY <2>2, w \in PagedWindow, SMTT(30) DEF PagedWindow, Same
    <2>7. QED BY <1>1, <2>3, <2>4, <2>5, <2>6 DEF v, more
<1>2. CASE w.scrolled = 0
    <2>1. v = w
        BY <1>2 DEF LineCounted
    <2> HIDE DEF v
    <2>2. QED BY <1>2, <2>1 DEF v, Same
<1>3. QED BY <1>1, <1>2

\* The first half of rite() changes neither the lists nor their types.
LEMMA BegunSame ==
    ASSUME NEW w \in PagedWindow PROVE Begun(w) \in PagedWindow /\ Same(Begun(w), w)
<1> DEFINE counted == LineCounted(w)
           next == [counted EXCEPT !.holdOnNextRite = FALSE]
<1>1. counted \in PagedWindow /\ Same(counted, w)
    BY LineCountedSame
<1>2. Begun(w) = IF PageEnds(w) THEN HoldMode(next, TRUE) ELSE counted
    BY DEF Begun, LineCounted
<1> HIDE DEF counted
<1>3. next \in PagedWindow /\ Same(next, w)
    BY <1>1 DEF PagedWindow, Same
<1> HIDE DEF next
<1>4. HoldMode(next, TRUE) \in PagedWindow /\ Same(HoldMode(next, TRUE), next)
    BY <1>3, HoldModeSame
<1>5. QED BY <1>1, <1>2, <1>3, <1>4 DEF Same

\* The invariant of a window depends on its lists only.
LEMMA SameOrdered ==
    ASSUME NEW v, NEW w, Same(v, w), NEW u, NEW n
    PROVE  /\ Ordered(v, u, n) <=> Ordered(w, u, n)
           /\ Bounded(v) <=> Bounded(w)
BY DEF Same, Ordered, Bounded

\* A line put at the end of the hold list
LEMMA AddToHoldListOrdered ==
    ASSUME NEW w \in PagedWindow, NEW u \in Nat, NEW n \in Nat, u <= n, NEW line \in Line, line.id = n + 1,
           Ordered(w, u, n), Bounded(w)
    PROVE  LET v == AddToHoldList(w, line)
           IN  v \in PagedWindow /\ Ordered(v, u, n + 1) /\ Bounded(v)
<1> DEFINE longer == [w EXCEPT !.queue = Append(@, line)]
<1>1. /\ w.queue \in Seq(Line) /\ Append(w.queue, line) \in Seq(Line)
      /\ Len(Append(w.queue, line)) = Len(w.queue) + 1
      /\ \A i \in 1 .. Len(w.queue) : Append(w.queue, line)[i] = w.queue[i]
      /\ Append(w.queue, line)[Len(w.queue) + 1] = line
    <2>1. w.queue \in Seq(Line)
        BY DEF PagedWindow
    <2>2. QED BY <2>1, AppendProperties
<1>2. /\ longer \in PagedWindow /\ longer.queue = Append(w.queue, line)
      /\ longer.display = w.display /\ longer.log = w.log /\ longer.cursor = w.cursor
    BY <1>1 DEF PagedWindow
<1>3. Len(w.queue) = n - u /\ Len(w.queue) \in Nat
    BY <1>1 DEF Ordered
<1>4. Ordered(longer, u, n + 1)
    <2>1. \A i \in 1 .. Len(longer.queue) : longer.queue[i].id = u + i
        <3>1. TAKE i \in 1 .. Len(longer.queue)
        <3>2. CASE i \in 1 .. Len(w.queue)
            BY <3>2, <1>1, <1>2 DEF Ordered
        <3>3. CASE i = Len(w.queue) + 1
            BY <3>3, <1>1, <1>2, <1>3
        <3>4. QED BY <3>2, <3>3, <1>1, <1>2, <1>3, SMTT(30)
    <2>2. Len(longer.queue) = n + 1 - u
        BY <1>1, <1>2, <1>3
    <2>3. QED BY <2>1, <2>2, <1>2, SMTT(30) DEF Ordered
<1>5. Bounded(longer)
    BY <1>2 DEF Bounded
<1>6. AddToHoldList(w, line) \in {longer, HoldMode(longer, FALSE)}
    BY DEF AddToHoldList
<1> HIDE DEF longer
<1>7. QED BY <1>2, <1>4, <1>5, <1>6, HoldModeSame, SameOrdered, ZenonT(60)

\* A line put at the end of the display
LEMMA AddDisplayLineOrdered ==
    ASSUME NEW w \in PagedWindow, NEW u \in Nat, NEW line \in Line, line.id = u + 1,
           \A i \in 1 .. w.cursor : w.display[i].id <= u,
           \A i, j \in 1 .. w.cursor : i < j => w.display[i].id < w.display[j].id
    PROVE  LET v == AddDisplayLine(w, line)
           IN  /\ v \in PagedWindow /\ v.queue = w.queue /\ v.log = w.log
               /\ v.lineCnt = w.lineCnt /\ v.holdMode = w.holdMode /\ v.held = w.held
               /\ v.holdOnNextRite = w.holdOnNextRite
               /\ \A i \in 1 .. v.cursor : v.display[i].id <= u + 1
               /\ \A i, j \in 1 .. v.cursor : i < j => v.display[i].id < v.display[j].id
<1> DEFINE v == AddDisplayLine(w, line)
<1>1. /\ w.display \in [1 .. DisplaySize -> Row] /\ w.cursor \in 0 .. DisplaySize
      /\ DisplaySize \in Nat \ {0} /\ line \in Row
      /\ \A i \in 1 .. DisplaySize : w.display[i].id \in Nat
    BY DisplaySizeAssumption, SMTT(30) DEF PagedWindow, Line, Row
<1>2. CASE w.cursor = DisplaySize
    <2> DEFINE display == [i \in 1 .. DisplaySize |-> IF i < DisplaySize THEN w.display[i + 1] ELSE line]
    <2>1. display \in [1 .. DisplaySize -> Row]
        <3>1. \A i \in 1 .. DisplaySize : i < DisplaySize => w.display[i + 1] \in Row
            BY <1>1
        <3>2. QED BY <1>1, <3>1
    <2>2. \A i \in 1 .. DisplaySize : display[i] = IF i < DisplaySize THEN w.display[i + 1] ELSE line
        OBVIOUS
    <2>3. v = [w EXCEPT !.display = display]
        BY <1>2 DEF AddDisplayLine
    <2> HIDE DEF display, v
    <2>4. /\ v \in PagedWindow /\ v.queue = w.queue /\ v.log = w.log /\ v.display = display
          /\ v.lineCnt = w.lineCnt /\ v.holdMode = w.holdMode /\ v.held = w.held
          /\ v.holdOnNextRite = w.holdOnNextRite /\ v.cursor = DisplaySize
        BY <1>2, <2>1, <2>3 DEF PagedWindow
    <2>5. \A i \in 1 .. DisplaySize : display[i].id <= u + 1
        BY <1>1, <1>2, <2>2, SMTT(30)
    <2>6. \A i, j \in 1 .. DisplaySize : i < j => display[i].id < display[j].id
        <3>1. TAKE i, j \in 1 .. DisplaySize
        <3>2. HAVE i < j
        <3>3. i + 1 \in 1 .. DisplaySize /\ display[i] = w.display[i + 1]
            BY <1>1, <2>2, <3>2
        <3>4. CASE j < DisplaySize
            <4>1. j + 1 \in 1 .. DisplaySize /\ i + 1 < j + 1 /\ display[j] = w.display[j + 1]
                BY <1>1, <2>2, <3>2, <3>4
            <4>2. QED BY <1>2, <3>3, <4>1
        <3>5. CASE j = DisplaySize
            BY <1>1, <1>2, <2>2, <3>3, <3>5
        <3>6. QED BY <1>1, <3>4, <3>5
    <2>7. QED BY <2>4, <2>5, <2>6 DEF v
<1>3. CASE w.cursor # DisplaySize
    <2> DEFINE c == w.cursor + 1
               display == [w.display EXCEPT ![c] = line]
    <2>1. c \in 1 .. DisplaySize /\ w.cursor = c - 1
        BY <1>1, <1>3
    <2>2. v = [w EXCEPT !.display = display, !.cursor = c]
        BY <1>3 DEF AddDisplayLine
    <2> HIDE DEF c
    <2>3. /\ display \in [1 .. DisplaySize -> Row] /\ display[c] = line
          /\ \A i \in 1 .. DisplaySize : i # c => display[i] = w.display[i]
        BY <1>1, <2>1
    <2> HIDE DEF display, v
    <2>4. /\ v \in PagedWindow /\ v.queue = w.queue /\ v.log = w.log /\ v.display = display
          /\ v.lineCnt = w.lineCnt /\ v.holdMode = w.holdMode /\ v.held = w.held
          /\ v.holdOnNextRite = w.holdOnNextRite /\ v.cursor = c
        <3>1. c \in 0 .. DisplaySize
            BY <1>1, <2>1
        <3>2. QED BY <2>2, <2>3, <3>1 DEF PagedWindow
    <2>5. \A i \in 1 .. c : i \in 1 .. DisplaySize /\ (i # c => i \in 1 .. w.cursor)
        BY <1>1, <2>1
    <2>6. \A i \in 1 .. c : display[i].id <= u + 1
        BY <1>1, <2>3, <2>5
    <2>7. \A i, j \in 1 .. c : i < j => display[i].id < display[j].id
        <3>1. TAKE i, j \in 1 .. c
        <3>2. HAVE i < j
        <3>3. i # c /\ i \in 1 .. w.cursor /\ display[i] = w.display[i] /\ w.display[i].id \in Nat
            BY <1>1, <2>1, <2>3, <2>5, <3>2
        <3>4. CASE j # c
            BY <2>3, <2>5, <3>2, <3>3, <3>4
        <3>5. CASE j = c
            BY <2>3, <3>3, <3>5, SMTT(30)
        <3>6. QED BY <3>4, <3>5
    <2>8. QED BY <2>4, <2>6, <2>7 DEF v
<1>4. QED BY <1>2, <1>3

\* A line that rite() displays
LEMMA DisplayedOrdered ==
    ASSUME NEW w \in PagedWindow, NEW u \in Nat, NEW line \in Line, line.id = u + 1,
           \A i \in 1 .. w.cursor : w.display[i].id <= u,
           \A i, j \in 1 .. w.cursor : i < j => w.display[i].id < w.display[j].id
    PROVE  LET v == Displayed(w, line)
           IN  /\ v \in PagedWindow /\ v.queue = w.queue /\ v.log = w.log
               /\ \A i \in 1 .. v.cursor : v.display[i].id <= u + 1
               /\ \A i, j \in 1 .. v.cursor : i < j => v.display[i].id < v.display[j].id
<1> DEFINE full == w.lineCnt + 1 >= DisplaySize
           added == AddDisplayLine(w, line)
           count == IF full THEN 0 ELSE added.lineCnt + 1
           hold == added.holdOnNextRite \/ full
           v == Displayed(w, line)
<1>1. /\ added \in PagedWindow /\ added.queue = w.queue /\ added.log = w.log
      /\ \A i \in 1 .. added.cursor : added.display[i].id <= u + 1
      /\ \A i, j \in 1 .. added.cursor : i < j => added.display[i].id < added.display[j].id
    BY AddDisplayLineOrdered, ZenonT(60)
<1>2. v = [added EXCEPT !.lineCnt = count, !.holdOnNextRite = hold]
    BY DEF Displayed
<1> HIDE DEF added
<1>3. count \in Nat /\ hold \in BOOLEAN
    BY <1>1, DisplaySizeAssumption, SMTT(30) DEF PagedWindow
<1> HIDE DEF v, count, hold
<1>4. /\ v \in PagedWindow /\ v.queue = added.queue /\ v.log = added.log
      /\ v.display = added.display /\ v.cursor = added.cursor
    BY <1>1, <1>2, <1>3 DEF PagedWindow
<1>5. QED BY <1>1, <1>4 DEF v

\* The log stays within LASTLOG.
LEMMA AddToLastlogBounded ==
    ASSUME NEW log \in Seq(Line), NEW line \in Line, lastlogMax \in Nat \ {0}
    PROVE  /\ AddToLastlog(log, line) \in Seq(Line)
           /\ Len(log) <= lastlogMax => Len(AddToLastlog(log, line)) <= lastlogMax
<1>1. <<line>> \in Seq(Line) /\ Len(<<line>>) = 1 /\ Len(log) \in Nat
    OBVIOUS
<1>2. CASE Len(log) = lastlogMax
    <2> DEFINE kept == SubSeq(log, 1, Len(log) - 1)
    <2>1. kept \in Seq(Line) /\ Len(kept) = Len(log) - 1
        BY <1>2, SubSeqProperties
    <2> HIDE DEF kept
    <2>2. <<line>> \o kept \in Seq(Line) /\ Len(<<line>> \o kept) = 1 + Len(kept)
        BY <1>1, <2>1, ConcatProperties
    <2>3. AddToLastlog(log, line) = <<line>> \o kept
        BY <1>2 DEF AddToLastlog, kept
    <2>4. QED BY <1>1, <1>2, <2>1, <2>2, <2>3
<1>3. CASE Len(log) # lastlogMax
    <2>1. <<line>> \o log \in Seq(Line) /\ Len(<<line>> \o log) = 1 + Len(log)
        BY <1>1, ConcatProperties
    <2>2. QED BY <1>1, <1>3, <2>1 DEF AddToLastlog
<1>4. QED BY <1>2, <1>3

-----------------------------------------------------------------------------
\* The lines passed over when scrolling back can be counted, and so can the rest of the log.
LEMMA LinesCounted ==
    ASSUME PagingInv PROVE LastlogLines \in Nat
<1> DEFINE on == {i \in 1 .. DisplaySize : win.display[i].logged}
<1>1. win.log \in Seq(Line) /\ win.newScrolled \in Nat
    BY DEF PagingInv, PagedWindow
<1>2. Len(win.log) \in Nat
    BY <1>1
<1>3. IsFiniteSet(1 .. DisplaySize)
    BY DisplaySizeAssumption, FS_Interval
<1>4. on \subseteq 1 .. DisplaySize
    OBVIOUS
<1>5. Cardinality(on) \in Nat
    BY <1>3, <1>4, FS_Subset, FS_CardinalityType
<1>6. Skipped = win.newScrolled + Cardinality(on)
    BY DEF Skipped
<1> HIDE DEF on
<1>7. QED BY <1>1, <1>2, <1>5, <1>6 DEF LastlogLines

\* add_to_window() keeps the invariant.
LEMMA StepAdd ==
    ASSUME PagingInv, NEW logged \in BOOLEAN, AddToWindow(logged) PROVE PagingInv'
<1> DEFINE line == [id |-> written + 1, logged |-> logged]
           log == IF logged THEN AddToLastlog(win.log, line) ELSE win.log
           w == [win EXCEPT !.log = log]
<1>1. /\ win \in PagedWindow /\ win.log \in Seq(Line) /\ lastlogMax \in Nat \ {0}
      /\ written \in Nat /\ written < MaxWritten /\ shownUpTo \in Nat /\ shownUpTo <= written
      /\ Ordered(win, shownUpTo, written) /\ Bounded(win)
    BY DEF PagingInv, PagedWindow, AddToWindow
<1>2. line \in Line /\ line.id = written + 1
    BY <1>1, MaxWrittenAssumption DEF Line
<1>3. w = [win EXCEPT !.log = IF logged THEN AddToLastlog(@, line) ELSE @]
    OBVIOUS
<1>4. RiteNew(w, line) /\ written' = written + 1 /\ UNCHANGED <<holdModeMax, lastlogMax, pagingEnv>>
    BY <1>3 DEF AddToWindow
<1> HIDE DEF line
<1>5. log \in Seq(Line) /\ (Len(win.log) <= lastlogMax => Len(log) <= lastlogMax)
    BY <1>1, <1>2, AddToLastlogBounded
<1> HIDE DEF log
<1>6. /\ w \in PagedWindow /\ w.queue = win.queue /\ w.log = log
      /\ w.display = win.display /\ w.cursor = win.cursor
    BY <1>1, <1>5 DEF PagedWindow
<1> HIDE DEF w
<1>7. Ordered(w, shownUpTo, written) /\ Bounded(w)
    BY <1>1, <1>5, <1>6 DEF Ordered, Bounded
<1> DEFINE begun == Begun(w)
<1>8. begun \in PagedWindow /\ Ordered(begun, shownUpTo, written) /\ Bounded(begun)
    BY <1>6, <1>7, BegunSame, SameOrdered
<1>9. IF MustHold(begun)
      THEN win' = AddToHoldList(begun, line) /\ UNCHANGED <<shownUpTo, page>>
      ELSE win' = Displayed(begun, line) /\ Shown(line)
    BY <1>4 DEF RiteNew
<1> HIDE DEF begun
<1>10. CASE MustHold(begun)
    <2>1. win' = AddToHoldList(begun, line) /\ shownUpTo' = shownUpTo
        BY <1>9, <1>10
    <2>2. win' \in PagedWindow /\ Ordered(win', shownUpTo, written + 1) /\ Bounded(win')
        BY <1>1, <1>2, <1>8, <2>1, AddToHoldListOrdered
    <2>3. QED BY <1>1, <1>4, <2>1, <2>2, MaxWrittenAssumption DEF PagingInv, Bounded
<1>11. CASE ~MustHold(begun)
    <2>1. win' = Displayed(begun, line) /\ shownUpTo' = written + 1 /\ begun.queue = <<>>
        BY <1>2, <1>9, <1>11 DEF Shown, MustHold
    <2>2. shownUpTo = written
        BY <1>1, <1>8, <2>1, EmptySeq DEF Ordered
    <2>3. /\ win' \in PagedWindow /\ win'.queue = <<>> /\ win'.log = begun.log
          /\ \A i \in 1 .. win'.cursor : win'.display[i].id <= written + 1
          /\ \A i, j \in 1 .. win'.cursor : i < j => win'.display[i].id < win'.display[j].id
        BY <1>1, <1>2, <1>8, <2>1, <2>2, DisplayedOrdered DEF Ordered
    <2>4. Ordered(win', written + 1, written + 1) /\ Bounded(win')
        BY <1>1, <1>8, <2>3, EmptySeq DEF Ordered, Bounded
    <2>5. QED BY <1>1, <1>4, <2>1, <2>3, <2>4, MaxWrittenAssumption DEF PagingInv, Bounded
<1>12. QED BY <1>10, <1>11

\* unhold_windows() keeps the invariant.
LEMMA StepUnhold ==
    ASSUME PagingInv, UnholdWindows PROVE PagingInv'
<1> DEFINE begun == Begun(win)
           line == Head(win.queue)
           v == Displayed(begun, line)
<1>1. /\ win \in PagedWindow /\ win.queue \in Seq(Line) /\ win.queue # <<>>
      /\ written \in Nat /\ shownUpTo \in Nat /\ shownUpTo <= written
      /\ Ordered(win, shownUpTo, written) /\ Bounded(win)
      /\ UNCHANGED <<holdModeMax, lastlogMax, written, pagingEnv>>
    BY DEF PagingInv, PagedWindow, UnholdWindows
<1>2. /\ begun \in PagedWindow /\ begun.queue = win.queue
      /\ Ordered(begun, shownUpTo, written) /\ Bounded(begun)
    BY <1>1, BegunSame, SameOrdered DEF Same
<1>3. /\ IF PageEnds(win) THEN win' = begun /\ UNCHANGED <<shownUpTo, page>>
         ELSE win' = [v EXCEPT !.queue = Tail(@)] /\ Shown(line)
    BY DEF UnholdWindows
<1>4. CASE PageEnds(win)
    BY <1>1, <1>2, <1>3, <1>4 DEF PagingInv, Bounded
<1>5. CASE ~PageEnds(win)
    <2>1. /\ line = win.queue[1] /\ line \in Line /\ Len(win.queue) \in Nat /\ 1 \in 1 .. Len(win.queue)
          /\ Tail(win.queue) \in Seq(Line) /\ Len(Tail(win.queue)) = Len(win.queue) - 1
          /\ \A i \in 1 .. Len(Tail(win.queue)) : Tail(win.queue)[i] = win.queue[i + 1]
        <3>1. Len(win.queue) \in Nat /\ Len(win.queue) # 0
            BY <1>1, EmptySeq
        <3>2. QED BY <1>1, <3>1, HeadTailProperties
    <2>2. line.id = shownUpTo + 1
        BY <1>1, <2>1 DEF Ordered
    <2> HIDE DEF line, begun
    <2>3. /\ v \in PagedWindow /\ v.queue = win.queue /\ v.log = begun.log
          /\ \A i \in 1 .. v.cursor : v.display[i].id <= shownUpTo + 1
          /\ \A i, j \in 1 .. v.cursor : i < j => v.display[i].id < v.display[j].id
        <3>1. /\ \A i \in 1 .. begun.cursor : begun.display[i].id <= shownUpTo
              /\ \A i, j \in 1 .. begun.cursor : i < j => begun.display[i].id < begun.display[j].id
            BY <1>2 DEF Ordered
        <3>2. begun \in PagedWindow /\ shownUpTo \in Nat /\ line \in Line /\ begun.queue = win.queue
            BY <1>1, <1>2, <2>1
        <3> HIDE DEF v
        <3>3. v = Displayed(begun, line)
            BY DEF v
        <3>4. QED BY <2>2, <3>1, <3>2, <3>3, DisplayedOrdered
    <2> HIDE DEF v
    <2>4. /\ win' \in PagedWindow /\ win'.queue = Tail(win.queue)
          /\ win'.display = v.display /\ win'.cursor = v.cursor /\ win'.log = begun.log
        BY <1>3, <1>5, <2>1, <2>3, ZenonT(60) DEF PagedWindow
    <2>5. shownUpTo' = shownUpTo + 1
        BY <1>3, <1>5, <2>2 DEF Shown
    <2>6. Len(win.queue) = written - shownUpTo
        BY <1>1 DEF Ordered
    <2>7. \A i \in 1 .. Len(win'.queue) : win'.queue[i].id = shownUpTo + 1 + i
        <3>1. \A i \in 1 .. Len(Tail(win.queue)) : i + 1 \in 1 .. Len(win.queue)
            BY <2>1
        <3>2. \A i \in 1 .. Len(Tail(win.queue)) : win.queue[i + 1].id = shownUpTo + (i + 1)
            BY <1>1, <3>1 DEF Ordered
        <3>3. QED BY <1>1, <2>1, <2>4, <3>2
    <2>8. Ordered(win', shownUpTo + 1, written)
        BY <1>1, <2>1, <2>3, <2>4, <2>6, <2>7 DEF Ordered
    <2>9. Bounded(win')
        BY <1>2, <2>4 DEF Bounded
    <2>10. shownUpTo + 1 <= written
        BY <1>1, <2>1, <2>6
    <2>11. QED BY <1>1, <2>4, <2>5, <2>8, <2>9, <2>10 DEF PagingInv, Bounded
<1>6. QED BY <1>4, <1>5

\* Whatever leaves the lists and the limits alone keeps the invariant.
LEMMA StepSame ==
    ASSUME PagingInv, NEW w \in PagedWindow, Same(w, win), Acts(w), Keeps PROVE PagingInv'
<1>1. win' = w /\ UNCHANGED <<written, pagingEnv, lastlogMax, shownUpTo>>
    BY DEF Acts, Keeps
<1>2. Ordered(w, shownUpTo, written) /\ Bounded(w)
    BY SameOrdered DEF PagingInv
<1>3. QED BY <1>1, <1>2 DEF PagingInv, Bounded

\* A window that is scrolled elsewhere keeps its type and its lists.
LEMMA ScrolledSame ==
    ASSUME PagingInv, NEW s \in Nat, NEW n \in Nat
    PROVE  LET w == [win EXCEPT !.scrolled = s, !.newScrolled = n]
           IN  w \in PagedWindow /\ Same(w, win) /\ Paged(w) \in PagedWindow /\ Same(Paged(w), win)
<1> DEFINE w == [win EXCEPT !.scrolled = s, !.newScrolled = n]
<1>1. w \in PagedWindow /\ Same(w, win) /\ w.holdMode \in BOOLEAN
    BY DEF PagingInv, PagedWindow, Same
<1> HIDE DEF w
<1>2. Paged(w) \in PagedWindow /\ Same(Paged(w), w)
    BY <1>1, HoldModeSame DEF Paged
<1>3. Same(Paged(w), win)
    BY <1>1, <1>2 DEF Same
<1>4. QED BY <1>1, <1>2, <1>3 DEF w

\* scrollback_backwards_lines() keeps the lists.
LEMMA BackBySame ==
    ASSUME PagingInv, NEW distance \in Nat
    PROVE  BackBy(distance) \in PagedWindow /\ Same(BackBy(distance), win)
<1> DEFINE to == IF distance + win.scrolled > LastlogLines THEN LastlogLines ELSE distance + win.scrolled
<1>1. to \in Nat
    BY LinesCounted, SMTT(30) DEF PagingInv, PagedWindow
<1>2. BackBy(distance) = [win EXCEPT !.scrolled = to]
    BY DEF BackBy
<1> HIDE DEF to
<1>3. QED BY <1>1, <1>2 DEF PagingInv, PagedWindow, Same

\* Scrolling keeps the invariant.
LEMMA StepScroll ==
    ASSUME PagingInv,
           ScrollBackwards \/ ScrollForwards \/ ScrollEnd \/ ScrollStart
    PROVE  PagingInv'
<1>1. win \in PagedWindow /\ win.scrolled \in Nat /\ win.newScrolled \in Nat
    BY DEF PagingInv, PagedWindow
<1>2. CASE ScrollEnd
    <2> DEFINE w == IF win.scrolled = 0 THEN [win EXCEPT !.newScrolled = 0] ELSE ScrolledToEnd(win)
    <2>1. CASE win.scrolled = 0
        <3>1. [win EXCEPT !.newScrolled = 0] \in PagedWindow /\ Same([win EXCEPT !.newScrolled = 0], win)
            BY <1>1 DEF PagedWindow, Same
        <3>2. QED BY <1>2, <2>1, <3>1, StepSame DEF ScrollEnd
    <2>2. CASE win.scrolled # 0
        <3>1. ScrolledToEnd(win) \in PagedWindow /\ Same(ScrolledToEnd(win), win)
            BY ScrolledSame DEF ScrolledToEnd
        <3>2. QED BY <1>2, <2>2, <3>1, StepSame DEF ScrollEnd
    <2>3. QED BY <2>1, <2>2
<1>3. CASE ScrollStart
    <2>1. CASE LastlogLines < DisplaySize
        BY <1>3, <2>1, LinesCounted, BackBySame, StepSame DEF ScrollStart
    <2>2. CASE ~(LastlogLines < DisplaySize)
        <3> DEFINE w == Paged([win EXCEPT !.scrolled = LastlogLines, !.newScrolled = 0])
        <3>1. w \in PagedWindow /\ Same(w, win)
            BY LinesCounted, ScrolledSame
        <3>2. Acts(w) /\ Keeps
            BY <1>3, <2>2 DEF ScrollStart
        <3> HIDE DEF w
        <3>3. QED BY <3>1, <3>2, StepSame
    <2>3. QED BY <2>1, <2>2
<1> DEFINE distance == DisplaySize \div 2
<1>4. distance \in Nat
    BY DisplaySizeAssumption
<1>5. CASE ScrollBackwards
    BY <1>4, <1>5, BackBySame, StepSame DEF ScrollBackwards
<1>6. CASE ScrollForwards
    <2>1. Acts(ForwardBy(distance)) /\ Keeps
        BY <1>6 DEF ScrollForwards
    <2> HIDE DEF distance
    <2>2. ForwardBy(distance) \in PagedWindow /\ Same(ForwardBy(distance), win)
        <3>1. CASE win.scrolled <= distance
            BY <3>1, ScrolledSame DEF ForwardBy
        <3>2. CASE ~(win.scrolled <= distance)
            <4> DEFINE s == win.scrolled - distance
            <4>1. s \in Nat
                BY <1>1, <1>4, <3>2
            <4>2. ForwardBy(distance) = [win EXCEPT !.scrolled = s]
                BY <3>2 DEF ForwardBy
            <4> HIDE DEF s
            <4>3. QED BY <1>1, <4>1, <4>2 DEF PagedWindow, Same
        <3>3. QED BY <3>1, <3>2
    <2>3. QED BY <2>1, <2>2, StepSame
<1>7. QED BY <1>2, <1>3, <1>5, <1>6

\* flush() and set_lastlog_size(), which drop lines, keep the invariant.
LEMMA StepDrop ==
    ASSUME PagingInv, FlushHeld \/ \E size \in Lastlogs : SetLastlogSize(size) PROVE PagingInv'
<1>1. /\ win \in PagedWindow /\ win.log \in Seq(Line) /\ Len(win.log) \in Nat
      /\ written \in Nat /\ shownUpTo \in Nat /\ shownUpTo <= written
      /\ Ordered(win, shownUpTo, written) /\ Bounded(win)
    BY DEF PagingInv, PagedWindow
<1>2. CASE FlushHeld
    <2> DEFINE w == [win EXCEPT !.queue = <<>>]
               v == HoldMode(w, FALSE)
    <2>1. /\ w \in PagedWindow /\ w.queue = <<>> /\ w.log = win.log
          /\ w.display = win.display /\ w.cursor = win.cursor
        <3>1. <<>> \in Seq(Line)
            BY EmptySeq
        <3>2. QED BY <1>1, <3>1 DEF PagedWindow
    <2>2. win' = v /\ shownUpTo' = written /\ UNCHANGED <<lastlogMax, written, pagingEnv>>
        BY <1>2 DEF FlushHeld, Acts
    <2> HIDE DEF w
    <2>3. v \in PagedWindow /\ Same(v, w)
        BY <2>1, HoldModeSame
    <2> HIDE DEF v
    <2>4. \A i \in 1 .. win.cursor : win.display[i].id \in Nat
        <3>1. win.display \in [1 .. DisplaySize -> Row] /\ win.cursor \in 0 .. DisplaySize
            BY <1>1 DEF PagedWindow
        <3>2. \A i \in 1 .. win.cursor : i \in 1 .. DisplaySize
            BY <3>1, DisplaySizeAssumption
        <3>3. \A r \in Row : r.id \in Nat
            BY DEF Row
        <3>4. QED BY <3>1, <3>2, <3>3
    <2>5. \A i \in 1 .. win.cursor : win.display[i].id <= written
        BY <1>1, <2>4 DEF Ordered
    <2>6. Ordered(v, written, written) /\ Bounded(v)
        BY <1>1, <2>1, <2>3, <2>5, EmptySeq DEF Ordered, Bounded, Same
    <2>7. QED BY <1>1, <2>2, <2>3, <2>6 DEF PagingInv, Bounded
<1>3. ASSUME NEW size \in Lastlogs, SetLastlogSize(size) PROVE PagingInv'
    <2> DEFINE cut == SubSeq(win.log, 1, size)
    <2>1. size \in Nat \ {0}
        BY LastlogsAssumption
    <2>2. lastlogMax' = size /\ UNCHANGED <<shownUpTo, written, pagingEnv>>
        BY <1>3 DEF SetLastlogSize, Acts
    <2>3. CASE pagingEnv.elsewhere \/ Len(win.log) <= size
        <3>1. win' = win
            BY <1>3, <2>3 DEF SetLastlogSize, Acts
        <3>2. QED BY <2>1, <2>2, <2>3, <3>1 DEF PagingInv, Bounded
    <2>4. CASE ~(pagingEnv.elsewhere \/ Len(win.log) <= size)
        <3>1. cut \in Seq(Line) /\ Len(cut) = size
            BY <1>1, <2>1, <2>4, SubSeqProperties
        <3>2. win' = [win EXCEPT !.log = cut]
            BY <1>3, <2>4 DEF SetLastlogSize, Acts
        <3> HIDE DEF cut
        <3>3. /\ win' \in PagedWindow /\ win'.queue = win.queue /\ win'.log = cut
              /\ win'.display = win.display /\ win'.cursor = win.cursor
            BY <1>1, <3>1, <3>2 DEF PagedWindow
        <3>4. Ordered(win', shownUpTo, written)
            BY <1>1, <3>3 DEF Ordered
        <3>5. QED BY <1>1, <2>1, <2>2, <3>1, <3>3, <3>4 DEF PagingInv, Bounded
    <2>5. QED BY <2>3, <2>4
<1>4. QED BY <1>2, <1>3

\* erase_display() leaves the hold list and the log alone.
LEMMA EraseDisplayFields ==
    ASSUME NEW w \in PagedWindow
    PROVE  LET v == EraseDisplay(w)
           IN  /\ v \in PagedWindow /\ v.queue = w.queue /\ v.log = w.log
               /\ v.cursor = 0 /\ v.lineCnt = 0
<1> DEFINE display == [i \in 1 .. DisplaySize |-> [w.display[i] EXCEPT !.id = 0]]
<1>1. \A r \in Row : [r EXCEPT !.id = 0] \in Row
    BY MaxWrittenAssumption DEF Row
<1>2. w.display \in [1 .. DisplaySize -> Row]
    BY DEF PagedWindow
<1>3. display \in [1 .. DisplaySize -> Row]
    BY <1>1, <1>2
<1>4. EraseDisplay(w) = [w EXCEPT !.display = display, !.cursor = 0, !.lineCnt = 0, !.holdOnNextRite = FALSE]
    BY DEF EraseDisplay
<1> HIDE DEF display
<1> DEFINE v == EraseDisplay(w)
           used == 0
           hold == FALSE
<1>5. used \in 0 .. DisplaySize /\ used = 0 /\ used \in Nat /\ hold \in BOOLEAN
    BY DisplaySizeAssumption
<1>6. v = [w EXCEPT !.display = display, !.cursor = used, !.lineCnt = used, !.holdOnNextRite = hold]
    BY <1>4
<1> HIDE DEF v, used, hold
<1>7. v \in PagedWindow /\ v.queue = w.queue /\ v.log = w.log /\ v.cursor = used /\ v.lineCnt = used
    BY <1>3, <1>5, <1>6 DEF PagedWindow
<1>8. QED BY <1>5, <1>7 DEF v

\* What the user does without scrolling or dropping lines keeps the invariant.
LEMMA StepUser ==
    ASSUME PagingInv,
           \/ SendLine \/ ToggleStopScreen \/ UnstopAllWindows
           \/ \E b \in BOOLEAN : Clear(b) \/ SetHoldMode(b) \/ WindowHoldMode(b)
    PROVE  PagingInv'
<1>1. win \in PagedWindow
    BY DEF PagingInv
<1>2. CASE SendLine
    <2>1. HoldMode(ResetHold(win), FALSE) \in PagedWindow /\ Same(HoldMode(ResetHold(win), FALSE), win)
        BY <1>1, HoldModeSame, ZenonT(60) DEF Same
    <2>2. QED BY <1>2, <2>1, StepSame DEF SendLine
<1>3. CASE ToggleStopScreen
    <2> DEFINE w == IF win.scrolled # 0 THEN win ELSE [win EXCEPT !.held = ~@]
    <2>1. w \in PagedWindow /\ Same(w, win)
        BY <1>1 DEF PagedWindow, Same
    <2>2. Acts(w) /\ Keeps
        BY <1>3 DEF ToggleStopScreen
    <2> HIDE DEF w
    <2>3. QED BY <2>1, <2>2, StepSame
<1>4. ASSUME NEW b \in BOOLEAN, Clear(b) PROVE PagingInv'
    <2> DEFINE u == IF b THEN HoldMode(win, FALSE) ELSE win
    <2>1. u \in PagedWindow /\ u.queue = win.queue /\ u.log = win.log
        BY <1>1, HoldModeSame DEF Same
    <2>2. win' = EraseDisplay(u) /\ UNCHANGED <<written, pagingEnv, lastlogMax, shownUpTo>>
        BY <1>4 DEF Clear, Acts, Keeps
    <2> HIDE DEF u
    <2>3. win' \in PagedWindow /\ win'.queue = win.queue /\ win'.log = win.log /\ win'.cursor = 0
        BY <2>1, <2>2, EraseDisplayFields
    <2>4. Ordered(win', shownUpTo, written) /\ Bounded(win')
        BY <2>3 DEF PagingInv, Ordered, Bounded
    <2>5. QED BY <2>2, <2>3, <2>4 DEF PagingInv, Bounded
<1>5. ASSUME NEW b \in BOOLEAN, SetHoldMode(b) PROVE PagingInv'
    <2> DEFINE w == [win EXCEPT !.holdMode = b, !.holdOnNextRite = FALSE, !.lineCnt = 0]
    <2>1. w \in PagedWindow /\ Same(w, win)
        BY <1>1 DEF PagedWindow, Same
    <2>2. Acts(w) /\ Keeps
        BY <1>5 DEF SetHoldMode
    <2> HIDE DEF w
    <2>3. QED BY <2>1, <2>2, StepSame
<1>6. ASSUME NEW b \in BOOLEAN, WindowHoldMode(b) PROVE PagingInv'
    <2> DEFINE w == [win EXCEPT !.holdMode = b]
    <2>1. w \in PagedWindow /\ Same(w, win)
        BY <1>1 DEF PagedWindow, Same
    <2>2. Acts(w) /\ Keeps
        BY <1>6 DEF WindowHoldMode
    <2> HIDE DEF w
    <2>3. QED BY <2>1, <2>2, StepSame
<1>7. CASE UnstopAllWindows
    BY <1>1, <1>7, HoldModeSame, StepSame DEF UnstopAllWindows
<1>8. QED BY <1>2, <1>3, <1>4, <1>5, <1>6, <1>7

\* A new window has nothing to show.
LEMMA InitHolds ==
    PagingInit => PagingInv
<1> SUFFICES ASSUME PagingInit PROVE PagingInv
    OBVIOUS
<1>1. win \in PagedWindow /\ win.queue = <<>> /\ win.cursor = 0 /\ win.log = <<>>
    <2>1. <<>> \in Seq(Line)
        BY EmptySeq
    <2> DEFINE Fresh == [holdMode: BOOLEAN, held: {FALSE}, holdOnNextRite: {FALSE}, lineCnt: {0},
                         scrolled: {0}, newScrolled: {0}, queue: {<<>>}, log: {<<>>}, cursor: {0},
                         display: [1 .. DisplaySize -> {[id |-> 0, logged |-> FALSE]}]]
    <2>2. win \in Fresh
        BY DEF PagingInit
    <2>3. \A w \in Fresh : /\ w.holdMode \in BOOLEAN /\ w.held = FALSE /\ w.holdOnNextRite = FALSE
                          /\ w.lineCnt = 0 /\ w.scrolled = 0 /\ w.newScrolled = 0
                          /\ w.queue = <<>> /\ w.cursor = 0 /\ w.log = <<>>
        OBVIOUS
    <2>4. \A w \in Fresh : w \in PagedWindow
        <3>1. ASSUME NEW B \in SUBSET BOOLEAN, NEW Z \in SUBSET Nat, NEW Q \in SUBSET Seq(Line),
                     NEW D \in SUBSET [1 .. DisplaySize -> Row], NEW C \in SUBSET (0 .. DisplaySize)
              PROVE  [holdMode: BOOLEAN, held: B, holdOnNextRite: B, lineCnt: Z, scrolled: Z,
                      newScrolled: Z, queue: Q, log: Q, cursor: C, display: D] \subseteq PagedWindow
            BY <3>1 DEF PagedWindow
        <3> DEFINE D == [1 .. DisplaySize -> {[id |-> 0, logged |-> FALSE]}]
        <3>2. D \in SUBSET [1 .. DisplaySize -> Row]
            <4>1. [id |-> 0, logged |-> FALSE] \in Row
                BY MaxWrittenAssumption DEF Row
            <4>2. QED BY <4>1
        <3> HIDE DEF D
        <3> DEFINE B == {FALSE}
                   Z == {0}
                   Q == {<<>>}
        <3>3. /\ B \in SUBSET BOOLEAN /\ Z \in SUBSET Nat /\ Z \in SUBSET (0 .. DisplaySize)
              /\ Q \in SUBSET Seq(Line)
            BY <2>1, DisplaySizeAssumption
        <3>4. Fresh = [holdMode: BOOLEAN, held: B, holdOnNextRite: B, lineCnt: Z, scrolled: Z,
                       newScrolled: Z, queue: Q, log: Q, cursor: Z, display: D]
            BY DEF D
        <3> HIDE DEF B, Z, Q, Fresh
        <3>5. QED BY <3>1, <3>2, <3>3, <3>4
    <2>5. QED BY <2>2, <2>3, <2>4
<1>2. lastlogMax \in Nat \ {0}
    BY MaxWrittenAssumption, LastlogsAssumption DEF PagingInit
<1>3. written = 0 /\ shownUpTo = 0 /\ pagingEnv \in PagingSetting
    BY PagingSettingsAssumption DEF PagingInit
<1>4. Ordered(win, 0, 0) /\ Bounded(win)
    BY <1>1, <1>2, EmptySeq DEF Ordered, Bounded
<1>5. QED BY <1>1, <1>2, <1>3, <1>4, MaxWrittenAssumption DEF PagingInv

\* Every step keeps the invariant.
LEMMA StepHolds ==
    PagingInv /\ [PagingNext]_pagingVars => PagingInv'
<1> SUFFICES ASSUME PagingInv, [PagingNext]_pagingVars PROVE PagingInv'
    OBVIOUS
<1>1. ASSUME NEW logged \in BOOLEAN, AddToWindow(logged) PROVE PagingInv'
    BY <1>1, StepAdd
<1>2. CASE UnholdWindows
    BY <1>2, StepUnhold
<1>3. CASE FlushHeld \/ \E size \in Lastlogs : SetLastlogSize(size)
    BY <1>3, StepDrop
<1>4. CASE \/ SendLine \/ ToggleStopScreen \/ UnstopAllWindows
           \/ \E b \in BOOLEAN : Clear(b) \/ SetHoldMode(b) \/ WindowHoldMode(b)
    BY <1>4, StepUser
<1>5. CASE ScrollBackwards \/ ScrollForwards \/ ScrollEnd \/ ScrollStart
    BY <1>5, StepScroll
<1>6. CASE UNCHANGED pagingVars
    BY <1>6 DEF PagingInv, pagingVars, Bounded
<1>7. QED BY <1>1, <1>2, <1>3, <1>4, <1>5, <1>6 DEF PagingNext

\* The invariant holds throughout.
LEMMA InvHolds ==
    PagingSpec => []PagingInv
BY InitHolds, StepHolds, PTL DEF PagingSpec

\* Lines are displayed in the order they were written and none is lost: what rite() and the
\* hold list do, for any window, any limit and any number of lines.
THEOREM LinesInOrder ==
    PagingSpec => []InOrder
<1>1. PagingInv => InOrder
    <2> SUFFICES ASSUME PagingInv PROVE InOrder
        OBVIOUS
    <2>1. win.queue \in Seq(Line)
        BY DEF PagingInv, PagedWindow
    <2>2. DOMAIN win.queue = 1 .. Len(win.queue)
        BY <2>1
    <2>3. QED BY <2>2 DEF PagingInv, Ordered, InOrder
<1>2. QED BY <1>1, InvHolds, PTL

\* The log of a window stays within LASTLOG if it is the current window whenever that is set:
\* what add_to_lastlog() and set_lastlog_size() do.
THEOREM LogIsBounded ==
    PagingSpec => []LogBounded
<1>1. PagingInv => LogBounded
    BY DEF PagingInv, Bounded, LogBounded
<1>2. QED BY <1>1, InvHolds, PTL

-----------------------------------------------------------------------------
\* How full the page is: line_cnt counts what was displayed since the user did something,
\* until it is a whole page, and then nothing is displayed.
PageInv ==
    /\ win.lineCnt < DisplaySize /\ page \in Nat
    /\ win.holdMode /\ holdModeMax = 0 =>
           /\ page <= DisplaySize
           /\ ~win.held /\ ~win.holdOnNextRite => page <= win.lineCnt

\* A hold list without a limit is never released by itself.
LEMMA AddToHoldListPage ==
    ASSUME NEW w \in PagedWindow, NEW line
    PROVE  LET v == AddToHoldList(w, line)
           IN  /\ v.lineCnt = w.lineCnt /\ v.holdMode = w.holdMode /\ v.holdOnNextRite = w.holdOnNextRite
               /\ holdModeMax = 0 => v.held = w.held
<1> DEFINE longer == [w EXCEPT !.queue = Append(@, line)]
<1>1. /\ longer.lineCnt = w.lineCnt /\ longer.holdMode = w.holdMode
      /\ longer.holdOnNextRite = w.holdOnNextRite /\ longer.held = w.held
    BY DEF PagedWindow
<1>2. QED BY <1>1 DEF AddToHoldList, HoldMode, PagedWindow

\* At the end of a page hold mode holds the window; otherwise rite() begins with nothing
\* that matters here.
LEMMA BegunPage ==
    ASSUME NEW w \in PagedWindow
    PROVE  LET v == Begun(w)
           IN  /\ v \in PagedWindow /\ v.lineCnt = w.lineCnt /\ v.holdMode = w.holdMode
               /\ PageEnds(w) => v.held
               /\ ~PageEnds(w) => v.held = w.held /\ v.holdOnNextRite = w.holdOnNextRite
<1> DEFINE counted == LineCounted(w)
           next == [counted EXCEPT !.holdOnNextRite = FALSE]
<1>1. /\ counted \in PagedWindow /\ counted.lineCnt = w.lineCnt /\ counted.holdMode = w.holdMode
      /\ counted.held = w.held /\ counted.holdOnNextRite = w.holdOnNextRite
    BY LineCountedSame
<1>2. Begun(w) = IF PageEnds(w) THEN [next EXCEPT !.held = TRUE] ELSE counted
    BY DEF Begun, HoldMode, LineCounted
<1> HIDE DEF counted
<1>3. LET v == [next EXCEPT !.held = TRUE]
      IN  v \in PagedWindow /\ v.lineCnt = w.lineCnt /\ v.holdMode = w.holdMode /\ v.held
    BY <1>1 DEF PagedWindow
<1>4. QED BY <1>1, <1>2, <1>3

\* A line is displayed in hold mode only within a page.
LEMMA DisplayedPage ==
    ASSUME NEW w \in PagedWindow, NEW line, NEW n \in Nat, w.lineCnt < DisplaySize
    PROVE  LET v == Displayed(w, line)
           IN  /\ v.lineCnt < DisplaySize /\ v.holdMode = w.holdMode /\ DOMAIN v = DOMAIN w
               /\ n <= w.lineCnt => n + 1 <= DisplaySize
               /\ n <= w.lineCnt /\ ~v.held /\ ~v.holdOnNextRite => n + 1 <= v.lineCnt
<1> DEFINE full == w.lineCnt + 1 >= DisplaySize
           added == AddDisplayLine(w, line)
           count == IF full THEN 0 ELSE added.lineCnt + 1
           hold == added.holdOnNextRite \/ full
           v == Displayed(w, line)
<1>1. v = [added EXCEPT !.lineCnt = count, !.holdOnNextRite = hold]
    BY DEF Displayed
<1>2. /\ added.lineCnt = w.lineCnt /\ added.holdMode = w.holdMode /\ added.held = w.held
      /\ DOMAIN added = DOMAIN w
    BY DEF AddDisplayLine, PagedWindow
<1> HIDE DEF added
<1>3. /\ count \in Nat /\ count < DisplaySize /\ w.lineCnt \in Nat /\ (~full => count = w.lineCnt + 1)
      /\ full => hold
    BY <1>2, DisplaySizeAssumption DEF PagedWindow
<1> HIDE DEF v, count, hold
<1>4. DOMAIN v = DOMAIN w /\ v.lineCnt = count /\ v.holdMode = w.holdMode /\ v.held = w.held /\ v.holdOnNextRite = hold
    BY <1>1, <1>2 DEF PagedWindow
<1>5. QED BY <1>2, <1>3, <1>4, DisplaySizeAssumption DEF v
\* What the user does begins a new count and leaves line_cnt alone or resets it.
LEMMA UserCount ==
    ASSUME PagingInv,
           \/ SendLine \/ ToggleStopScreen \/ UnstopAllWindows
           \/ \E b \in BOOLEAN : Clear(b) \/ SetHoldMode(b) \/ WindowHoldMode(b)
           \/ FlushHeld \/ \E size \in Lastlogs : SetLastlogSize(size)
           \/ ScrollBackwards \/ ScrollForwards \/ ScrollEnd \/ ScrollStart
    PROVE  win'.lineCnt \in {0, win.lineCnt} /\ page' = 0
<1>1. win \in PagedWindow
    BY DEF PagingInv
<1>2. LastlogLines \in Nat
    BY LinesCounted
<1>3. ASSUME NEW w \in PagedWindow, w.lineCnt \in {0, win.lineCnt}, NEW flag \in BOOLEAN
      PROVE  HoldMode(w, flag).lineCnt \in {0, win.lineCnt}
    BY <1>3 DEF HoldMode, PagedWindow
<1>4. CASE SendLine
    <2> DEFINE w == ResetHold(win)
    <2>1. w.lineCnt \in {0, win.lineCnt} /\ w \in PagedWindow
        BY <1>1 DEF ResetHold, PagedWindow
    <2>2. win' = HoldMode(w, FALSE) /\ page' = 0
        BY <1>4 DEF SendLine, Acts
    <2> HIDE DEF w
    <2>3. QED BY <1>3, <2>1, <2>2
<1>5. CASE ToggleStopScreen
    BY <1>1, <1>5 DEF ToggleStopScreen, Acts, PagedWindow
<1>6. CASE FlushHeld
    <2> DEFINE w == [win EXCEPT !.queue = <<>>]
    <2>1. w.lineCnt = win.lineCnt /\ w \in PagedWindow
        <3>1. <<>> \in Seq(Line)
            BY EmptySeq
        <3>2. QED BY <1>1, <3>1 DEF PagedWindow
    <2>2. win' = HoldMode(w, FALSE) /\ page' = 0
        BY <1>6 DEF FlushHeld, Acts
    <2> HIDE DEF w
    <2>3. QED BY <1>3, <2>1, <2>2
<1>7. ASSUME NEW b \in BOOLEAN, Clear(b) PROVE win'.lineCnt \in {0, win.lineCnt} /\ page' = 0
    <2> DEFINE u == IF b THEN HoldMode(win, FALSE) ELSE win
    <2>1. u \in PagedWindow
        BY <1>1, HoldModeSame
    <2>2. win' = EraseDisplay(u) /\ page' = 0
        BY <1>7 DEF Clear, Acts
    <2> HIDE DEF u
    <2>3. QED BY <2>1, <2>2, EraseDisplayFields
<1>8. ASSUME NEW b \in BOOLEAN, SetHoldMode(b) PROVE win'.lineCnt \in {0, win.lineCnt} /\ page' = 0
    BY <1>1, <1>8 DEF SetHoldMode, Acts, PagedWindow
<1>8a. ASSUME NEW b \in BOOLEAN, WindowHoldMode(b) PROVE win'.lineCnt \in {0, win.lineCnt} /\ page' = 0
    BY <1>1, <1>8a DEF WindowHoldMode, Acts, PagedWindow
<1>8b. CASE UnstopAllWindows
    BY <1>1, <1>3, <1>8b DEF UnstopAllWindows, Acts
<1>9. ASSUME NEW size \in Lastlogs, SetLastlogSize(size)
      PROVE  win'.lineCnt \in {0, win.lineCnt} /\ page' = 0
    BY <1>1, <1>9 DEF SetLastlogSize, Acts, PagedWindow
<1>10. ASSUME NEW s \in Nat, NEW n \in Nat
       PROVE  LET w == [win EXCEPT !.scrolled = s, !.newScrolled = n]
              IN  w.lineCnt = win.lineCnt /\ Paged(w).lineCnt \in {0, win.lineCnt}
    <2> DEFINE w == [win EXCEPT !.scrolled = s, !.newScrolled = n]
    <2>1. w.lineCnt = win.lineCnt /\ w \in PagedWindow /\ w.holdMode \in BOOLEAN
        BY <1>1 DEF PagedWindow
    <2> HIDE DEF w
    <2>2. Paged(w).lineCnt \in {0, win.lineCnt}
        BY <1>3, <2>1 DEF Paged
    <2>3. QED BY <2>1, <2>2 DEF w
<1>11. \A s : [win EXCEPT !.scrolled = s].lineCnt = win.lineCnt /\ [win EXCEPT !.newScrolled = s].lineCnt = win.lineCnt
    BY <1>1 DEF PagedWindow
<1>12. CASE ScrollEnd
    <2>1. CASE win.scrolled = 0
        BY <1>11, <1>12, <2>1 DEF ScrollEnd, Acts
    <2>2. CASE win.scrolled # 0
        BY <1>10, <1>12, <2>2 DEF ScrollEnd, ScrolledToEnd, Acts
    <2>3. QED BY <2>1, <2>2
<1>13. CASE ScrollStart
    <2>1. CASE LastlogLines < DisplaySize
        BY <1>11, <1>13, <2>1 DEF ScrollStart, BackBy, Acts
    <2>2. CASE ~(LastlogLines < DisplaySize)
        BY <1>2, <1>10, <1>13, <2>2 DEF ScrollStart, Acts
    <2>3. QED BY <2>1, <2>2
<1>14. CASE ScrollBackwards
    BY <1>11, <1>14 DEF ScrollBackwards, BackBy, Acts
<1>15. CASE ScrollForwards
    <2> DEFINE distance == DisplaySize \div 2
    <2>1. win' = ForwardBy(distance) /\ page' = 0
        BY <1>15 DEF ScrollForwards, Acts
    <2> HIDE DEF distance
    <2>2. CASE win.scrolled <= distance
        BY <1>10, <2>1, <2>2 DEF ForwardBy
    <2>3. CASE ~(win.scrolled <= distance)
        BY <1>11, <2>1, <2>3 DEF ForwardBy
    <2>4. QED BY <2>2, <2>3
<1>16. QED BY <1>4, <1>5, <1>6, <1>7, <1>8, <1>8a, <1>8b, <1>9, <1>12, <1>13, <1>14, <1>15

\* A new line is displayed only within a page.
LEMMA AddPage ==
    ASSUME PagingInv, PageInv, NEW logged \in BOOLEAN, AddToWindow(logged) PROVE PageInv'
<1> DEFINE line == [id |-> written + 1, logged |-> logged]
           log == IF logged THEN AddToLastlog(win.log, line) ELSE win.log
           w == [win EXCEPT !.log = log]
           begun == Begun(w)
<1>1. win \in PagedWindow /\ win.log \in Seq(Line) /\ lastlogMax \in Nat \ {0} /\ win.lineCnt < DisplaySize
      /\ page \in Nat /\ holdModeMax' = holdModeMax
    BY DEF PagingInv, PageInv, PagedWindow, AddToWindow
<1>2. log \in Seq(Line)
    <2>1. line \in Line
        BY MaxWrittenAssumption DEF PagingInv, AddToWindow, Line
    <2>2. QED BY <1>1, <2>1, AddToLastlogBounded
<1>3. IF MustHold(begun)
      THEN win' = AddToHoldList(begun, line) /\ page' = page
      ELSE win' = Displayed(begun, line) /\ page' = page + 1
    BY DEF AddToWindow, RiteNew, Shown
<1> HIDE DEF line, log
<1>4. /\ w \in PagedWindow /\ w.lineCnt = win.lineCnt /\ w.holdMode = win.holdMode /\ w.held = win.held
      /\ w.holdOnNextRite = win.holdOnNextRite
    BY <1>1, <1>2 DEF PagedWindow
<1> HIDE DEF w
<1>5. /\ begun \in PagedWindow /\ begun.lineCnt = w.lineCnt /\ begun.holdMode = w.holdMode
      /\ PageEnds(w) => begun.held
      /\ ~PageEnds(w) => begun.held = w.held /\ begun.holdOnNextRite = w.holdOnNextRite
    BY <1>4, BegunPage
<1> HIDE DEF begun
<1>6. CASE MustHold(begun)
    <2> DEFINE v == AddToHoldList(begun, line)
    <2>1. win' = v /\ page' = page
        BY <1>3, <1>6
    <2>2. /\ v.lineCnt = begun.lineCnt /\ v.holdMode = begun.holdMode
          /\ v.holdOnNextRite = begun.holdOnNextRite
          /\ holdModeMax = 0 => v.held = begun.held
        BY <1>5, AddToHoldListPage
    <2> HIDE DEF v
    <2>3. win'.lineCnt < DisplaySize /\ page' \in Nat
        BY <1>1, <1>4, <1>5, <2>1, <2>2
    <2>4. ASSUME win'.holdMode, holdModeMax = 0
          PROVE  page <= DisplaySize /\ (~win'.held /\ ~win'.holdOnNextRite => page <= win'.lineCnt)
        BY <1>4, <1>5, <2>1, <2>2, <2>4 DEF PageInv, PageEnds
    <2>5. QED BY <1>1, <2>1, <2>3, <2>4 DEF PageInv
<1>7. CASE ~MustHold(begun)
    <2> DEFINE v == Displayed(begun, line)
    <2>1. win' = v /\ page' = page + 1 /\ ~begun.held
        BY <1>3, <1>7 DEF MustHold, HoldOutput
    <2>2. /\ v.lineCnt < DisplaySize /\ v.holdMode = begun.holdMode
          /\ page <= begun.lineCnt => page + 1 <= DisplaySize
          /\ page <= begun.lineCnt /\ ~v.held /\ ~v.holdOnNextRite => page + 1 <= v.lineCnt
        BY <1>1, <1>4, <1>5, DisplayedPage
    <2> HIDE DEF v
    <2>3. ASSUME win'.holdMode, holdModeMax = 0 PROVE page <= begun.lineCnt
        BY <1>4, <1>5, <2>1, <2>2, <2>3 DEF PageInv, PageEnds
    <2>4. QED BY <1>1, <2>1, <2>2, <2>3 DEF PageInv
<1>8. QED BY <1>6, <1>7

\* A line of the hold list is displayed only within a page.
LEMMA UnholdPage ==
    ASSUME PagingInv, PageInv, UnholdWindows PROVE PageInv'
<1> DEFINE begun == Begun(win)
           line == Head(win.queue)
           v == Displayed(begun, line)
<1>1. /\ win \in PagedWindow /\ win.queue \in Seq(Line) /\ win.queue # <<>> /\ win.lineCnt < DisplaySize
      /\ page \in Nat /\ holdModeMax' = holdModeMax /\ ~win.held
    BY DEF PagingInv, PageInv, PagedWindow, UnholdWindows, HoldOutput
<1>2. /\ IF PageEnds(win) THEN win' = begun /\ page' = page
         ELSE win' = [v EXCEPT !.queue = Tail(@)] /\ page' = page + 1
    BY DEF UnholdWindows, Shown
<1>3. /\ begun \in PagedWindow /\ begun.lineCnt = win.lineCnt /\ begun.holdMode = win.holdMode
      /\ begun.queue = win.queue
      /\ PageEnds(win) => begun.held
      /\ ~PageEnds(win) => begun.held = win.held /\ begun.holdOnNextRite = win.holdOnNextRite
    BY <1>1, BegunPage, BegunSame DEF Same
<1> HIDE DEF begun
<1>4. CASE PageEnds(win)
    BY <1>1, <1>2, <1>3, <1>4 DEF PageInv
<1>5. CASE ~PageEnds(win)
    <2>1. /\ v.lineCnt < DisplaySize /\ v.holdMode = begun.holdMode /\ DOMAIN v = DOMAIN begun
          /\ page <= begun.lineCnt => page + 1 <= DisplaySize
          /\ page <= begun.lineCnt /\ ~v.held /\ ~v.holdOnNextRite => page + 1 <= v.lineCnt
        BY <1>1, <1>3, DisplayedPage
    <2> HIDE DEF v
    <2>2. /\ win'.lineCnt = v.lineCnt /\ win'.holdMode = v.holdMode /\ win'.held = v.held
          /\ win'.holdOnNextRite = v.holdOnNextRite
        BY <1>2, <1>3, <1>5, <2>1 DEF PagedWindow
    <2>3. ASSUME win'.holdMode, holdModeMax = 0 PROVE page <= begun.lineCnt
        BY <1>1, <1>3, <1>5, <2>1, <2>2, <2>3 DEF PageInv, PageEnds
    <2>4. QED BY <1>1, <1>2, <1>5, <2>1, <2>2, <2>3 DEF PageInv
<1>6. QED BY <1>4, <1>5

\* In hold mode without a limit no line scrolls off the window before the user has done
\* something: what rite() does with line_cnt, hold_on_next_rite and the hold list.
THEOREM PagesAreSeen ==
    PagingSpec => []PageAtMost
<1>1. PagingInit => PageInv
    <2> SUFFICES ASSUME PagingInit PROVE PageInv
        OBVIOUS
    <2>1. win.lineCnt = 0 /\ page = 0
        BY DEF PagingInit
    <2>2. QED BY <2>1, DisplaySizeAssumption DEF PageInv
<1>2. PagingInv /\ PageInv /\ [PagingNext]_pagingVars => PageInv'
    <2> SUFFICES ASSUME PagingInv, PageInv, [PagingNext]_pagingVars PROVE PageInv'
        OBVIOUS
    <2>1. ASSUME NEW logged \in BOOLEAN, AddToWindow(logged) PROVE PageInv'
        BY <2>1, AddPage
    <2>2. CASE UnholdWindows
        BY <2>2, UnholdPage
    <2>3. ASSUME win'.lineCnt \in {0, win.lineCnt} /\ page' = 0 PROVE PageInv'
        <3>1. win.lineCnt \in Nat
            BY DEF PagingInv, PagedWindow
        <3>2. QED BY <2>3, <3>1, DisplaySizeAssumption DEF PageInv
    <2>4. CASE \/ SendLine \/ ToggleStopScreen \/ UnstopAllWindows
               \/ \E b \in BOOLEAN : Clear(b) \/ SetHoldMode(b) \/ WindowHoldMode(b)
               \/ FlushHeld \/ \E size \in Lastlogs : SetLastlogSize(size)
               \/ ScrollBackwards \/ ScrollForwards \/ ScrollEnd \/ ScrollStart
        BY <2>3, <2>4, UserCount
    <2>5. CASE UNCHANGED pagingVars
        BY <2>5 DEF PageInv, pagingVars
    <2>6. QED BY <2>1, <2>2, <2>4, <2>5 DEF PagingNext
<1>3. PageInv => PageAtMost
    BY DEF PageInv, PageAtMost
<1>4. QED BY <1>1, <1>2, <1>3, InvHolds, PTL DEF PagingSpec

-----------------------------------------------------------------------------
\* The rows in use are the first ones: an AddDisplayLine() goes behind them, scrolls them, or
\* erase_display() frees them all.
InUse(w) == \A i \in 1 .. DisplaySize : w.display[i].id # 0 <=> i <= w.cursor
SameRows(v, w) == v.display = w.display /\ v.cursor = w.cursor

LEMMA DisplayedInUse ==
    ASSUME NEW w \in PagedWindow, NEW line \in Line, InUse(w)
    PROVE  InUse(Displayed(w, line))
<1> DEFINE v == AddDisplayLine(w, line)
<1>1. /\ w.display \in [1 .. DisplaySize -> Row] /\ w.cursor \in 0 .. DisplaySize
      /\ DisplaySize \in Nat \ {0} /\ line.id # 0
    BY DisplaySizeAssumption, MaxWrittenAssumption DEF PagedWindow, Line
<1>2. SameRows(Displayed(w, line), v)
    BY DEF Displayed, AddDisplayLine, PagedWindow, SameRows
<1>3. InUse(v)
    <2>1. CASE w.cursor = DisplaySize
        <3> DEFINE display == [i \in 1 .. DisplaySize |-> IF i < DisplaySize THEN w.display[i + 1] ELSE line]
        <3>1. v.display = display /\ v.cursor = DisplaySize
            BY <2>1 DEF AddDisplayLine, PagedWindow
        <3>2. ASSUME NEW i \in 1 .. DisplaySize PROVE display[i].id # 0 /\ i <= DisplaySize
            <4>1. CASE i < DisplaySize
                <5>1. i + 1 \in 1 .. DisplaySize /\ i + 1 <= w.cursor
                    BY <1>1, <2>1, <4>1
                <5>2. w.display[i + 1].id # 0
                    BY <5>1 DEF InUse
                <5>3. QED BY <1>1, <4>1, <5>2
            <4>2. CASE ~(i < DisplaySize)
                BY <1>1, <4>2
            <4>3. QED BY <4>1, <4>2
        <3> HIDE DEF display, v
        <3>3. QED BY <3>1, <3>2 DEF InUse
    <2>2. CASE w.cursor # DisplaySize
        <3> DEFINE c == w.cursor + 1
                   display == [w.display EXCEPT ![c] = line]
        <3>1. v.display = display /\ v.cursor = c
            BY <2>2 DEF AddDisplayLine, PagedWindow
        <3>2. \A i \in 1 .. DisplaySize : display[i] = IF i = c THEN line ELSE w.display[i]
            BY <1>1
        <3>3. \A i \in 1 .. DisplaySize : i <= c <=> i = c \/ i <= w.cursor
            BY <1>1
        <3> HIDE DEF display, c, v
        <3>4. QED BY <1>1, <3>1, <3>2, <3>3 DEF InUse
    <2>3. QED BY <2>1, <2>2
<1> HIDE DEF v
<1>4. QED BY <1>2, <1>3 DEF InUse, SameRows

\* rite() shows a line or puts it behind those that are held.
LEMMA RiteRows ==
    ASSUME PagingInv, InUse(win), UnholdWindows \/ \E logged \in BOOLEAN : AddToWindow(logged)
    PROVE  InUse(win')
<1>1. win \in PagedWindow
    BY DEF PagingInv
<1>2. CASE UnholdWindows
    <2> DEFINE begun == Begun(win)
               line == Head(win.queue)
               v == Displayed(begun, line)
    <2>1. IF PageEnds(win) THEN win' = begun ELSE win' = [v EXCEPT !.queue = Tail(@)]
        BY <1>2 DEF UnholdWindows
    <2>2. begun \in PagedWindow /\ Same(begun, win)
        BY <1>1, BegunSame
    <2>3. line \in Line
        <3>1. win.queue \in Seq(Line) /\ win.queue # <<>>
            BY <1>1, <1>2 DEF UnholdWindows, PagedWindow
        <3>2. QED BY <3>1
    <2>4. InUse(begun)
        BY <2>2 DEF Same, InUse
    <2> HIDE DEF begun, line
    <2>5. InUse(v)
        BY <2>2, <2>3, <2>4, DisplayedInUse
    <2>6. [v EXCEPT !.queue = Tail(@)].display = v.display /\ [v EXCEPT !.queue = Tail(@)].cursor = v.cursor
        <3>1. v.display = v.display
            OBVIOUS
        <3>2. \A f : [v EXCEPT !.queue = f].display = v.display /\ [v EXCEPT !.queue = f].cursor = v.cursor
            BY <2>2, <2>3 DEF Displayed, AddDisplayLine, PagedWindow
        <3>3. QED BY <3>2
    <2> HIDE DEF v
    <2>7. QED BY <2>1, <2>4, <2>5, <2>6 DEF InUse
<1>3. ASSUME NEW logged \in BOOLEAN, AddToWindow(logged) PROVE InUse(win')
    <2> DEFINE line == [id |-> written + 1, logged |-> logged]
               log == IF logged THEN AddToLastlog(win.log, line) ELSE win.log
               w == [win EXCEPT !.log = log]
               begun == Begun(w)
    <2>1. line \in Line /\ win.log \in Seq(Line) /\ lastlogMax \in Nat \ {0}
        BY <1>3, MaxWrittenAssumption DEF PagingInv, AddToWindow, Line, PagedWindow
    <2>2. RiteNew(w, line)
        BY <1>3 DEF AddToWindow
    <2> HIDE DEF line
    <2>3. log \in Seq(Line)
        BY <2>1, AddToLastlogBounded
    <2> HIDE DEF log
    <2>4. w \in PagedWindow /\ SameRows(w, win)
        BY <1>1, <2>3 DEF PagedWindow, SameRows
    <2> HIDE DEF w
    <2>5. begun \in PagedWindow /\ Same(begun, w)
        BY <2>4, BegunSame
    <2>6. InUse(begun)
        BY <2>4, <2>5 DEF Same, SameRows, InUse
    <2>7. win' = AddToHoldList(begun, line) \/ win' = Displayed(begun, line)
        BY <2>2 DEF RiteNew
    <2> HIDE DEF begun
    <2>8. SameRows(AddToHoldList(begun, line), begun)
        BY <2>5 DEF AddToHoldList, HoldMode, PagedWindow, SameRows
    <2>9. InUse(Displayed(begun, line))
        BY <2>1, <2>5, <2>6, DisplayedInUse
    <2>10. QED BY <2>6, <2>7, <2>8, <2>9 DEF InUse, SameRows
<1>4. QED BY <1>2, <1>3

\* What the user does leaves the rows alone, or clears them all.
LEMMA UserRows ==
    ASSUME PagingInv, InUse(win),
           \/ SendLine \/ ToggleStopScreen \/ UnstopAllWindows
           \/ \E b \in BOOLEAN : Clear(b) \/ SetHoldMode(b) \/ WindowHoldMode(b)
           \/ FlushHeld \/ \E size \in Lastlogs : SetLastlogSize(size)
           \/ ScrollBackwards \/ ScrollForwards \/ ScrollEnd \/ ScrollStart
    PROVE  InUse(win')
<1>1. win \in PagedWindow
    BY DEF PagingInv
<1>2. LastlogLines \in Nat
    BY LinesCounted
<1>3. SUFFICES ASSUME ~\E b \in BOOLEAN : Clear(b) PROVE SameRows(win', win)
    <2>1. ASSUME NEW b \in BOOLEAN, Clear(b) PROVE InUse(win')
        <3> DEFINE u == IF b THEN HoldMode(win, FALSE) ELSE win
                   rows == [i \in 1 .. DisplaySize |-> [u.display[i] EXCEPT !.id = 0]]
        <3>1. u \in PagedWindow
            BY <1>1, HoldModeSame
        <3>2. win' = EraseDisplay(u)
            BY <2>1 DEF Clear, Acts
        <3> HIDE DEF u
        <3>3. win'.display = rows /\ win'.cursor = 0
            BY <3>1, <3>2 DEF EraseDisplay, PagedWindow
        <3>4. \A i \in 1 .. DisplaySize : rows[i].id = 0
            <4>1. u.display \in [1 .. DisplaySize -> Row]
                BY <3>1 DEF PagedWindow
            <4>2. \A row \in Row : [row EXCEPT !.id = 0].id = 0
                BY DEF Row
            <4>3. QED BY <4>1, <4>2
        <3> HIDE DEF rows
        <3>5. \A i \in 1 .. DisplaySize : ~(i <= 0)
            BY DisplaySizeAssumption
        <3>6. QED BY <3>3, <3>4, <3>5 DEF InUse
    <2>2. SameRows(win', win) => InUse(win')
        BY DEF SameRows, InUse
    <2>3. QED BY <2>1, <2>2
<1>4. \A w \in PagedWindow, flag \in BOOLEAN : SameRows(HoldMode(w, flag), w)
    BY DEF HoldMode, PagedWindow, SameRows
<1>5. CASE SendLine
    <2> DEFINE w == ResetHold(win)
    <2>1. SameRows(w, win) /\ w \in PagedWindow
        BY <1>1 DEF ResetHold, PagedWindow, SameRows
    <2>2. win' = HoldMode(w, FALSE)
        BY <1>5 DEF SendLine, Acts
    <2> HIDE DEF w
    <2>3. QED BY <1>4, <2>1, <2>2 DEF SameRows
<1>6. CASE ToggleStopScreen
    BY <1>1, <1>6 DEF ToggleStopScreen, Acts, PagedWindow, SameRows
<1>7. CASE UnstopAllWindows
    BY <1>1, <1>4, <1>7 DEF UnstopAllWindows, Acts
<1>8. ASSUME NEW b \in BOOLEAN, SetHoldMode(b) \/ WindowHoldMode(b) PROVE SameRows(win', win)
    BY <1>1, <1>8 DEF SetHoldMode, WindowHoldMode, Acts, PagedWindow, SameRows
<1>9. CASE FlushHeld
    <2> DEFINE w == [win EXCEPT !.queue = <<>>]
    <2>1. SameRows(w, win) /\ w \in PagedWindow
        <3>1. <<>> \in Seq(Line)
            BY EmptySeq
        <3>2. QED BY <1>1, <3>1 DEF PagedWindow, SameRows
    <2>2. win' = HoldMode(w, FALSE)
        BY <1>9 DEF FlushHeld, Acts
    <2> HIDE DEF w
    <2>3. QED BY <1>4, <2>1, <2>2 DEF SameRows
<1>10. ASSUME NEW size \in Lastlogs, SetLastlogSize(size) PROVE SameRows(win', win)
    BY <1>1, <1>10 DEF SetLastlogSize, Acts, PagedWindow, SameRows
<1>11. ASSUME NEW s \in Nat, NEW n \in Nat
       PROVE  LET w == [win EXCEPT !.scrolled = s, !.newScrolled = n]
              IN  SameRows(w, win) /\ SameRows(Paged(w), win)
    BY ScrolledSame DEF Same, SameRows
<1>12. \A s : SameRows([win EXCEPT !.scrolled = s], win) /\ SameRows([win EXCEPT !.newScrolled = s], win)
    BY <1>1 DEF PagedWindow, SameRows
<1>13. CASE ScrollEnd
    <2>1. CASE win.scrolled = 0
        BY <1>12, <1>13, <2>1 DEF ScrollEnd, Acts
    <2>2. CASE win.scrolled # 0
        BY <1>11, <1>13, <2>2 DEF ScrollEnd, ScrolledToEnd, Acts
    <2>3. QED BY <2>1, <2>2
<1>14. CASE ScrollStart
    <2>1. CASE LastlogLines < DisplaySize
        BY <1>12, <1>14, <2>1 DEF ScrollStart, BackBy, Acts
    <2>2. CASE ~(LastlogLines < DisplaySize)
        BY <1>2, <1>11, <1>14, <2>2 DEF ScrollStart, Acts
    <2>3. QED BY <2>1, <2>2
<1>15. CASE ScrollBackwards
    BY <1>12, <1>15 DEF ScrollBackwards, BackBy, Acts
<1>16. CASE ScrollForwards
    <2> DEFINE distance == DisplaySize \div 2
    <2>1. win' = ForwardBy(distance)
        BY <1>16 DEF ScrollForwards, Acts
    <2> HIDE DEF distance
    <2>2. CASE win.scrolled <= distance
        BY <1>11, <2>1, <2>2 DEF ForwardBy
    <2>3. CASE ~(win.scrolled <= distance)
        BY <1>12, <2>1, <2>3 DEF ForwardBy
    <2>4. QED BY <2>2, <2>3
<1>17. QED BY <1>3, <1>5, <1>6, <1>7, <1>8, <1>9, <1>10, <1>13, <1>14, <1>15, <1>16

\* Every variable keeps its type, and the rows of the window that have a line are the first ones.
THEOREM TypesHold ==
    PagingSpec => []PagingTypeOK
<1> DEFINE Inv == InUse(win) /\ holdModeMax \in HoldModeMaxes /\ page \in Nat
<1>1. PagingInit => Inv
    <2> SUFFICES ASSUME PagingInit PROVE Inv
        OBVIOUS
    <2>1. win.cursor = 0 /\ win.display \in [1 .. DisplaySize -> {[id |-> 0, logged |-> FALSE]}]
        BY DEF PagingInit
    <2>2. \A i \in 1 .. DisplaySize : win.display[i].id = 0 /\ ~(i <= 0)
        BY <2>1, DisplaySizeAssumption
    <2>3. QED BY <2>1, <2>2 DEF PagingInit, InUse
<1>2. PagingInv /\ Inv /\ [PagingNext]_pagingVars => Inv'
    <2> SUFFICES ASSUME PagingInv, Inv, [PagingNext]_pagingVars PROVE Inv'
        OBVIOUS
    <2> USE DEF Inv
    <2>1. CASE UnholdWindows \/ \E logged \in BOOLEAN : AddToWindow(logged)
        <3>1. InUse(win)'
            BY <2>1, RiteRows DEF InUse
        <3>2. holdModeMax' = holdModeMax /\ page' \in {page, page + 1}
            BY <2>1 DEF UnholdWindows, AddToWindow, RiteNew, Shown
        <3>3. QED BY <3>1, <3>2
    <2>2. CASE \/ SendLine \/ ToggleStopScreen \/ UnstopAllWindows
               \/ \E b \in BOOLEAN : Clear(b) \/ SetHoldMode(b) \/ WindowHoldMode(b)
               \/ FlushHeld \/ \E size \in Lastlogs : SetLastlogSize(size)
               \/ ScrollBackwards \/ ScrollForwards \/ ScrollEnd \/ ScrollStart
        <3>1. InUse(win)'
            BY <2>2, UserRows DEF InUse
        <3>2. holdModeMax' = holdModeMax /\ page' = 0
            BY <2>2 DEF Acts, SendLine, ToggleStopScreen, UnstopAllWindows, Clear, SetHoldMode, WindowHoldMode,
                        FlushHeld, SetLastlogSize, ScrollBackwards, ScrollForwards, ScrollEnd, ScrollStart
        <3>3. QED BY <3>1, <3>2
    <2>3. CASE UNCHANGED pagingVars
        BY <2>3 DEF pagingVars, InUse
    <2>4. QED BY <2>1, <2>2, <2>3 DEF PagingNext
<1>3. PagingInv /\ Inv => PagingTypeOK
    BY MaxWrittenAssumption DEF PagingInv, PagingTypeOK, InUse
<1> HIDE DEF Inv
<1>4. QED BY <1>1, <1>2, <1>3, InvHolds, PTL DEF PagingSpec

\* Between add_to_window() and the display no line is lost or overtaken, a page waits for the
\* user, and the log keeps to its size (output.c, hold.c, lastlog.c).
THEOREM DisplayIsKept ==
    PagingSpec => []DisplayHolds
<1>1. PagingTypeOK /\ InOrder /\ PageAtMost /\ LogBounded => DisplayHolds
    BY DEF DisplayHolds
<1>2. QED BY <1>1, TypesHold, LinesInOrder, PagesAreSeen, LogIsBounded, PTL

-----------------------------------------------------------------------------
\* What a careful user relies on when he scrolls back.  The display ends with the last line
\* shown, the log is all that was written, and new_scrolled_lines counts the hold list.
EndsWith(w, u) ==
    /\ w.cursor <= u
    /\ \A i \in 1 .. w.cursor : w.display[i].id = u - w.cursor + i /\ w.display[i].logged

AllLogged(log, n) ==
    Len(log) = n /\ \A k \in 1 .. n : log[k].id = n - k + 1 /\ log[k].logged

QueueLogged(queue) == \A i \in 1 .. Len(queue) : queue[i].logged

CountedSince(w) ==
    /\ w.scrolled = 0 => w.newScrolled = 0
    /\ w.scrolled # 0 => w.newScrolled = Len(w.queue)

BackInv ==
    pagingEnv.careful =>
        /\ lastlogMax > MaxWritten /\ AllLogged(win.log, written)
        /\ QueueLogged(win.queue) /\ EndsWith(win, shownUpTo) /\ CountedSince(win)

\* hold_mode() and reset_hold() do not scroll.
LEMMA HoldModeStays ==
    ASSUME NEW w \in PagedWindow, NEW flag \in BOOLEAN
    PROVE  /\ HoldMode(w, flag).scrolled = w.scrolled /\ HoldMode(w, flag).newScrolled = w.newScrolled
           /\ ResetHold(w).scrolled = w.scrolled /\ ResetHold(w).newScrolled = w.newScrolled
BY DEF HoldMode, ResetHold, PagedWindow

\* rite() counts a new line as new while the window is scrolled back.
LEMMA BegunCounts ==
    ASSUME NEW w \in PagedWindow
    PROVE  LET v == Begun(w)
           IN  /\ v.scrolled = w.scrolled
               /\ v.newScrolled = w.newScrolled + IF w.scrolled # 0 THEN 1 ELSE 0
<1> DEFINE counted == LineCounted(w)
           next == [counted EXCEPT !.holdOnNextRite = FALSE]
<1>1. /\ counted \in PagedWindow /\ counted.scrolled = w.scrolled
      /\ counted.newScrolled = w.newScrolled + IF w.scrolled # 0 THEN 1 ELSE 0
    <2>1. w.newScrolled \in Nat
        BY DEF PagedWindow
    <2> HIDE DEF counted
    <2>2. QED BY <2>1, LineCountedSame DEF counted
<1>2. Begun(w) = IF PageEnds(w) THEN HoldMode(next, TRUE) ELSE counted
    BY DEF Begun, LineCounted
<1> HIDE DEF counted
<1>3. next \in PagedWindow /\ next.scrolled = counted.scrolled /\ next.newScrolled = counted.newScrolled
    BY <1>1 DEF PagedWindow
<1> HIDE DEF next
<1>4. QED BY <1>1, <1>2, <1>3, HoldModeStays

\* A line put at the end of the display is its last one.
LEMMA DisplayedEnds ==
    ASSUME NEW w \in PagedWindow, NEW u \in Nat, NEW line \in Line, line.id = u + 1, line.logged,
           EndsWith(w, u)
    PROVE  LET v == Displayed(w, line)
           IN  /\ EndsWith(v, u + 1) /\ DOMAIN v = DOMAIN w
               /\ v.scrolled = w.scrolled /\ v.newScrolled = w.newScrolled
<1> DEFINE added == AddDisplayLine(w, line)
           full == w.lineCnt + 1 >= DisplaySize
           count == IF full THEN 0 ELSE added.lineCnt + 1
           hold == added.holdOnNextRite \/ full
           v == Displayed(w, line)
<1>1. /\ w.display \in [1 .. DisplaySize -> Row] /\ w.cursor \in 0 .. DisplaySize
      /\ DisplaySize \in Nat \ {0}
    BY DisplaySizeAssumption DEF PagedWindow
<1>2. /\ EndsWith(added, u + 1) /\ DOMAIN added = DOMAIN w
      /\ added.scrolled = w.scrolled /\ added.newScrolled = w.newScrolled
    <2>1. CASE w.cursor = DisplaySize
        <3> DEFINE display == [i \in 1 .. DisplaySize |-> IF i < DisplaySize THEN w.display[i + 1] ELSE line]
        <3>1. \A i \in 1 .. DisplaySize : display[i] = IF i < DisplaySize THEN w.display[i + 1] ELSE line
            OBVIOUS
        <3>2. added = [w EXCEPT !.display = display]
            BY <2>1 DEF AddDisplayLine
        <3> HIDE DEF display, added
        <3>3. /\ added.display = display /\ added.cursor = DisplaySize /\ DOMAIN added = DOMAIN w
              /\ added.scrolled = w.scrolled /\ added.newScrolled = w.newScrolled
            BY <2>1, <3>2 DEF PagedWindow
        <3>4. \A i \in 1 .. DisplaySize : i < DisplaySize => i + 1 \in 1 .. DisplaySize
            BY <1>1
        <3>5. \A i \in 1 .. DisplaySize : display[i].id = u + 1 - DisplaySize + i /\ display[i].logged
            <4>1. TAKE i \in 1 .. DisplaySize
            <4>2. CASE i < DisplaySize
                <5>1. display[i] = w.display[i + 1] /\ i + 1 \in 1 .. w.cursor
                    BY <2>1, <3>1, <3>4, <4>2
                <5>2. w.display[i + 1].id = u - w.cursor + (i + 1) /\ w.display[i + 1].logged
                    BY <5>1 DEF EndsWith
                <5>3. u - DisplaySize + (i + 1) = u + 1 - DisplaySize + i
                    BY <1>1
                <5>4. QED BY <2>1, <5>1, <5>2, <5>3
            <4>3. CASE ~(i < DisplaySize)
                BY <1>1, <3>1, <4>3
            <4>4. QED BY <4>2, <4>3
        <3>6. QED BY <1>1, <2>1, <3>3, <3>5 DEF EndsWith
    <2>2. CASE w.cursor # DisplaySize
        <3> DEFINE c == w.cursor + 1
                   display == [w.display EXCEPT ![c] = line]
        <3>1. c \in 1 .. DisplaySize /\ w.cursor = c - 1
            BY <1>1, <2>2
        <3>2. added = [w EXCEPT !.display = display, !.cursor = c]
            BY <2>2 DEF AddDisplayLine
        <3> HIDE DEF c
        <3>3. display[c] = line /\ \A i \in 1 .. DisplaySize : i # c => display[i] = w.display[i]
            BY <1>1, <3>1
        <3> HIDE DEF display, added
        <3>4. /\ added.display = display /\ added.cursor = c /\ DOMAIN added = DOMAIN w
              /\ added.scrolled = w.scrolled /\ added.newScrolled = w.newScrolled
            BY <3>2 DEF PagedWindow
        <3>5. \A i \in 1 .. c : i \in 1 .. DisplaySize /\ (i # c => i \in 1 .. w.cursor)
            BY <1>1, <3>1
        <3>6. \A i \in 1 .. c : display[i].id = u + 1 - c + i /\ display[i].logged
            <4>1. TAKE i \in 1 .. c
            <4>2. CASE i = c
                BY <3>1, <3>3, <4>2
            <4>3. CASE i # c
                BY <3>1, <3>3, <3>5, <4>3 DEF EndsWith
            <4>4. QED BY <4>2, <4>3
        <3>7. QED BY <3>1, <3>4, <3>6 DEF EndsWith
    <2>3. QED BY <2>1, <2>2
<1>3. v = [added EXCEPT !.lineCnt = count, !.holdOnNextRite = hold]
    BY DEF Displayed
<1> HIDE DEF added, count, hold
<1>4. DOMAIN w = {"holdMode", "held", "holdOnNextRite", "lineCnt", "scrolled", "newScrolled",
                  "queue", "log", "display", "cursor"}
    BY DEF PagedWindow
<1> HIDE DEF v
<1>5. /\ DOMAIN v = DOMAIN added /\ v.cursor = added.cursor /\ v.display = added.display
      /\ v.scrolled = added.scrolled /\ v.newScrolled = added.newScrolled
    BY <1>2, <1>3, <1>4
<1>6. QED BY <1>2, <1>5 DEF EndsWith, v

\* While LASTLOG is not reached, add_to_lastlog() puts the line before all others.
LEMMA AddToLastlogAll ==
    ASSUME NEW log \in Seq(Line), NEW line \in Line, NEW n \in Nat, line.id = n + 1, line.logged,
           AllLogged(log, n), lastlogMax # n
    PROVE  AllLogged(AddToLastlog(log, line), n + 1)
<1>1. <<line>> \in Seq(Line) /\ Len(<<line>>) = 1 /\ Len(log) = n /\ <<line>>[1] = line
    BY DEF AllLogged
<1>2. AddToLastlog(log, line) = <<line>> \o log
    BY <1>1 DEF AddToLastlog
<1> DEFINE all == <<line>> \o log
<1>3. /\ Len(all) = n + 1
      /\ \A k \in 1 .. n + 1 : all[k] = IF k <= 1 THEN <<line>>[k] ELSE log[k - 1]
    BY <1>1, ConcatProperties
<1> HIDE DEF all
<1>4. \A k \in 1 .. n + 1 : all[k].id = (n + 1) - k + 1 /\ all[k].logged
    <2>1. TAKE k \in 1 .. n + 1
    <2>2. CASE k = 1
        BY <1>1, <1>3, <2>2
    <2>3. CASE k # 1
        <3>1. k - 1 \in 1 .. n /\ all[k] = log[k - 1]
            BY <1>3, <2>3
        <3>2. QED BY <3>1 DEF AllLogged
    <2>4. QED BY <2>2, <2>3
<1>5. QED BY <1>2, <1>3, <1>4 DEF AllLogged, all

\* What the invariant says of a careful user's window
Back(w, u, n) ==
    AllLogged(w.log, n) /\ QueueLogged(w.queue) /\ EndsWith(w, u) /\ CountedSince(w)

\* add_to_window() keeps it: a line that is held is counted if the window is scrolled back.
LEMMA BackAdd ==
    ASSUME PagingInv, BackInv, NEW logged \in BOOLEAN, AddToWindow(logged) PROVE BackInv'
<1> SUFFICES ASSUME pagingEnv.careful PROVE Back(win', shownUpTo', written')
    BY DEF BackInv, Back, AddToWindow
<1> DEFINE line == [id |-> written + 1, logged |-> logged]
           log == IF logged THEN AddToLastlog(win.log, line) ELSE win.log
           w == [win EXCEPT !.log = log]
           begun == Begun(w)
<1>1. /\ win \in PagedWindow /\ win.log \in Seq(Line) /\ lastlogMax \in Nat \ {0}
      /\ written \in Nat /\ written < MaxWritten /\ shownUpTo \in Nat /\ logged
      /\ Len(win.queue) = written - shownUpTo
      /\ lastlogMax > MaxWritten /\ Back(win, shownUpTo, written) /\ written' = written + 1
    BY DEF PagingInv, BackInv, Back, PagedWindow, AddToWindow, Ordered
<1>2. line \in Line /\ line.id = written + 1 /\ line.logged
    BY <1>1, MaxWrittenAssumption DEF Line
<1>3. IF MustHold(begun)
      THEN win' = AddToHoldList(begun, line) /\ shownUpTo' = shownUpTo
      ELSE win' = Displayed(begun, line) /\ shownUpTo' = line.id
    BY DEF AddToWindow, RiteNew, Shown
<1> HIDE DEF line
<1>4. log \in Seq(Line) /\ AllLogged(log, written + 1)
    <2>1. lastlogMax # written
        BY <1>1, MaxWrittenAssumption
    <2>2. QED BY <1>1, <1>2, <2>1, AddToLastlogAll, AddToLastlogBounded DEF Back
<1> HIDE DEF log
<1>5. /\ w \in PagedWindow /\ w.queue = win.queue /\ w.log = log /\ w.display = win.display
      /\ w.cursor = win.cursor /\ w.scrolled = win.scrolled /\ w.newScrolled = win.newScrolled
    BY <1>1, <1>4 DEF PagedWindow
<1> HIDE DEF w
<1>6. /\ begun \in PagedWindow /\ begun.queue = win.queue /\ begun.log = log /\ begun.display = win.display
      /\ begun.cursor = win.cursor /\ begun.scrolled = win.scrolled
      /\ begun.newScrolled = win.newScrolled + IF win.scrolled # 0 THEN 1 ELSE 0
    BY <1>5, BegunSame, BegunCounts DEF Same
<1> HIDE DEF begun
<1>7. win.newScrolled \in Nat /\ win.scrolled \in Nat /\ win.queue \in Seq(Line)
    BY <1>1 DEF PagedWindow
<1>8. EndsWith(begun, shownUpTo)
    BY <1>1, <1>6 DEF Back, EndsWith
<1>9. CASE MustHold(begun)
    <2> DEFINE longer == [begun EXCEPT !.queue = Append(@, line)]
               v == AddToHoldList(begun, line)
    <2>1. /\ Append(win.queue, line) \in Seq(Line) /\ Len(Append(win.queue, line)) = Len(win.queue) + 1
          /\ \A i \in 1 .. Len(win.queue) : Append(win.queue, line)[i] = win.queue[i]
          /\ Append(win.queue, line)[Len(win.queue) + 1] = line
        BY <1>2, <1>7, AppendProperties
    <2>2. /\ longer \in PagedWindow /\ longer.queue = Append(win.queue, line) /\ longer.log = log
          /\ longer.display = begun.display /\ longer.cursor = begun.cursor
          /\ longer.scrolled = begun.scrolled /\ longer.newScrolled = begun.newScrolled
        BY <1>6, <2>1 DEF PagedWindow
    <2>3. v \in {longer, HoldMode(longer, FALSE)}
        BY DEF AddToHoldList
    <2> HIDE DEF longer, v
    <2>4. /\ v.queue = Append(win.queue, line) /\ v.log = log
          /\ v.display = begun.display /\ v.cursor = begun.cursor
          /\ v.scrolled = begun.scrolled /\ v.newScrolled = begun.newScrolled
        <3>1. CASE v = longer
            BY <2>2, <3>1
        <3>2. CASE v = HoldMode(longer, FALSE)
            <4>1. Same(v, longer)
                BY <2>2, <3>2, HoldModeSame
            <4>2. v.scrolled = longer.scrolled /\ v.newScrolled = longer.newScrolled
                BY <2>2, <3>2, HoldModeStays
            <4>3. QED BY <2>2, <4>1, <4>2 DEF Same
        <3>3. QED BY <2>3, <3>1, <3>2
    <2>5. QueueLogged(v.queue)
        <3>1. QueueLogged(win.queue)
            BY <1>1 DEF Back
        <3>2. QED BY <1>2, <1>7, <2>1, <2>4, <3>1 DEF QueueLogged
    <2>6. EndsWith(v, shownUpTo)
        BY <1>8, <2>4 DEF EndsWith
    <2>7. CountedSince(v)
        BY <1>1, <1>6, <1>7, <2>1, <2>4, SMTT(30) DEF Back, CountedSince
    <2>8. win' = v /\ shownUpTo' = shownUpTo
        BY <1>3, <1>9 DEF v
    <2>9. QED BY <1>1, <1>4, <2>4, <2>5, <2>6, <2>7, <2>8 DEF Back
<1>10. CASE ~MustHold(begun)
    <2> DEFINE v == Displayed(begun, line)
    <2>1. win' = v /\ shownUpTo' = written + 1 /\ begun.queue = <<>> /\ begun.scrolled = 0
        BY <1>2, <1>3, <1>10 DEF MustHold, HoldOutput
    <2>2. shownUpTo = written
        BY <1>1, <1>6, <2>1, EmptySeq
    <2>3. v.queue = begun.queue /\ v.log = log
        <3>1. \A i \in 1 .. begun.cursor : begun.display[i].id <= written
            BY <1>1, <1>6, <2>2 DEF PagingInv, Ordered
        <3>2. \A i, j \in 1 .. begun.cursor : i < j => begun.display[i].id < begun.display[j].id
            BY <1>6 DEF PagingInv, Ordered
        <3> HIDE DEF v
        <3>3. v = Displayed(begun, line)
            BY DEF v
        <3>4. QED BY <1>1, <1>2, <1>6, <3>1, <3>2, <3>3, DisplayedOrdered, SMTT(30)
    <2>4. EndsWith(v, written + 1) /\ v.scrolled = begun.scrolled /\ v.newScrolled = begun.newScrolled
        BY <1>1, <1>2, <1>6, <1>8, <2>2, DisplayedEnds
    <2> HIDE DEF v
    <2>5. QueueLogged(v.queue)
        BY <2>1, <2>3, EmptySeq DEF QueueLogged
    <2>6. CountedSince(v)
        <3>1. win.scrolled = 0 /\ win.newScrolled = 0
            BY <1>1, <1>6, <2>1 DEF Back, CountedSince
        <3>2. v.scrolled = 0 /\ v.newScrolled = 0
            BY <1>6, <2>4, <3>1
        <3>3. QED BY <3>2 DEF CountedSince
    <2>7. QED BY <1>1, <1>4, <2>1, <2>3, <2>4, <2>5, <2>6 DEF Back
<1>11. QED BY <1>9, <1>10

\* unhold_windows() keeps it: nothing is held in a window that is scrolled back.
LEMMA BackUnhold ==
    ASSUME PagingInv, BackInv, UnholdWindows PROVE BackInv'
<1> SUFFICES ASSUME pagingEnv.careful PROVE Back(win', shownUpTo', written')
    BY DEF BackInv, Back, UnholdWindows
<1> DEFINE begun == Begun(win)
           line == Head(win.queue)
           v == Displayed(begun, line)
<1>1. /\ win \in PagedWindow /\ win.queue \in Seq(Line) /\ win.queue # <<>> /\ win.scrolled = 0
      /\ shownUpTo \in Nat /\ Ordered(win, shownUpTo, written)
      /\ Back(win, shownUpTo, written) /\ written' = written
    BY DEF PagingInv, BackInv, Back, PagedWindow, UnholdWindows, HoldOutput
<1>2. /\ begun \in PagedWindow /\ begun.queue = win.queue /\ begun.log = win.log
      /\ begun.display = win.display /\ begun.cursor = win.cursor
      /\ begun.scrolled = 0 /\ begun.newScrolled = 0
    <2>1. win.newScrolled = 0
        BY <1>1 DEF Back, CountedSince
    <2>2. QED BY <1>1, <2>1, BegunSame, BegunCounts DEF Same
<1>3. /\ IF PageEnds(win) THEN win' = begun /\ shownUpTo' = shownUpTo
         ELSE win' = [v EXCEPT !.queue = Tail(@)] /\ shownUpTo' = line.id
    BY DEF UnholdWindows, Shown
<1> HIDE DEF begun
<1>4. Back(begun, shownUpTo, written)
    BY <1>1, <1>2 DEF Back, EndsWith, CountedSince
<1>5. CASE PageEnds(win)
    BY <1>1, <1>3, <1>4, <1>5
<1>6. CASE ~PageEnds(win)
    <2>1. /\ line = win.queue[1] /\ line \in Line /\ Len(win.queue) \in Nat /\ 1 \in 1 .. Len(win.queue)
          /\ Len(Tail(win.queue)) = Len(win.queue) - 1
          /\ \A i \in 1 .. Len(Tail(win.queue)) : Tail(win.queue)[i] = win.queue[i + 1]
        <3>1. Len(win.queue) \in Nat /\ Len(win.queue) # 0
            BY <1>1, EmptySeq
        <3>2. QED BY <1>1, <3>1, HeadTailProperties
    <2>2. line.id = shownUpTo + 1 /\ line.logged
        BY <1>1, <2>1 DEF Ordered, Back, QueueLogged
    <2> HIDE DEF line
    <2>3. EndsWith(begun, shownUpTo)
        BY <1>4 DEF Back
    <2>4. v.queue = win.queue /\ v.log = win.log /\ v \in PagedWindow
        <3>1. /\ \A i \in 1 .. begun.cursor : begun.display[i].id <= shownUpTo
              /\ \A i, j \in 1 .. begun.cursor : i < j => begun.display[i].id < begun.display[j].id
            BY <1>1, <1>2 DEF Ordered
        <3> HIDE DEF v
        <3>2. v = Displayed(begun, line)
            BY DEF v
        <3>3. QED BY <1>1, <1>2, <2>1, <2>2, <3>1, <3>2, DisplayedOrdered, SMTT(30)
    <2>5. EndsWith(v, shownUpTo + 1) /\ v.scrolled = begun.scrolled /\ v.newScrolled = begun.newScrolled
        BY <1>1, <1>2, <2>1, <2>2, <2>3, DisplayedEnds
    <2> HIDE DEF v
    <2>6. /\ win'.queue = Tail(win.queue) /\ win'.log = win.log /\ win'.display = v.display
          /\ win'.cursor = v.cursor /\ win'.scrolled = 0 /\ win'.newScrolled = 0
        BY <1>2, <1>3, <1>6, <2>4, <2>5 DEF PagedWindow
    <2>7. QueueLogged(win'.queue)
        <3>1. \A i \in 1 .. Len(Tail(win.queue)) : i + 1 \in 1 .. Len(win.queue)
            BY <2>1
        <3>2. QED BY <1>1, <2>1, <2>6, <3>1 DEF Back, QueueLogged
    <2>8. EndsWith(win', shownUpTo + 1) /\ CountedSince(win')
        BY <2>5, <2>6 DEF EndsWith, CountedSince
    <2>9. QED BY <1>1, <1>3, <1>6, <2>2, <2>6, <2>7, <2>8 DEF Back
<1>7. QED BY <1>5, <1>6

\* Whatever leaves the lists alone keeps it, if the new lines stay counted.
LEMMA BackSame ==
    ASSUME BackInv, NEW w, Same(w, win), Acts(w), Keeps, pagingEnv.careful => CountedSince(w)
    PROVE  BackInv'
<1>1. /\ win' = w
      /\ written' = written /\ pagingEnv' = pagingEnv /\ lastlogMax' = lastlogMax /\ shownUpTo' = shownUpTo
    BY DEF Acts, Keeps
<1>2. EndsWith(win, shownUpTo) => EndsWith(w, shownUpTo)
    BY DEF Same, EndsWith
<1>3. AllLogged(win.log, written) => AllLogged(w.log, written)
    BY DEF Same
<1>4. QueueLogged(win.queue) => QueueLogged(w.queue)
    BY DEF Same
<1>5. QED BY <1>1, <1>2, <1>3, <1>4 DEF BackInv

\* What the user does without scrolling or dropping lines keeps it.
LEMMA BackUser ==
    ASSUME PagingInv, BackInv,
           \/ SendLine \/ ToggleStopScreen \/ UnstopAllWindows
           \/ \E b \in BOOLEAN : Clear(b) \/ SetHoldMode(b) \/ WindowHoldMode(b)
    PROVE  BackInv'
<1>1. win \in PagedWindow /\ (pagingEnv.careful => CountedSince(win))
    BY DEF PagingInv, BackInv
<1>2. ASSUME NEW w, w.scrolled = win.scrolled, w.newScrolled = win.newScrolled, Same(w, win),
             Acts(w), Keeps
      PROVE  BackInv'
    BY <1>1, <1>2, BackSame DEF CountedSince, Same
<1>3. CASE SendLine
    <2> DEFINE u == ResetHold(win)
               w == HoldMode(u, FALSE)
    <2>1. u \in PagedWindow /\ Same(u, win) /\ u.scrolled = win.scrolled /\ u.newScrolled = win.newScrolled
        BY <1>1, HoldModeSame, HoldModeStays
    <2>2. Acts(w) /\ Keeps
        BY <1>3 DEF SendLine
    <2> HIDE DEF u
    <2>3. Same(w, u) /\ w.scrolled = u.scrolled /\ w.newScrolled = u.newScrolled
        BY <2>1, HoldModeSame, HoldModeStays
    <2> HIDE DEF w
    <2>4. Same(w, win)
        BY <2>1, <2>3 DEF Same
    <2>5. QED BY <1>2, <2>1, <2>2, <2>3, <2>4
<1>4. CASE ToggleStopScreen
    <2> DEFINE w == IF win.scrolled # 0 THEN win ELSE [win EXCEPT !.held = ~@]
    <2>1. w.scrolled = win.scrolled /\ w.newScrolled = win.newScrolled /\ Same(w, win)
        BY <1>1 DEF PagedWindow, Same
    <2>2. Acts(w) /\ Keeps
        BY <1>4 DEF ToggleStopScreen
    <2> HIDE DEF w
    <2>3. QED BY <1>2, <2>1, <2>2
<1>5. CASE UnstopAllWindows
    BY <1>1, <1>2, <1>5, HoldModeSame, HoldModeStays DEF UnstopAllWindows
<1>6. ASSUME NEW b \in BOOLEAN, SetHoldMode(b) PROVE BackInv'
    <2> DEFINE w == [win EXCEPT !.holdMode = b, !.holdOnNextRite = FALSE, !.lineCnt = 0]
    <2>1. w.scrolled = win.scrolled /\ w.newScrolled = win.newScrolled /\ Same(w, win)
        BY <1>1 DEF PagedWindow, Same
    <2>2. Acts(w) /\ Keeps
        BY <1>6 DEF SetHoldMode
    <2> HIDE DEF w
    <2>3. QED BY <1>2, <2>1, <2>2
<1>7. ASSUME NEW b \in BOOLEAN, WindowHoldMode(b) PROVE BackInv'
    <2> DEFINE w == [win EXCEPT !.holdMode = b]
    <2>1. w.scrolled = win.scrolled /\ w.newScrolled = win.newScrolled /\ Same(w, win)
        BY <1>1 DEF PagedWindow, Same
    <2>2. Acts(w) /\ Keeps
        BY <1>7 DEF WindowHoldMode
    <2> HIDE DEF w
    <2>3. QED BY <1>2, <2>1, <2>2
<1>8. ASSUME NEW b \in BOOLEAN, Clear(b) PROVE BackInv'
    <2> DEFINE u == IF b THEN HoldMode(win, FALSE) ELSE win
    <2>1. /\ u \in PagedWindow /\ u.queue = win.queue /\ u.log = win.log
          /\ u.scrolled = win.scrolled /\ u.newScrolled = win.newScrolled
        BY <1>1, HoldModeSame, HoldModeStays DEF Same
    <2>2. /\ win' = EraseDisplay(u)
          /\ written' = written /\ pagingEnv' = pagingEnv /\ lastlogMax' = lastlogMax /\ shownUpTo' = shownUpTo
        BY <1>8 DEF Clear, Acts, Keeps
    <2> HIDE DEF u
    <2>3. win'.queue = win.queue /\ win'.log = win.log /\ win'.cursor = 0
        BY <2>1, <2>2, EraseDisplayFields
    <2>4. win'.scrolled = win.scrolled /\ win'.newScrolled = win.newScrolled
        BY <2>1, <2>2 DEF EraseDisplay, PagedWindow
    <2>5. shownUpTo \in Nat /\ written \in Nat
        BY DEF PagingInv
    <2>6. EndsWith(win', shownUpTo)
        BY <2>3, <2>5 DEF EndsWith
    <2>7. (CountedSince(win) => CountedSince(win')) /\ (QueueLogged(win.queue) => QueueLogged(win'.queue))
        BY <2>3, <2>4 DEF CountedSince
    <2>8. QED BY <2>2, <2>3, <2>6, <2>7 DEF BackInv
<1>9. QED BY <1>3, <1>4, <1>5, <1>6, <1>7, <1>8

\* A window moved within its log; at the end of the log it has nothing new.
LEMMA ScrolledCounts ==
    ASSUME PagingInv, NEW s \in Nat, NEW n \in Nat
    PROVE  LET w == [win EXCEPT !.scrolled = s, !.newScrolled = n]
           IN  w.scrolled = s /\ w.newScrolled = n /\ Paged(w).scrolled = s /\ Paged(w).newScrolled = n
<1> DEFINE w == [win EXCEPT !.scrolled = s, !.newScrolled = n]
<1>1. w \in PagedWindow /\ w.scrolled = s /\ w.newScrolled = n /\ w.holdMode \in BOOLEAN
    BY DEF PagingInv, PagedWindow
<1> HIDE DEF w
<1>2. Paged(w).scrolled = s /\ Paged(w).newScrolled = n
    BY <1>1, HoldModeStays DEF Paged
<1>3. QED BY <1>1, <1>2 DEF w

\* scrollback_backwards_lines() from a window at rest or one that is scrolled back already
LEMMA BackByCounts ==
    ASSUME PagingInv, pagingEnv.careful, BackInv, NEW distance \in Nat,
           win.scrolled = 0 => win.queue = <<>>
    PROVE  CountedSince(BackBy(distance))
<1> DEFINE to == IF distance + win.scrolled > LastlogLines THEN LastlogLines ELSE distance + win.scrolled
<1>1. /\ win \in PagedWindow /\ win.scrolled \in Nat /\ win.newScrolled \in Nat /\ LastlogLines \in Nat
      /\ CountedSince(win)
    BY LinesCounted DEF PagingInv, BackInv, PagedWindow
<1>2. BackBy(distance) = [win EXCEPT !.scrolled = to]
    BY DEF BackBy
<1>3. win.newScrolled <= LastlogLines
    <2> DEFINE rest == IF Len(win.log) > Skipped THEN Len(win.log) - Skipped ELSE 0
    <2>1. LastlogLines = win.newScrolled + rest
        BY DEF LastlogLines
    <2>2. rest \in Nat
        <3> DEFINE on == {i \in 1 .. DisplaySize : win.display[i].logged}
        <3>1. IsFiniteSet(1 .. DisplaySize)
            BY DisplaySizeAssumption, FS_Interval
        <3>2. Cardinality(on) \in Nat
            BY <3>1, FS_Subset, FS_CardinalityType
        <3>3. Skipped = win.newScrolled + Cardinality(on)
            BY DEF Skipped
        <3> HIDE DEF on
        <3>4. win.log \in Seq(Line) /\ Len(win.log) \in Nat
            BY <1>1 DEF PagedWindow
        <3>5. QED BY <1>1, <3>2, <3>3, <3>4
    <2> HIDE DEF rest
    <2>3. QED BY <1>1, <2>1, <2>2
<1>4. to \in Nat /\ (to = 0 => win.newScrolled = 0)
    BY <1>1, <1>3 DEF CountedSince
<1>5. to # 0 => win.newScrolled = Len(win.queue)
    BY <1>1, EmptySeq DEF CountedSince
<1> HIDE DEF to
<1>6. /\ BackBy(distance).scrolled = to /\ BackBy(distance).newScrolled = win.newScrolled
      /\ BackBy(distance).queue = win.queue
    BY <1>1, <1>2 DEF PagedWindow
<1>7. QED BY <1>4, <1>5, <1>6 DEF CountedSince

\* A careful user's scrolling keeps it.
LEMMA BackScroll ==
    ASSUME PagingInv, BackInv,
           ScrollBackwards \/ ScrollForwards \/ ScrollEnd \/ ScrollStart
    PROVE  BackInv'
<1>1. /\ win \in PagedWindow /\ win.scrolled \in Nat /\ win.newScrolled \in Nat /\ LastlogLines \in Nat
      /\ pagingEnv.careful => CountedSince(win)
    BY LinesCounted DEF PagingInv, BackInv, PagedWindow
<1> DEFINE distance == DisplaySize \div 2
<1>2. distance \in Nat
    BY DisplaySizeAssumption
<1>3. CASE ScrollBackwards
    <2>1. Acts(BackBy(distance)) /\ Keeps /\ Same(BackBy(distance), win)
        BY <1>2, <1>3, BackBySame DEF ScrollBackwards
    <2>2. pagingEnv.careful => CountedSince(BackBy(distance))
        <3>1. pagingEnv.careful => (win.scrolled = 0 => win.queue = <<>>)
            BY <1>3 DEF ScrollBackwards
        <3> HIDE DEF distance
        <3>2. QED BY <1>2, <3>1, BackByCounts
    <2>3. QED BY <2>1, <2>2, BackSame
<1>4. CASE ScrollForwards
    <2>1. Acts(ForwardBy(distance)) /\ Keeps /\ win.scrolled # 0
        BY <1>4 DEF ScrollForwards
    <2> HIDE DEF distance
    <2>2. CASE win.scrolled <= distance
        <3> DEFINE w == Paged([win EXCEPT !.scrolled = 0, !.newScrolled = 0])
        <3>1. Same(w, win) /\ w.scrolled = 0 /\ w.newScrolled = 0
            BY ScrolledSame, ScrolledCounts
        <3>2. ForwardBy(distance) = w
            BY <2>2 DEF ForwardBy
        <3> HIDE DEF w
        <3>3. QED BY <2>1, <3>1, <3>2, BackSame DEF CountedSince
    <2>3. CASE ~(win.scrolled <= distance)
        <3> DEFINE s == win.scrolled - distance
                   w == [win EXCEPT !.scrolled = s]
        <3>1. s \in Nat /\ s # 0
            BY <1>1, <1>2, <2>3
        <3>2. ForwardBy(distance) = w
            BY <2>3 DEF ForwardBy
        <3> HIDE DEF s
        <3>3. Same(w, win) /\ w.scrolled = s /\ w.newScrolled = win.newScrolled
            BY <1>1 DEF PagedWindow, Same
        <3> HIDE DEF w
        <3>4. pagingEnv.careful => CountedSince(w)
            BY <1>1, <2>1, <3>1, <3>3 DEF CountedSince, Same
        <3>5. QED BY <2>1, <3>2, <3>3, <3>4, BackSame
    <2>4. QED BY <2>2, <2>3
<1>5. CASE ScrollEnd
    <2>1. CASE win.scrolled = 0
        <3> DEFINE w == [win EXCEPT !.newScrolled = 0]
        <3>1. Same(w, win) /\ w.scrolled = 0 /\ w.newScrolled = 0
            BY <1>1, <2>1 DEF PagedWindow, Same
        <3>2. Acts(w) /\ Keeps
            BY <1>5, <2>1 DEF ScrollEnd
        <3> HIDE DEF w
        <3>3. QED BY <3>1, <3>2, BackSame DEF CountedSince
    <2>2. CASE win.scrolled # 0
        <3> DEFINE w == ScrolledToEnd(win)
        <3>1. Same(w, win) /\ w.scrolled = 0 /\ w.newScrolled = 0
            BY ScrolledSame, ScrolledCounts DEF ScrolledToEnd
        <3>2. Acts(w) /\ Keeps
            BY <1>5, <2>2 DEF ScrollEnd
        <3> HIDE DEF w
        <3>3. QED BY <3>1, <3>2, BackSame DEF CountedSince
    <2>3. QED BY <2>1, <2>2
<1>6. CASE ScrollStart
    <2>1. pagingEnv.careful => win.newScrolled = 0 /\ (win.scrolled = 0 => win.queue = <<>>)
        BY <1>6 DEF ScrollStart
    <2>2. CASE LastlogLines < DisplaySize
        <3>1. Acts(BackBy(LastlogLines)) /\ Keeps /\ Same(BackBy(LastlogLines), win)
            BY <1>1, <1>6, <2>2, BackBySame DEF ScrollStart
        <3>2. pagingEnv.careful => CountedSince(BackBy(LastlogLines))
            BY <1>1, <2>1, BackByCounts
        <3>3. QED BY <3>1, <3>2, BackSame
    <2>3. CASE ~(LastlogLines < DisplaySize)
        <3> DEFINE w == Paged([win EXCEPT !.scrolled = LastlogLines, !.newScrolled = 0])
        <3>1. Same(w, win) /\ w.scrolled = LastlogLines /\ w.newScrolled = 0
            BY <1>1, ScrolledSame, ScrolledCounts
        <3>2. Acts(w) /\ Keeps
            BY <1>6, <2>3 DEF ScrollStart
        <3> HIDE DEF w
        <3>3. pagingEnv.careful => Len(win.queue) = 0
            BY <1>1, <2>1, EmptySeq DEF CountedSince
        <3>4. w.queue = win.queue
            BY <3>1 DEF Same
        <3>5. pagingEnv.careful => CountedSince(w)
            BY <3>1, <3>3, <3>4 DEF CountedSince
        <3>6. QED BY <3>1, <3>2, <3>5, BackSame
    <2>4. QED BY <2>2, <2>3
<1>7. QED BY <1>3, <1>4, <1>5, <1>6

\* The invariant of a careful user holds throughout.
LEMMA BackHolds ==
    PagingSpec => []BackInv
<1>1. PagingInit => BackInv
    <2> SUFFICES ASSUME PagingInit, pagingEnv.careful PROVE BackInv
        BY DEF BackInv
    <2>1. /\ win.queue = <<>> /\ win.log = <<>> /\ win.cursor = 0 /\ win.scrolled = 0 /\ win.newScrolled = 0
          /\ written = 0 /\ shownUpTo = 0 /\ lastlogMax = MaxWritten + 1
        BY DEF PagingInit
    <2>2. Len(win.queue) = 0 /\ Len(win.log) = 0 /\ lastlogMax > MaxWritten
        BY <2>1, EmptySeq, MaxWrittenAssumption
    <2>3. AllLogged(win.log, written)
        BY <2>1, <2>2 DEF AllLogged
    <2>4. QueueLogged(win.queue) /\ EndsWith(win, shownUpTo) /\ CountedSince(win)
        BY <2>1, <2>2 DEF QueueLogged, EndsWith, CountedSince
    <2>5. QED BY <2>2, <2>3, <2>4 DEF BackInv
<1>2. PagingInv /\ BackInv /\ [PagingNext]_pagingVars => BackInv'
    <2> SUFFICES ASSUME PagingInv, BackInv, [PagingNext]_pagingVars PROVE BackInv'
        OBVIOUS
    <2>1. ASSUME NEW logged \in BOOLEAN, AddToWindow(logged) PROVE BackInv'
        BY <2>1, BackAdd
    <2>2. CASE UnholdWindows
        BY <2>2, BackUnhold
    <2>3. CASE FlushHeld \/ \E size \in Lastlogs : SetLastlogSize(size)
        BY <2>3 DEF FlushHeld, SetLastlogSize, Acts, BackInv
    <2>4. CASE \/ SendLine \/ ToggleStopScreen \/ UnstopAllWindows
               \/ \E b \in BOOLEAN : Clear(b) \/ SetHoldMode(b) \/ WindowHoldMode(b)
        BY <2>4, BackUser
    <2>5. CASE ScrollBackwards \/ ScrollForwards \/ ScrollEnd \/ ScrollStart
        BY <2>5, BackScroll
    <2>6. CASE UNCHANGED pagingVars
        BY <2>6 DEF BackInv, pagingVars
    <2>7. QED BY <2>1, <2>2, <2>3, <2>4, <2>5, <2>6 DEF PagingNext
<1>3. QED BY <1>1, <1>2, InvHolds, PTL DEF PagingSpec

\* The rows in use are logged lines; unless rows were cleared, they are all.
LEMMA RowsLogged ==
    ASSUME NEW w \in PagedWindow, \A i \in 1 .. w.cursor : w.display[i].logged
    PROVE  LET rows == Cardinality({i \in 1 .. DisplaySize : w.display[i].logged})
           IN  /\ rows \in Nat /\ rows >= w.cursor
               /\ (\A i \in 1 .. DisplaySize : w.display[i].logged => i <= w.cursor) => rows = w.cursor
<1> DEFINE on == {i \in 1 .. DisplaySize : w.display[i].logged}
<1>1. w.cursor \in 0 .. DisplaySize /\ DisplaySize \in Nat \ {0}
    BY DisplaySizeAssumption DEF PagedWindow
<1>2. 1 .. w.cursor \subseteq on
    BY <1>1
<1>3. IsFiniteSet(on)
    <2>1. IsFiniteSet(1 .. DisplaySize) /\ on \subseteq 1 .. DisplaySize
        BY <1>1, FS_Interval
    <2> HIDE DEF on
    <2>2. QED BY <2>1, FS_Subset
<1>4. Cardinality(1 .. w.cursor) = w.cursor
    <2>1. 1 \in Int /\ w.cursor \in Int /\ (1 > w.cursor <=> w.cursor = 0)
        BY <1>1
    <2>2. Cardinality(1 .. w.cursor) = IF 1 > w.cursor THEN 0 ELSE w.cursor - 1 + 1
        BY <2>1, FS_Interval
    <2>3. QED BY <1>1, <2>1, <2>2
<1>5. (\A i \in 1 .. DisplaySize : w.display[i].logged => i <= w.cursor) => on = 1 .. w.cursor
    BY <1>1, <1>2
<1> HIDE DEF on
<1>6. Cardinality(on) \in Nat /\ Cardinality(1 .. w.cursor) <= Cardinality(on)
    BY <1>2, <1>3, FS_Subset, FS_CardinalityType
<1>7. QED BY <1>4, <1>5, <1>6 DEF on

\* Each held line and each row in use is a line of the log, and those are its newest lines.
LEMMA SeenIsLogged ==
    ASSUME PagingInv, BackInv, pagingEnv.careful
    PROVE  LET q == Len(win.queue)
           IN  /\ q \in Nat /\ q + win.cursor \in 0 .. written
               /\ \A i \in 1 .. q : win.queue[i] = win.log[q - i + 1]
               /\ \A i \in 1 .. win.cursor : win.display[i] = win.log[q + win.cursor - i + 1]
<1> DEFINE q == Len(win.queue)
           c == win.cursor
<1>1. /\ win.queue \in Seq(Line) /\ win.log \in Seq(Line) /\ q \in Nat
      /\ c \in 0 .. DisplaySize /\ DisplaySize \in Nat \ {0} /\ c \in Nat
      /\ win.display \in [1 .. DisplaySize -> Row]
      /\ written \in Nat /\ shownUpTo \in Nat /\ shownUpTo <= written /\ q = written - shownUpTo
    BY DisplaySizeAssumption DEF PagingInv, PagedWindow, Ordered
<1>2. /\ AllLogged(win.log, written) /\ QueueLogged(win.queue) /\ EndsWith(win, shownUpTo)
      /\ \A i \in 1 .. q : win.queue[i].id = shownUpTo + i
    BY DEF BackInv, PagingInv, Ordered
<1> DEFINE Logged(n) == [id |-> n, logged |-> TRUE]
<1>3. \A r \in Row \cup Line : r.logged => r = Logged(r.id)
    BY DEF Row, Line
<1>4. \A k \in 1 .. written : win.log[k] = Logged(written - k + 1)
    <2>1. \A k \in 1 .. written : win.log[k] \in Line
        BY <1>1, <1>2 DEF AllLogged
    <2>2. QED BY <1>2, <1>3, <2>1 DEF AllLogged
<1>5. \A i \in 1 .. q : win.queue[i] = Logged(shownUpTo + i)
    <2>1. \A i \in 1 .. q : win.queue[i] \in Line
        BY <1>1
    <2>2. QED BY <1>2, <1>3, <2>1 DEF QueueLogged
<1>6. c <= shownUpTo /\ \A i \in 1 .. c : win.display[i] = Logged(shownUpTo - c + i)
    <2>1. \A i \in 1 .. c : i \in 1 .. DisplaySize
        BY <1>1
    <2>2. \A i \in 1 .. c : win.display[i] \in Row
        BY <1>1, <2>1
    <2>3. QED BY <1>2, <1>3, <2>2, ZenonT(60) DEF EndsWith
<1> HIDE DEF q, c, Logged
<1>7. \A i \in 1 .. q : q - i + 1 \in 1 .. written /\ written - (q - i + 1) + 1 = shownUpTo + i
    BY <1>1
<1>8. \A i \in 1 .. c : /\ q + c - i + 1 \in 1 .. written
                        /\ written - (q + c - i + 1) + 1 = shownUpTo - c + i
    BY <1>1, <1>6
<1>9. \A i \in 1 .. q : win.queue[i] = win.log[q - i + 1]
    BY <1>4, <1>5, <1>7
<1>10. \A i \in 1 .. c : win.display[i] = win.log[q + c - i + 1]
    BY <1>4, <1>6, <1>8
<1>11. q + c \in 0 .. written
    BY <1>1, <1>6
<1>12. QED BY <1>1, <1>9, <1>10, <1>11 DEF q, c

\* What scrolling back passes over is what is on the display and in the hold list, for a user
\* who begins with an empty hold list, logs every line and drops none, whatever the size of
\* the window: what lastlog_lines() and the counting of new lines in rite() promise.
THEOREM NothingIsSkipped ==
    PagingSpec => []SkippedAreSeen
<1>1. PagingInv /\ BackInv => SkippedAreSeen
    <2> SUFFICES ASSUME PagingInv, BackInv, pagingEnv.careful
                 PROVE  SkippedAreSeen
        BY DEF SkippedAreSeen
    <2> DEFINE q == Len(win.queue)
               c == win.cursor
               rows == Cardinality({i \in 1 .. DisplaySize : win.display[i].logged})
               passed == {win.log[i] : i \in 1 .. Skipped}
               seen == {win.display[i] : i \in 1 .. c} \cup {win.queue[i] : i \in DOMAIN win.queue}
               stale == \E i \in 1 .. DisplaySize : i > c /\ win.display[i].logged
    <2>1. CASE win.scrolled = 0
        BY <2>1 DEF BackInv, CountedSince, SkippedAreSeen
    <2>2. CASE win.scrolled # 0
        <3>1. /\ win \in PagedWindow /\ win.queue \in Seq(Line) /\ DOMAIN win.queue = 1 .. q
              /\ c \in Nat /\ c \in 0 .. DisplaySize /\ DisplaySize \in Nat \ {0}
            BY DisplaySizeAssumption DEF PagingInv, PagedWindow
        <3>2. /\ q \in Nat
              /\ \A i \in 1 .. q : win.queue[i] = win.log[q - i + 1]
              /\ \A i \in 1 .. c : win.display[i] = win.log[q + c - i + 1]
            BY SeenIsLogged
        <3>3. \A i \in 1 .. c : win.display[i].logged
            BY DEF BackInv, EndsWith
        <3>4. rows \in Nat /\ rows >= c
            BY <3>1, <3>3, RowsLogged
        <3>5. ~stale => rows = c
            <4>1. ~stale => \A i \in 1 .. DisplaySize : win.display[i].logged => i <= c
                BY <3>1
            <4>2. QED BY <3>1, <3>3, <4>1, RowsLogged
        <3>6. Skipped = q + rows
            BY <2>2 DEF Skipped, BackInv, CountedSince
        <3> HIDE DEF q, c, rows, stale
        <3>7. seen \subseteq passed
            <4>1. \A i \in 1 .. c : q + c - i + 1 \in 1 .. Skipped
                BY <3>1, <3>2, <3>4, <3>6
            <4>2. \A i \in 1 .. q : q - i + 1 \in 1 .. Skipped
                BY <3>2, <3>4, <3>6
            <4>3. \A i \in 1 .. c : win.display[i] \in passed
                BY <3>2, <4>1
            <4>4. \A i \in DOMAIN win.queue : win.queue[i] \in passed
                BY <3>1, <3>2, <4>2
            <4> HIDE DEF passed
            <4>5. QED BY <4>3, <4>4
        <3>8. ~stale => passed \subseteq seen
            <4> SUFFICES ASSUME ~stale, NEW k \in 1 .. Skipped PROVE win.log[k] \in seen
                OBVIOUS
            <4>1. Skipped = q + c
                BY <3>5, <3>6
            <4>2. CASE k <= q
                <5>1. q - k + 1 \in 1 .. q /\ q - (q - k + 1) + 1 = k
                    BY <3>1, <3>2, <4>1, <4>2
                <5>2. win.queue[q - k + 1] = win.log[k] /\ q - k + 1 \in DOMAIN win.queue
                    BY <3>1, <3>2, <5>1
                <5>3. QED BY <5>2
            <4>3. CASE k > q
                <5>1. q + c - k + 1 \in 1 .. c /\ q + c - (q + c - k + 1) + 1 = k
                    BY <3>1, <3>2, <4>1, <4>3
                <5>2. win.display[q + c - k + 1] = win.log[k]
                    BY <3>2, <5>1
                <5>3. QED BY <5>1, <5>2
            <4>4. QED BY <3>1, <3>2, <4>1, <4>2, <4>3
        <3> HIDE DEF passed, seen
        <3>9. seen \subseteq passed /\ (stale \/ passed = seen)
            BY <3>7, <3>8
        <3>10. QED BY <2>2, <3>9 DEF SkippedAreSeen, passed, seen, stale, c
    <2>3. QED BY <2>1, <2>2
<1>2. QED BY <1>1, InvHolds, BackHolds, PTL

-----------------------------------------------------------------------------
(* Lines that are split up.                                                *)
(*                                                                         *)
(* The numbers of the letters rise through the pieces and what is left of  *)
(* lbuf, no letter is in neither (KeptInv), and the places that            *)
(* split_up_line() keeps in lbuf stay within it (Around).  Where each byte *)
(* of lbuf takes a column, col is the width of what is left, so that a     *)
(* line is broken as soon as it is one column too wide (Narrow).           *)

LessPairs == {p \in Nat \X Nat : p[1] < p[2]}

\* A set of numbers has a least one: what stands for induction here.
LEMMA LeastOf ==
    ASSUME NEW T \in SUBSET Nat, T # {}
    PROVE  \E x \in T : \A y \in T : x <= y
<1>1. IsWellFoundedOn(LessPairs, Nat)
    BY NatLessThanWellFounded DEF OpToRel, LessPairs
<1>2. PICK x \in T : \A y \in T : <<y, x>> \notin LessPairs
    BY <1>1, WFMin
<1>3. \A y \in T : ~(y < x)
    BY <1>2 DEF LessPairs
<1>4. QED BY <1>3

----------------------------------------------------------------------------
(* Two sequences of cells, one behind the other.                           *)

\* None of it is of a letter; all of it is of the first m letters; a cell of letter n.
Silent(s) == \A i \in DOMAIN s : s[i].n = 0
UpTo(s, m) == \A i \in DOMAIN s : s[i].n <= m
Has(s, n) == \E i \in DOMAIN s : s[i].n = n
\* The letters come in their order, and those of s before those of t.
LettersRise(s) == \A i, j \in DOMAIN s : i < j /\ s[i].n > 0 /\ s[j].n > 0 => s[i].n < s[j].n
Before(s, t) == \A i \in DOMAIN s, j \in DOMAIN t : s[i].n > 0 /\ t[j].n > 0 => s[i].n < t[j].n
\* The blanks are of no letter.
BlanksSilent(s) == \A i \in DOMAIN s : s[i].c = " " => s[i].n = 0

LEMMA CellsOf ==
    ASSUME NEW s \in Seq(Cell)
    PROVE  /\ DOMAIN s = 1 .. Len(s) /\ Len(s) \in Nat
           /\ \A i \in DOMAIN s : s[i] \in Cell /\ s[i].n \in Nat /\ s[i].c \in Bytes
<1>1. DOMAIN s = 1 .. Len(s) /\ Len(s) \in Nat
    OBVIOUS
<1>2. \A i \in DOMAIN s : s[i] \in Cell
    OBVIOUS
<1>3. \A x \in Cell : x.n \in Nat /\ x.c \in Bytes
    BY DEF Cell
<1>4. QED BY ONLY <1>1, <1>2, <1>3

\* The cells of s \o t are those of s and those of t.
LEMMA JoinedCells ==
    ASSUME NEW s \in Seq(Cell), NEW t \in Seq(Cell)
    PROVE  /\ s \o t \in Seq(Cell) /\ Len(s \o t) = Len(s) + Len(t)
           /\ \A i \in DOMAIN s : i \in DOMAIN (s \o t) /\ (s \o t)[i] = s[i]
           /\ \A i \in DOMAIN t : i + Len(s) \in DOMAIN (s \o t) /\ (s \o t)[i + Len(s)] = t[i]
           /\ \A i \in DOMAIN (s \o t) :
                 \/ i \in DOMAIN s
                 \/ i > Len(s) /\ i - Len(s) \in DOMAIN t /\ (s \o t)[i] = t[i - Len(s)]
<1>1. s \o t \in Seq(Cell) /\ Len(s \o t) = Len(s) + Len(t)
    OBVIOUS
<1>2. \A i \in 1 .. Len(s) + Len(t) : (s \o t)[i] = IF i <= Len(s) THEN s[i] ELSE t[i - Len(s)]
    OBVIOUS
<1>3. DOMAIN s = 1 .. Len(s) /\ DOMAIN t = 1 .. Len(t) /\ Len(s) \in Nat /\ Len(t) \in Nat
    OBVIOUS
<1>4. DOMAIN (s \o t) = 1 .. Len(s) + Len(t)
    BY <1>1
<1> DEFINE both == s \o t
<1>5. /\ \A i \in 1 .. Len(s) + Len(t) : both[i] = IF i <= Len(s) THEN s[i] ELSE t[i - Len(s)]
      /\ DOMAIN both = 1 .. Len(s) + Len(t)
    BY <1>2, <1>4
<1> HIDE DEF both
<1>6. /\ \A i \in DOMAIN s : i \in DOMAIN both /\ both[i] = s[i]
      /\ \A i \in DOMAIN t : i + Len(s) \in DOMAIN both /\ both[i + Len(s)] = t[i]
      /\ \A i \in DOMAIN both :
            \/ i \in DOMAIN s
            \/ i > Len(s) /\ i - Len(s) \in DOMAIN t /\ both[i] = t[i - Len(s)]
    BY <1>3, <1>5
<1>7. QED BY <1>1, <1>6 DEF both

LEMMA JoinedKeep ==
    ASSUME NEW s \in Seq(Cell), NEW t \in Seq(Cell)
    PROVE  /\ Silent(s \o t) <=> Silent(s) /\ Silent(t)
           /\ \A m \in Nat : UpTo(s \o t, m) <=> UpTo(s, m) /\ UpTo(t, m)
           /\ \A n \in Nat : Has(s \o t, n) <=> Has(s, n) \/ Has(t, n)
           /\ BlanksSilent(s \o t) <=> BlanksSilent(s) /\ BlanksSilent(t)
<1> DEFINE both == s \o t
<1>1. /\ \A i \in DOMAIN s : i \in DOMAIN both /\ both[i] = s[i]
      /\ \A i \in DOMAIN t : i + Len(s) \in DOMAIN both /\ both[i + Len(s)] = t[i]
      /\ \A i \in DOMAIN both :
            \/ i \in DOMAIN s
            \/ i > Len(s) /\ i - Len(s) \in DOMAIN t /\ both[i] = t[i - Len(s)]
    BY JoinedCells
<1> HIDE DEF both
<1>2. Silent(both) <=> Silent(s) /\ Silent(t)
    BY <1>1 DEF Silent
<1>3. \A m \in Nat : UpTo(both, m) <=> UpTo(s, m) /\ UpTo(t, m)
    BY <1>1 DEF UpTo
<1>4. \A n \in Nat : Has(both, n) <=> Has(s, n) \/ Has(t, n)
    BY <1>1 DEF Has
<1>5. BlanksSilent(both) <=> BlanksSilent(s) /\ BlanksSilent(t)
    <2>1. ASSUME BlanksSilent(both) PROVE BlanksSilent(s) /\ BlanksSilent(t)
        <3>1. ASSUME NEW i \in DOMAIN s, s[i].c = " " PROVE s[i].n = 0
            BY <1>1, <2>1, <3>1 DEF BlanksSilent
        <3>2. ASSUME NEW i \in DOMAIN t, t[i].c = " " PROVE t[i].n = 0
            <4>1. i + Len(s) \in DOMAIN both /\ both[i + Len(s)] = t[i]
                BY <1>1, <3>2
            <4>2. both[i + Len(s)].n = 0
                BY ONLY <2>1, <3>2, <4>1, ZenonT(30) DEF BlanksSilent
            <4>3. QED BY <4>1, <4>2
        <3>3. QED BY <3>1, <3>2 DEF BlanksSilent
    <2>2. ASSUME BlanksSilent(s), BlanksSilent(t), NEW i \in DOMAIN both, both[i].c = " " PROVE both[i].n = 0
        <3>1. CASE i \in DOMAIN s
            BY <1>1, <2>2, <3>1 DEF BlanksSilent
        <3>2. CASE i \notin DOMAIN s
            <4>1. i - Len(s) \in DOMAIN t /\ both[i] = t[i - Len(s)]
                BY <1>1, <2>2, <3>2
            <4>2. t[i - Len(s)].n = 0
                BY ONLY <2>2, <4>1, ZenonT(30) DEF BlanksSilent
            <4>3. QED BY <4>1, <4>2
        <3>3. QED BY <3>1, <3>2
    <2>3. QED BY <2>1, <2>2 DEF BlanksSilent
<1>6. QED BY <1>2, <1>3, <1>4, <1>5 DEF both

LEMMA JoinedOrder ==
    ASSUME NEW s \in Seq(Cell), NEW t \in Seq(Cell)
    PROVE  /\ LettersRise(s \o t) <=> LettersRise(s) /\ LettersRise(t) /\ Before(s, t)
           /\ \A u : Before(u, s \o t) <=> Before(u, s) /\ Before(u, t)
           /\ \A u : Before(s \o t, u) <=> Before(s, u) /\ Before(t, u)
<1> DEFINE both == s \o t
<1>1. /\ \A i \in DOMAIN s : i \in DOMAIN both /\ both[i] = s[i]
      /\ \A i \in DOMAIN t : i + Len(s) \in DOMAIN both /\ both[i + Len(s)] = t[i]
      /\ \A i \in DOMAIN both :
            \/ i \in DOMAIN s
            \/ i > Len(s) /\ i - Len(s) \in DOMAIN t /\ both[i] = t[i - Len(s)]
    BY JoinedCells
<1>2. DOMAIN s = 1 .. Len(s) /\ DOMAIN t = 1 .. Len(t) /\ Len(s) \in Nat /\ Len(t) \in Nat
    BY CellsOf
<1> HIDE DEF both
<1>3. \A u : Before(u, both) <=> Before(u, s) /\ Before(u, t)
    BY <1>1 DEF Before
<1>4. \A u : Before(both, u) <=> Before(s, u) /\ Before(t, u)
    BY <1>1 DEF Before
<1>5. ASSUME LettersRise(both) PROVE LettersRise(s) /\ LettersRise(t) /\ Before(s, t)
    <2>1. LettersRise(s)
        BY <1>1, <1>5 DEF LettersRise
    <2>2. LettersRise(t)
        <3>1. SUFFICES ASSUME NEW i \in DOMAIN t, NEW j \in DOMAIN t, i < j, t[i].n > 0, t[j].n > 0
                       PROVE  t[i].n < t[j].n
            BY DEF LettersRise
        <3>2. i + Len(s) < j + Len(s)
            BY <1>2, <3>1
        <3>3. QED BY <1>1, <1>5, <3>1, <3>2 DEF LettersRise
    <2>3. Before(s, t)
        <3>1. SUFFICES ASSUME NEW i \in DOMAIN s, NEW j \in DOMAIN t, s[i].n > 0, t[j].n > 0
                       PROVE  s[i].n < t[j].n
            BY DEF Before
        <3>2. i < j + Len(s)
            BY <1>2, <3>1
        <3>3. QED BY <1>1, <1>5, <3>1, <3>2 DEF LettersRise
    <2>4. QED BY <2>1, <2>2, <2>3
<1>6. ASSUME LettersRise(s), LettersRise(t), Before(s, t) PROVE LettersRise(both)
    <2>1. SUFFICES ASSUME NEW i \in DOMAIN both, NEW j \in DOMAIN both, i < j, both[i].n > 0, both[j].n > 0
                   PROVE  both[i].n < both[j].n
        BY DEF LettersRise
    <2>2. CASE i \in DOMAIN s /\ j \in DOMAIN s
        BY <1>1, <1>6, <2>1, <2>2 DEF LettersRise
    <2>3. CASE i \in DOMAIN s /\ j \notin DOMAIN s
        BY <1>1, <1>6, <2>1, <2>3 DEF Before
    <2>4. CASE i \notin DOMAIN s
        <3>1. i > Len(s) /\ i - Len(s) \in DOMAIN t /\ both[i] = t[i - Len(s)]
            BY <1>1, <2>1, <2>4
        <3>2. j \notin DOMAIN s
            BY <1>2, <2>1, <3>1
        <3>3. j - Len(s) \in DOMAIN t /\ both[j] = t[j - Len(s)] /\ j > Len(s)
            BY <1>1, <2>1, <3>2
        <3>5. i - Len(s) < j - Len(s)
            <4>1. DOMAIN both = 1 .. Len(both) /\ Len(both) \in Nat
                <5>1. s \o t \in Seq(Cell)
                    BY JoinedCells
                <5>2. QED BY <5>1, CellsOf DEF both
            <4>2. i \in Nat /\ j \in Nat
                BY <2>1, <4>1
            <4>3. QED BY <1>2, <2>1, <4>2
        <3>4. QED BY <1>6, <2>1, <3>1, <3>3, <3>5 DEF LettersRise
    <2>5. QED BY <2>2, <2>3, <2>4
<1>7. QED BY <1>3, <1>4, <1>5, <1>6 DEF both

LEMMA SilentIsApart ==
    ASSUME NEW s, NEW t, Silent(s)
    PROVE  LettersRise(s) /\ Before(s, t) /\ Before(t, s) /\ BlanksSilent(s)
<1>1. \A i \in DOMAIN s : s[i].n = 0 /\ ~(s[i].n > 0)
    BY DEF Silent
<1>2. QED BY <1>1 DEF LettersRise, Before, BlanksSilent

\* A part of a line is its first and its second part.
LEMMA PartsOfLine ==
    ASSUME NEW s \in Seq(Cell), NEW a \in Nat, NEW k \in Nat, a <= k, k <= Len(s)
    PROVE  /\ SubSeq(s, a + 1, Len(s)) \in Seq(Cell) /\ Len(SubSeq(s, a + 1, Len(s))) = Len(s) - a
           /\ SubSeq(s, a + 1, k) \in Seq(Cell) /\ Len(SubSeq(s, a + 1, k)) = k - a
           /\ SubSeq(s, k + 1, Len(s)) \in Seq(Cell)
           /\ SubSeq(s, a + 1, Len(s)) = SubSeq(s, a + 1, k) \o SubSeq(s, k + 1, Len(s))
           /\ \A i \in 1 .. k - a : SubSeq(s, a + 1, k)[i] = s[i + a]
<1>1. /\ SubSeq(s, a + 1, Len(s)) \in Seq(Cell) /\ Len(SubSeq(s, a + 1, Len(s))) = Len(s) - a
      /\ \A i \in 1 .. Len(s) - a : SubSeq(s, a + 1, Len(s))[i] = s[i + a]
    OBVIOUS
<1>2. /\ SubSeq(s, a + 1, k) \in Seq(Cell) /\ Len(SubSeq(s, a + 1, k)) = k - a
      /\ \A i \in 1 .. k - a : SubSeq(s, a + 1, k)[i] = s[i + a]
    OBVIOUS
<1>3. /\ SubSeq(s, k + 1, Len(s)) \in Seq(Cell) /\ Len(SubSeq(s, k + 1, Len(s))) = Len(s) - k
      /\ \A i \in 1 .. Len(s) - k : SubSeq(s, k + 1, Len(s))[i] = s[i + k]
    OBVIOUS
<1> DEFINE whole == SubSeq(s, a + 1, Len(s))
           one == SubSeq(s, a + 1, k)
           two == SubSeq(s, k + 1, Len(s))
<1>9. \A u, v \in Seq(Cell) :
        /\ u \o v \in Seq(Cell) /\ Len(u \o v) = Len(u) + Len(v)
        /\ \A i \in 1 .. Len(u) + Len(v) : (u \o v)[i] = IF i <= Len(u) THEN u[i] ELSE v[i - Len(u)]
    OBVIOUS
<1>10. /\ one \in Seq(Cell) /\ two \in Seq(Cell) /\ Len(one) = k - a /\ Len(two) = Len(s) - k
       /\ whole \in Seq(Cell) /\ Len(whole) = Len(s) - a
       /\ \A i \in 1 .. Len(s) - a : whole[i] = s[i + a]
       /\ \A i \in 1 .. k - a : one[i] = s[i + a]
       /\ \A i \in 1 .. Len(s) - k : two[i] = s[i + k]
       /\ Len(s) \in Nat
    BY <1>1, <1>2, <1>3
<1> HIDE DEF whole, one, two
<1>4. /\ one \o two \in Seq(Cell) /\ Len(one \o two) = (k - a) + (Len(s) - k)
      /\ \A i \in 1 .. (k - a) + (Len(s) - k) : (one \o two)[i] = IF i <= k - a THEN one[i] ELSE two[i - (k - a)]
    <2>1. /\ one \o two \in Seq(Cell) /\ Len(one \o two) = Len(one) + Len(two)
          /\ \A i \in 1 .. Len(one) + Len(two) : (one \o two)[i] = IF i <= Len(one) THEN one[i] ELSE two[i - Len(one)]
        BY ONLY <1>9, <1>10, Zenon
    <2>2. QED BY ONLY <1>10, <2>1, Zenon
<1>5. Len(one \o two) = Len(whole)
    BY <1>4, <1>10
<1>6. \A i \in 1 .. Len(whole) : (one \o two)[i] = whole[i]
    <2>1. TAKE i \in 1 .. Len(whole)
    <2>1a. i \in 1 .. Len(s) - a /\ i \in 1 .. (k - a) + (Len(s) - k) /\ i \in Nat
        BY <1>10
    <2>2. whole[i] = s[i + a] /\ (one \o two)[i] = IF i <= k - a THEN one[i] ELSE two[i - (k - a)]
        BY <1>4, <1>10, <2>1a
    <2>3. CASE i <= k - a
        <3>1. i \in 1 .. k - a
            BY <2>1a, <2>3
        <3>2. QED BY <1>10, <2>2, <2>3, <3>1
    <2>4. CASE ~(i <= k - a)
        <3>1. i - (k - a) \in 1 .. Len(s) - k /\ (i - (k - a)) + k = i + a
            BY <1>10, <2>1a, <2>4
        <3>2. two[i - (k - a)] = s[(i - (k - a)) + k]
            BY <1>10, <3>1
        <3>3. QED BY <2>2, <2>4, <3>1, <3>2
    <2>5. QED BY <2>3, <2>4
<1>7. whole = one \o two
    <2>1. whole \in Seq(Cell) /\ one \o two \in Seq(Cell)
        BY <1>4, <1>10
    <2>2. QED BY <1>5, <1>6, <2>1, SeqEqual
<1>8. QED BY <1>1, <1>2, <1>3, <1>7 DEF whole, one, two

\* What is behind a line is what was put there.
LEMMA SecondPart ==
    ASSUME NEW s \in Seq(Cell), NEW t \in Seq(Cell)
    PROVE  SubSeq(s \o t, Len(s) + 1, Len(s \o t)) = t
<1> DEFINE both == s \o t
           part == SubSeq(both, Len(s) + 1, Len(both))
<1>1. /\ both \in Seq(Cell) /\ Len(both) = Len(s) + Len(t) /\ Len(s) \in Nat /\ Len(t) \in Nat
      /\ \A i \in DOMAIN t : both[i + Len(s)] = t[i]
      /\ DOMAIN t = 1 .. Len(t)
    BY JoinedCells, CellsOf
<1>2. \A u \in Seq(Cell), a, b \in Nat : a <= b /\ b = Len(u) =>
        /\ SubSeq(u, a + 1, b) \in Seq(Cell) /\ Len(SubSeq(u, a + 1, b)) = b - a
        /\ \A i \in 1 .. b - a : SubSeq(u, a + 1, b)[i] = u[i + a]
    BY SMTT(30)
<1> HIDE DEF both
<1>3. /\ part \in Seq(Cell) /\ Len(part) = Len(both) - Len(s)
      /\ \A i \in 1 .. Len(both) - Len(s) : part[i] = both[i + Len(s)]
    BY ONLY <1>1, <1>2
<1> HIDE DEF part
<1>4. Len(part) = Len(t) /\ \A i \in 1 .. Len(part) : part[i] = t[i]
    <2>1. Len(both) - Len(s) = Len(t)
        BY <1>1
    <2>2. QED BY ONLY <1>1, <1>3, <2>1, Zenon
<1>5. part = t
    BY <1>3, <1>4, SeqEqual
<1>6. QED BY <1>5 DEF part, both

----------------------------------------------------------------------------
(* The pieces, and the rest of the line behind them.                       *)

Kept(done, rest) ==
    /\ \A p \in DOMAIN done : LettersRise(done[p]) /\ Before(done[p], rest)
    /\ \A p, q \in DOMAIN done : p < q => Before(done[p], done[q])
    /\ LettersRise(rest)

\* Every letter to be shown is in a piece or in the rest.
HeldIn(letters, done, rest) ==
    \A n \in DOMAIN letters : letters[n] \in Characters => Has(rest, n) \/ \E p \in DOMAIN done : Has(done[p], n)

LEMMA KeptGrows ==
    ASSUME NEW done \in Seq(Seq(Cell)), NEW rest \in Seq(Cell), NEW t \in Seq(Cell), Kept(done, rest),
           LettersRise(t), Before(rest, t), \A p \in DOMAIN done : Before(done[p], t)
    PROVE  Kept(done, rest \o t)
<1> DEFINE both == rest \o t
<1>1. LettersRise(both) /\ \A u : Before(u, both) <=> Before(u, rest) /\ Before(u, t)
    BY JoinedOrder DEF Kept
<1> HIDE DEF both
<1>2. Kept(done, both)
    BY <1>1 DEF Kept
<1>3. QED BY <1>2 DEF both

LEMMA PutBehind ==
    ASSUME NEW done \in Seq(Seq(Cell)), NEW piece \in Seq(Cell)
    PROVE  /\ Append(done, piece) \in Seq(Seq(Cell)) /\ Len(Append(done, piece)) = Len(done) + 1
           /\ DOMAIN Append(done, piece) = DOMAIN done \cup {Len(done) + 1}
           /\ Append(done, piece)[Len(done) + 1] = piece
           /\ \A p \in DOMAIN done : Append(done, piece)[p] = done[p] /\ p < Len(done) + 1 /\ p \in Nat
           /\ Len(done) \in Nat
<1>1. DOMAIN done = 1 .. Len(done) /\ Len(done) \in Nat
    OBVIOUS
<1>2. Append(done, piece) \in Seq(Seq(Cell)) /\ Len(Append(done, piece)) = Len(done) + 1
    OBVIOUS
<1>3. DOMAIN Append(done, piece) = 1 .. Len(done) + 1
    BY <1>2
<1>4. 1 .. Len(done) + 1 = 1 .. Len(done) \cup {Len(done) + 1}
    BY <1>1
<1>5. Append(done, piece)[Len(done) + 1] = piece
    OBVIOUS
<1>6. \A p \in 1 .. Len(done) : Append(done, piece)[p] = done[p]
    OBVIOUS
<1>7. QED BY <1>1, <1>2, <1>3, <1>4, <1>5, <1>6

LEMMA KeptAppended ==
    ASSUME NEW done \in Seq(Seq(Cell)), NEW piece \in Seq(Cell), NEW rest \in Seq(Cell), Kept(done, <<>>),
           LettersRise(piece), LettersRise(rest), Before(piece, rest),
           \A p \in DOMAIN done : Before(done[p], piece) /\ Before(done[p], rest)
    PROVE  Kept(Append(done, piece), rest)
<1> DEFINE more == Append(done, piece)
           last == Len(done) + 1
<1>1. /\ DOMAIN more = DOMAIN done \cup {last} /\ more[last] = piece
      /\ \A p \in DOMAIN done : more[p] = done[p] /\ p < last /\ p \in Nat
      /\ last \in Nat
    BY PutBehind
<1> HIDE DEF more, last
<1>2. \A p \in DOMAIN more : LettersRise(more[p]) /\ Before(more[p], rest)
    BY <1>1 DEF Kept
<1>3. ASSUME NEW p \in DOMAIN more, NEW q \in DOMAIN more, p < q PROVE Before(more[p], more[q])
    <2>1. p \in DOMAIN done
        BY <1>1, <1>3
    <2>2. CASE q = last
        BY <1>1, <2>1, <2>2
    <2>3. CASE q \in DOMAIN done
        BY <1>1, <1>3, <2>1, <2>3 DEF Kept
    <2>4. QED BY <1>1, <2>2, <2>3
<1>4. Kept(more, rest)
    BY <1>2, <1>3 DEF Kept
<1>5. QED BY <1>4 DEF more

LEMMA KeptWithout ==
    ASSUME NEW done, NEW rest, Kept(done, rest)
    PROVE  Kept(done, <<>>)
<1>1. DOMAIN <<>> = {}
    OBVIOUS
<1>2. QED BY <1>1 DEF Kept, LettersRise, Before

\* A line is broken: one becomes a piece, with something of no letter around it, the blanks are
\* left out, and the rest is behind the state.
LEMMA BrokenKept ==
    ASSUME NEW done \in Seq(Seq(Cell)), NEW one \in Seq(Cell), NEW blanks \in Seq(Cell), NEW rest \in Seq(Cell),
           NEW head \in Seq(Cell), NEW off \in Seq(Cell), NEW state \in Seq(Cell),
           Silent(blanks), Silent(head), Silent(off), Silent(state),
           Kept(done, one \o (blanks \o rest))
    PROVE  Kept(Append(done, (head \o one) \o off), state \o rest)
<1> DEFINE two == blanks \o rest
           piece == (head \o one) \o off
           next == state \o rest
<1>1. two \in Seq(Cell) /\ head \o one \in Seq(Cell) /\ piece \in Seq(Cell) /\ next \in Seq(Cell)
    OBVIOUS
<1>2. LettersRise(one \o two) /\ \A p \in DOMAIN done : Before(done[p], one \o two)
    BY DEF Kept
<1>3. /\ LettersRise(one) /\ LettersRise(two) /\ Before(one, two)
      /\ \A p \in DOMAIN done : Before(done[p], one) /\ Before(done[p], two)
    <2> HIDE DEF two
    <2>1. QED BY <1>1, <1>2, JoinedOrder
<1>4. /\ LettersRise(rest) /\ Before(one, rest) /\ \A p \in DOMAIN done : Before(done[p], rest)
    BY <1>3, JoinedOrder
<1>5. /\ \A u : Before(head, u) /\ Before(u, head) /\ Before(off, u) /\ Before(u, off)
      /\ \A u : Before(state, u) /\ Before(u, state)
      /\ LettersRise(head) /\ LettersRise(off) /\ LettersRise(state)
    BY SilentIsApart
<1>6. /\ LettersRise(head \o one)
      /\ \A u : Before(u, head \o one) <=> Before(u, head) /\ Before(u, one)
      /\ \A u : Before(head \o one, u) <=> Before(head, u) /\ Before(one, u)
    BY <1>3, <1>5, JoinedOrder
<1>7. /\ LettersRise(piece)
      /\ \A u : Before(u, piece) <=> Before(u, head \o one) /\ Before(u, off)
      /\ \A u : Before(piece, u) <=> Before(head \o one, u) /\ Before(off, u)
    <2> DEFINE front == head \o one
    <2>1. front \in Seq(Cell) /\ LettersRise(front) /\ LettersRise(off) /\ Before(front, off)
        BY <1>1, <1>5, <1>6
    <2> HIDE DEF front
    <2>2. /\ LettersRise(front \o off)
          /\ \A u : Before(u, front \o off) <=> Before(u, front) /\ Before(u, off)
          /\ \A u : Before(front \o off, u) <=> Before(front, u) /\ Before(off, u)
        BY <2>1, JoinedOrder
    <2>3. QED BY <2>2 DEF front
<1>8. LettersRise(next) /\ \A u : Before(u, next) <=> Before(u, state) /\ Before(u, rest)
    BY <1>4, <1>5, JoinedOrder
<1> HIDE DEF two, piece, next
<1>9. Before(piece, next) /\ \A p \in DOMAIN done : Before(done[p], piece) /\ Before(done[p], next)
    BY <1>3, <1>4, <1>5, <1>6, <1>7, <1>8
<1>10. Kept(done, <<>>)
    BY KeptWithout
<1>11. Kept(Append(done, piece), next)
    BY ONLY <1>1, <1>7, <1>8, <1>9, <1>10, KeptAppended
<1>12. QED BY <1>11 DEF piece, next

LEMMA BrokenHeld ==
    ASSUME NEW letters \in Seq(Letters),
           NEW done \in Seq(Seq(Cell)), NEW one \in Seq(Cell), NEW blanks \in Seq(Cell), NEW rest \in Seq(Cell),
           NEW head \in Seq(Cell), NEW off \in Seq(Cell), NEW state \in Seq(Cell),
           Silent(blanks), HeldIn(letters, done, one \o (blanks \o rest))
    PROVE  HeldIn(letters, Append(done, (head \o one) \o off), state \o rest)
<1> DEFINE two == blanks \o rest
           piece == (head \o one) \o off
           next == state \o rest
           more == Append(done, piece)
           last == Len(done) + 1
<1>1. two \in Seq(Cell) /\ head \o one \in Seq(Cell) /\ piece \in Seq(Cell) /\ next \in Seq(Cell)
    OBVIOUS
<1>2. /\ DOMAIN more = DOMAIN done \cup {last} /\ more[last] = piece
      /\ \A p \in DOMAIN done : more[p] = done[p]
    <2> HIDE DEF piece
    <2>1. QED BY <1>1, PutBehind
<1>3. \A n \in Nat : /\ Has(two, n) <=> Has(blanks, n) \/ Has(rest, n)
                     /\ Has(next, n) <=> Has(state, n) \/ Has(rest, n)
                     /\ Has(head \o one, n) <=> Has(head, n) \/ Has(one, n)
    BY JoinedKeep
<1>4. \A n \in Nat : Has(one \o two, n) <=> Has(one, n) \/ Has(two, n)
    <2> HIDE DEF two
    <2>1. QED BY <1>1, JoinedKeep
<1>5. \A n \in Nat : Has(piece, n) <=> Has(head \o one, n) \/ Has(off, n)
    <2> DEFINE front == head \o one
    <2>1. front \in Seq(Cell)
        BY <1>1
    <2> HIDE DEF front
    <2>2. \A n \in Nat : Has(front \o off, n) <=> Has(front, n) \/ Has(off, n)
        BY <2>1, JoinedKeep
    <2>3. QED BY <2>2 DEF front
<1>6. \A n \in Nat \ {0} : ~Has(blanks, n)
    BY DEF Silent, Has
<1> HIDE DEF two, piece, next, more, last
<1>7. HeldIn(letters, done, one \o two)
    BY DEF two
<1>8. SUFFICES ASSUME NEW n \in DOMAIN letters, letters[n] \in Characters
               PROVE  Has(next, n) \/ \E p \in DOMAIN more : Has(more[p], n)
    BY DEF HeldIn, next, more, piece
<1>9. n \in Nat \ {0}
    OBVIOUS
<1>10. Has(one \o two, n) \/ \E p \in DOMAIN done : Has(done[p], n)
    BY <1>7, <1>8 DEF HeldIn
<1>11. CASE Has(one, n)
    BY <1>2, <1>3, <1>5, <1>9, <1>11
<1>12. CASE Has(two, n)
    BY <1>3, <1>6, <1>9, <1>12
<1>13. CASE \E p \in DOMAIN done : Has(done[p], n)
    BY <1>2, <1>13
<1>14. QED BY <1>4, <1>9, <1>10, <1>11, <1>12, <1>13

----------------------------------------------------------------------------
(* Columns.                                                                *)

LEMMA Shifted ==
    ASSUME NEW T, IsFiniteSet(T), NEW U, NEW f \in [T -> U], \A u \in U : \E x \in T : f[x] = u
    PROVE  IsFiniteSet(U) /\ Cardinality(U) <= Cardinality(T)
<1>1. f \in Surjection(T, U)
    BY DEF Surjection
<1>2. QED BY <1>1, FS_Surjection

\* The places of a kind in s \o t are no more than those in s and those in t.
LEMMA JoinedCount ==
    ASSUME NEW m \in Nat, NEW n \in Nat, NEW S \in SUBSET (1 .. m), NEW T \in SUBSET (1 .. n),
           NEW B \in SUBSET Nat, \A i \in B : i \in S \/ (i - m \in T)
    PROVE  /\ IsFiniteSet(B) /\ IsFiniteSet(S) /\ IsFiniteSet(T)
           /\ Cardinality(B) <= Cardinality(S) + Cardinality(T)
           /\ Cardinality(B) \in Nat /\ Cardinality(S) \in Nat /\ Cardinality(T) \in Nat
<1> DEFINE U == {i \in B : i - m \in T}
           D == {i - m : i \in U}
<1>1. IsFiniteSet(S) /\ IsFiniteSet(T)
    <2>1. IsFiniteSet(1 .. m) /\ IsFiniteSet(1 .. n)
        BY FS_Interval
    <2>2. QED BY <2>1, FS_Subset
<1>2. D \in SUBSET T
    OBVIOUS
<1>3. IsFiniteSet(D) /\ Cardinality(D) <= Cardinality(T)
    <2> HIDE DEF D
    <2>1. QED BY <1>1, <1>2, FS_Subset
<1>4. IsFiniteSet(U) /\ Cardinality(U) <= Cardinality(D)
    <2> DEFINE f == [x \in D |-> x + m]
    <2>1. \A i \in U : i - m \in D /\ (i - m) + m = i
        OBVIOUS
    <2>2. \A x \in D : \E i \in U : x = i - m
        OBVIOUS
    <2>3. \A x \in D : x + m \in U
        BY <2>1, <2>2
    <2> HIDE DEF D, U
    <2>4. f \in [D -> U] /\ \A u \in U : \E x \in D : f[x] = u
        BY <2>1, <2>3
    <2> HIDE DEF f
    <2>5. QED BY <1>3, <2>4, Shifted
<1>5. B \subseteq S \cup U
    OBVIOUS
<1> HIDE DEF D, U
<1>6. IsFiniteSet(S \cup U) /\ Cardinality(S \cup U) = Cardinality(S) + Cardinality(U) - Cardinality(S \cap U)
    BY <1>1, <1>4, FS_Union
<1>7. IsFiniteSet(S \cap U)
    BY <1>1, FS_Intersection
<1>8. IsFiniteSet(B) /\ Cardinality(B) <= Cardinality(S \cup U)
    BY <1>5, <1>6, FS_Subset
<1>9. /\ Cardinality(S) \in Nat /\ Cardinality(T) \in Nat /\ Cardinality(U) \in Nat /\ Cardinality(D) \in Nat
      /\ Cardinality(S \cap U) \in Nat /\ Cardinality(B) \in Nat /\ Cardinality(S \cup U) \in Nat
    BY <1>1, <1>3, <1>4, <1>6, <1>7, <1>8, FS_CardinalityType
<1>10. QED BY <1>1, <1>3, <1>4, <1>6, <1>8, <1>9

SeenAt(s) == {i \in DOMAIN s : Width(s[i]) > 0}
WideAt(s) == {i \in DOMAIN s : Width(s[i]) = 2}

LEMMA ColumnsAdd ==
    ASSUME NEW s \in Seq(Cell), NEW t \in Seq(Cell)
    PROVE  /\ Columns(s \o t) <= Columns(s) + Columns(t)
           /\ Columns(s \o t) \in Nat /\ Columns(s) \in Nat /\ Columns(t) \in Nat
<1> DEFINE both == s \o t
<1>1. /\ \A i \in DOMAIN both :
            \/ i \in DOMAIN s /\ both[i] = s[i]
            \/ i - Len(s) \in DOMAIN t /\ both[i] = t[i - Len(s)]
      /\ both \in Seq(Cell)
    BY JoinedCells
<1>2. /\ DOMAIN s = 1 .. Len(s) /\ DOMAIN t = 1 .. Len(t) /\ Len(s) \in Nat /\ Len(t) \in Nat
    BY CellsOf
<1> HIDE DEF both
<1>3. DOMAIN both \subseteq Nat
    BY <1>1, CellsOf
<1>4. /\ SeenAt(s) \in SUBSET (1 .. Len(s)) /\ SeenAt(t) \in SUBSET (1 .. Len(t)) /\ SeenAt(both) \in SUBSET Nat
      /\ WideAt(s) \in SUBSET (1 .. Len(s)) /\ WideAt(t) \in SUBSET (1 .. Len(t)) /\ WideAt(both) \in SUBSET Nat
    BY <1>2, <1>3 DEF SeenAt, WideAt
<1>5. \A i \in SeenAt(both) : i \in SeenAt(s) \/ (i - Len(s) \in SeenAt(t))
    BY ONLY <1>1, Zenon DEF SeenAt
<1>6. \A i \in WideAt(both) : i \in WideAt(s) \/ (i - Len(s) \in WideAt(t))
    BY ONLY <1>1, Zenon DEF WideAt
<1>11. \A S \in SUBSET (1 .. Len(s)), T \in SUBSET (1 .. Len(t)), B \in SUBSET Nat :
            (\A i \in B : i \in S \/ (i - Len(s) \in T)) =>
                /\ Cardinality(B) <= Cardinality(S) + Cardinality(T)
                /\ Cardinality(B) \in Nat /\ Cardinality(S) \in Nat /\ Cardinality(T) \in Nat
    BY ONLY <1>2, JoinedCount, ZenonT(60)
<1>7. /\ Cardinality(SeenAt(both)) <= Cardinality(SeenAt(s)) + Cardinality(SeenAt(t))
      /\ Cardinality(SeenAt(both)) \in Nat /\ Cardinality(SeenAt(s)) \in Nat /\ Cardinality(SeenAt(t)) \in Nat
    BY ONLY <1>4, <1>5, <1>11, Zenon
<1>8. /\ Cardinality(WideAt(both)) <= Cardinality(WideAt(s)) + Cardinality(WideAt(t))
      /\ Cardinality(WideAt(both)) \in Nat /\ Cardinality(WideAt(s)) \in Nat /\ Cardinality(WideAt(t)) \in Nat
    BY ONLY <1>4, <1>6, <1>11, Zenon
<1>9. \A u : Columns(u) = Cardinality(SeenAt(u)) + Cardinality(WideAt(u))
    BY DEF Columns, SeenAt, WideAt
<1>10. QED BY <1>7, <1>8, <1>9, SMTT(30) DEF both

LEMMA ColumnsOfNarrow ==
    ASSUME NEW s \in Seq(Cell), \A i \in DOMAIN s : Width(s[i]) # 2
    PROVE  Columns(s) \in Nat /\ Columns(s) <= Len(s)
<1>1. WideAt(s) = {}
    BY DEF WideAt
<1>2. SeenAt(s) \in SUBSET (1 .. Len(s)) /\ Len(s) \in Nat
    BY CellsOf DEF SeenAt
<1>3. /\ IsFiniteSet(1 .. Len(s)) /\ Cardinality(1 .. Len(s)) = Len(s)
    <2>1. \A n \in Nat : IsFiniteSet(1 .. n) /\ Cardinality(1 .. n) = IF 1 > n THEN 0 ELSE n - 1 + 1
        BY FS_Interval
    <2>2. \A n \in Nat : (IF 1 > n THEN 0 ELSE n - 1 + 1) = n
        OBVIOUS
    <2>3. QED BY ONLY <1>2, <2>1, <2>2, Zenon
<1>4. IsFiniteSet(SeenAt(s)) /\ Cardinality(SeenAt(s)) <= Len(s)
    BY <1>2, <1>3, FS_Subset
<1>5. Cardinality(SeenAt(s)) \in Nat
    BY <1>4, FS_CardinalityType
<1>6. Columns(s) = Cardinality(SeenAt(s)) + Cardinality(WideAt(s))
    BY DEF Columns, SeenAt, WideAt
<1>7. QED BY <1>1, <1>4, <1>5, <1>6, FS_EmptySet

LEMMA WidthOfBlank ==
    /\ \A cell \in Cell : cell.c \in {" ", "a"} => Width(cell) = 1
    /\ Width(FullOff) = 0 /\ FullOff \in Cell /\ Blank \in Cell
    /\ FullOff.n = 0 /\ Blank.n = 0 /\ Blank.c = " " /\ FullOff.c = "FULL_OFF"
<1>1. Blank \in Cell /\ FullOff \in Cell /\ FullOff.n = 0 /\ Blank.n = 0 /\ Blank.c = " " /\ FullOff.c = "FULL_OFF"
    <2>1. Blank = [c |-> " ", n |-> 0] /\ FullOff = [c |-> "FULL_OFF", n |-> 0]
        BY DEF FullOff, Blank, Byte
    <2>7. " " \in Bytes /\ "FULL_OFF" \in Bytes
        BY DEF Bytes, Letters
    <2>8. \A c \in Bytes : [c |-> c, n |-> 0] \in Cell
        BY DEF Cell
    <2>2. Blank \in Cell
        BY <2>1, <2>7, <2>8
    <2>3. FullOff \in Cell
        BY <2>1, <2>7, <2>8
    <2>4. FullOff.n = 0 /\ FullOff.c = "FULL_OFF"
        BY <2>1
    <2>5. Blank.n = 0 /\ Blank.c = " "
        BY <2>1
    <2>6. QED BY <2>2, <2>3, <2>4, <2>5
<1>2. ASSUME NEW cell \in Cell, cell.c \in {" ", "a"} PROVE Width(cell) = 1
    <2>1. cell.c \notin Unseen /\ cell.c # "W"
        BY <1>2 DEF Unseen, Toggles, Codes
    <2>2. QED BY <2>1 DEF Width, ColumnsOf
<1>3. Width(FullOff) = 0
    BY <1>1 DEF Width, Unseen
<1>4. QED BY <1>1, <1>2, <1>3

LEMMA ColumnsOfBlanks ==
    ASSUME NEW n \in Nat
    PROVE  /\ [i \in 1 .. n |-> Blank] \in Seq(Cell) /\ Len([i \in 1 .. n |-> Blank]) = n
           /\ Columns([i \in 1 .. n |-> Blank]) <= n /\ Columns([i \in 1 .. n |-> Blank]) \in Nat
           /\ Silent([i \in 1 .. n |-> Blank])
           /\ \A j \in DOMAIN [i \in 1 .. n |-> Blank] : [i \in 1 .. n |-> Blank][j].c = " "
<1> DEFINE s == [i \in 1 .. n |-> Blank]
<1>1. s \in Seq(Cell) /\ Len(s) = n
    <2>1. \A x : x \in Cell => [i \in 1 .. n |-> x] \in Seq(Cell) /\ Len([i \in 1 .. n |-> x]) = n
        OBVIOUS
    <2>2. QED BY <2>1, WidthOfBlank
<1>2. \A i \in DOMAIN s : s[i] = Blank
    OBVIOUS
<1> HIDE DEF s
<1>3. \A i \in DOMAIN s : Width(s[i]) # 2 /\ s[i].c = " " /\ s[i].n = 0
    <2>1. Width(Blank) = 1 /\ Blank.c = " " /\ Blank.n = 0
        BY WidthOfBlank
    <2>2. TAKE i \in DOMAIN s
    <2>3. s[i] = Blank
        BY <1>2
    <2>4. Width(s[i]) = 1 /\ s[i].c = " " /\ s[i].n = 0
        BY <2>1, <2>3, Zenon
    <2>7. Width(s[i]) = 1
        BY <2>4
    <2>5. Width(s[i]) # 2
        BY ONLY <2>7
    <2>6. QED BY ONLY <2>4, <2>5
<1>4. Columns(s) \in Nat /\ Columns(s) <= Len(s)
    BY <1>1, <1>3, ColumnsOfNarrow
<1>5. Silent(s) /\ \A i \in DOMAIN s : s[i].c = " "
    BY <1>3 DEF Silent
<1>6. QED BY <1>1, <1>4, <1>5 DEF s

----------------------------------------------------------------------------
(* Where a line is broken.                                                 *)

\* What is true of lbuf, with the indices into it and the columns counted.
Around(e, b) ==
    /\ b.start <= Pos(b)
    /\ b.wordBreak # 0 => b.start <= b.wordBreak /\ b.wordBreak < Pos(b)
    /\ b.col <= Columns(b.cont) + (Pos(b) - b.start)
    /\ Silent(b.cont) /\ Columns(b.cont) <= e.columns
    /\ BlanksSilent(b.lbuf)

LEMMA BufferFields ==
    ASSUME NEW b \in Buffer
    PROVE  /\ b.lbuf \in Seq(Cell) /\ b.cont \in Seq(Cell) /\ Pos(b) \in Nat
           /\ b.start \in Nat /\ b.wordBreak \in Nat
           /\ b.col \in Int /\ b.ndCnt \in Int /\ b.indent \in Int /\ b.beepCnt \in Nat /\ b.tabCnt \in Nat
           /\ b.continued \in BOOLEAN /\ b.underline \in BOOLEAN /\ b.invert \in BOOLEAN /\ b.bold \in BOOLEAN
           /\ b.fg \in Codes /\ b.bg \in Codes /\ b.torn \in BOOLEAN
<1>1. b.lbuf \in Seq(Cell)
    BY DEF Buffer
<1>2. Pos(b) \in Nat
    BY <1>1 DEF Pos
<1>3. QED BY <1>1, <1>2 DEF Buffer

LEMMA BehindBlanksIs ==
    ASSUME NEW b \in Buffer, NEW k \in Nat, k <= Pos(b)
    PROVE  /\ BehindBlanks(b, k) \in Nat /\ k <= BehindBlanks(b, k) /\ BehindBlanks(b, k) <= Pos(b)
           /\ BehindBlanks(b, k) = Pos(b) \/ b.lbuf[BehindBlanks(b, k) + 1].c # " "
           /\ \A i \in k + 1 .. BehindBlanks(b, k) : b.lbuf[i].c = " "
<1> DEFINE ends(j) == j = Pos(b) \/ b.lbuf[j + 1].c # " "
           T == {j \in k .. Pos(b) : ends(j)}
<1>1. Pos(b) \in Nat
    BY BufferFields
<1>2. Pos(b) \in T
    BY <1>1
<1>3. T \in SUBSET Nat /\ T # {}
    <2>1. k .. Pos(b) \subseteq Nat
        BY <1>1
    <2>2. T \subseteq k .. Pos(b)
        OBVIOUS
    <2> HIDE DEF T
    <2>3. QED BY ONLY <1>2, <2>1, <2>2, Zenon
<1>4. \A j : j \in T <=> j \in k .. Pos(b) /\ ends(j)
    OBVIOUS
<1> HIDE DEF T
<1>5. PICK x \in T : \A y \in T : x <= y
    BY ONLY <1>3, LeastOf
<1>6. x \in k .. Pos(b) /\ ends(x)
    BY <1>4
<1>7. \A i \in k + 1 .. x : b.lbuf[i].c = " "
    <2>1. TAKE i \in k + 1 .. x
    <2>2. i - 1 \in k .. Pos(b) /\ i - 1 < x /\ (i - 1) + 1 = i /\ x \in Nat
        <3>1. x \in k .. Pos(b)
            BY <1>6
        <3>2. \A z \in k .. Pos(b) : \A h \in k + 1 .. z :
                 h - 1 \in k .. Pos(b) /\ h - 1 < z /\ (h - 1) + 1 = h /\ z \in Nat
            BY <1>1
        <3>3. QED BY ONLY <3>1, <3>2, <2>1, Zenon
    <2>3. i - 1 \notin T
        BY <1>5, <2>2
    <2>4. b.lbuf[(i - 1) + 1].c = " "
        BY <1>4, <2>2, <2>3
    <2>5. QED BY <2>2, <2>4
<1>8. \E j \in k .. Pos(b) : ends(j) /\ \A i \in k + 1 .. j : b.lbuf[i].c = " "
    BY <1>6, <1>7
<1>9. /\ BehindBlanks(b, k) \in k .. Pos(b) /\ ends(BehindBlanks(b, k))
      /\ \A i \in k + 1 .. BehindBlanks(b, k) : b.lbuf[i].c = " "
    <2> DEFINE fit(j) == ends(j) /\ \A i \in k + 1 .. j : b.lbuf[i].c = " "
               S == k .. Pos(b)
    <2>1. BehindBlanks(b, k) = CHOOSE j \in S : fit(j)
        BY DEF BehindBlanks
    <2>2. \E j \in S : fit(j)
        BY <1>8
    <2> HIDE DEF fit, S
    <2>3. (CHOOSE j \in S : fit(j)) \in S /\ fit(CHOOSE j \in S : fit(j))
        BY ONLY <2>2
    <2>4. BehindBlanks(b, k) \in S /\ fit(BehindBlanks(b, k))
        BY ONLY <2>1, <2>3, Zenon
    <2>5. QED BY ONLY <2>4, Zenon DEF fit, S
<1>10. BehindBlanks(b, k) \in k .. Pos(b)
    BY <1>9
<1>11. BehindBlanks(b, k) \in Nat /\ k <= BehindBlanks(b, k) /\ BehindBlanks(b, k) <= Pos(b)
    BY ONLY <1>1, <1>10, k \in Nat
<1>12. QED BY ONLY <1>9, <1>11, Zenon

LEMMA BreakIsInLine ==
    ASSUME NEW e \in SplitSettings, e = splitEnv, NEW b \in Buffer, Around(e, b), b.col > e.columns
    PROVE  BreakAt(b) \in Nat /\ b.start <= BreakAt(b) /\ BreakAt(b) < Pos(b)
<1>1. e.columns \in Nat \ {0}
    BY SplitsAssumption DEF SplitSetting
<1>2. Columns(b.cont) \in Nat
    BY BufferFields, ColumnsAdd
<1>3. /\ Pos(b) \in Nat /\ b.start \in Nat /\ b.wordBreak \in Nat /\ b.col \in Int
    BY BufferFields
<1>4. CASE b.wordBreak = 0
    <2>1. BreakAt(b) = Pos(b) - (b.col - e.columns)
        BY <1>4 DEF BreakAt
    <2>2. QED BY <1>1, <1>2, <1>3, <2>1 DEF Around
<1>5. CASE b.wordBreak # 0
    <2>1. BreakAt(b) = b.wordBreak
        BY <1>5 DEF BreakAt
    <2>2. QED BY <1>3, <1>5, <2>1 DEF Around
<1>6. QED BY <1>4, <1>5

\* CONTINUED_LINE and the blanks behind it are of no letter, and no wider than the screen.
LEMMA ContinuationIs ==
    ASSUME NEW e \in SplitSettings, e = splitEnv, NEW b \in Buffer, Around(e, b)
    PROVE  Continuation(b) \in Seq(Cell) /\ Silent(Continuation(b)) /\ Columns(Continuation(b)) <= e.columns
<1> DEFINE line == Converted(e.continued)
           padding == b.indent - Columns(line)
           n == IF padding < 0 THEN 0 ELSE padding
           blanks == [i \in 1 .. n |-> Blank]
<1>1. line \in Seq(Cell) /\ Silent(line) /\ Columns(line) <= e.columns
    BY ContinuedAssumption DEF Silent
<1>2. e.columns \in Nat \ {0}
    BY SplitsAssumption DEF SplitSetting
<1> HIDE DEF line
<1>3. Columns(line) \in Nat
    BY <1>1, ColumnsAdd
<1>4. b.indent \in Int
    BY BufferFields
<1>5. n \in Nat
    BY <1>3, <1>4
<1> HIDE DEF n
<1>6. blanks \in Seq(Cell) /\ Silent(blanks) /\ Columns(blanks) <= n /\ Columns(blanks) \in Nat
    BY <1>5, ColumnsOfBlanks
<1> HIDE DEF blanks
<1>7. line \o blanks \in Seq(Cell) /\ Silent(line \o blanks) /\ Columns(line \o blanks) <= Columns(line) + Columns(blanks)
      /\ Columns(line \o blanks) \in Nat
    BY <1>1, <1>6, JoinedKeep, ColumnsAdd
<1>8. Continuation(b) =
        IF ~(e.indents /\ b.indent < e.columns \div 3) THEN line
        ELSE IF b.continued THEN b.cont ELSE line \o blanks
    BY DEF Continuation, line, blanks, n
<1>9. CASE ~(e.indents /\ b.indent < e.columns \div 3)
    BY <1>1, <1>8, <1>9
<1>10. CASE (e.indents /\ b.indent < e.columns \div 3) /\ b.continued
    BY <1>8, <1>10, BufferFields DEF Around
<1>11. CASE (e.indents /\ b.indent < e.columns \div 3) /\ ~b.continued
    <2>1. Continuation(b) = line \o blanks
        BY <1>8, <1>11
    <2>2. b.indent <= e.columns
        BY <1>2, <1>4, <1>11
    <2>3. Columns(line) + n <= e.columns
        BY <1>1, <1>2, <1>3, <1>4, <2>2 DEF n
    <2>4. Columns(line \o blanks) <= e.columns
        BY <1>2, <1>3, <1>5, <1>6, <1>7, <2>3
    <2>5. QED BY <1>7, <2>1, <2>4
<1>12. QED BY <1>9, <1>10, <1>11

LEMMA ByteIs ==
    ASSUME NEW c \in Bytes
    PROVE  <<Byte(c)>> \in Seq(Cell) /\ Silent(<<Byte(c)>>) /\ Len(<<Byte(c)>>) = 1
<1>1. Byte(c) \in Cell /\ Byte(c).n = 0
    BY DEF Byte, Cell
<1> DEFINE x == Byte(c)
<1>2. x \in Cell /\ x.n = 0
    BY <1>1
<1> HIDE DEF x
<1>3. <<x>> \in Seq(Cell) /\ DOMAIN <<x>> = {1} /\ <<x>>[1] = x /\ Len(<<x>>) = 1
    BY <1>2
<1>4. Silent(<<x>>)
    BY <1>2, <1>3 DEF Silent
<1>5. QED BY <1>3, <1>4 DEF x

LEMMA ColourBytesAre ==
    ASSUME NEW fg \in Bytes, NEW bg \in Bytes
    PROVE  ColourBytes(fg, bg) \in Seq(Cell) /\ Silent(ColourBytes(fg, bg)) /\ Len(ColourBytes(fg, bg)) = 3
<1>1. "COLOUR_TAG" \in Bytes
    BY DEF Bytes
<1>2. \A c \in Bytes : Byte(c) \in Cell /\ Byte(c).n = 0
    BY DEF Byte, Cell
<1>3. ColourBytes(fg, bg) = <<Byte("COLOUR_TAG"), Byte(fg), Byte(bg)>>
    BY DEF ColourBytes
<1>4. \A x, y, z : x \in Cell /\ y \in Cell /\ z \in Cell /\ x.n = 0 /\ y.n = 0 /\ z.n = 0 =>
        <<x, y, z>> \in Seq(Cell) /\ Silent(<<x, y, z>>) /\ Len(<<x, y, z>>) = 3
    BY DEF Silent
<1>5. QED BY ONLY <1>1, <1>2, <1>3, <1>4, Zenon

\* The bytes that set the state again are of no letter.
LEMMA RebuiltIs ==
    ASSUME NEW b \in Buffer
    PROVE  Rebuilt(b) \in Seq(Cell) /\ Silent(Rebuilt(b))
<1>1. \A c \in Bytes : <<Byte(c)>> \in Seq(Cell) /\ Silent(<<Byte(c)>>)
    BY ByteIs
<1>2. Codes \cup {"UND_TOG", "REV_TOG", "BOLD_TOG", "COLOUR_TAG"} \subseteq Bytes
    BY DEF Bytes, Letters, Toggles
<1>3. <<>> \in Seq(Cell) /\ Silent(<<>>)
    BY DEF Silent
<1>4. \A s, t \in Seq(Cell) : Silent(s) /\ Silent(t) => s \o t \in Seq(Cell) /\ Silent(s \o t)
    BY JoinedKeep, JoinedCells
<1> DEFINE one == IF b.underline THEN <<Byte("UND_TOG")>> ELSE <<>>
           two == IF b.invert THEN <<Byte("REV_TOG")>> ELSE <<>>
           three == IF b.bold THEN <<Byte("BOLD_TOG")>> ELSE <<>>
           four == IF b.fg # NoColour \/ b.bg # NoColour THEN ColourBytes(b.fg, b.bg) ELSE <<>>
<1>5. one \in Seq(Cell) /\ Silent(one)
    BY <1>1, <1>2, <1>3
<1>6. two \in Seq(Cell) /\ Silent(two)
    BY <1>1, <1>2, <1>3
<1>7. three \in Seq(Cell) /\ Silent(three)
    BY <1>1, <1>2, <1>3
<1>8. ColourBytes(b.fg, b.bg) \in Seq(Cell) /\ Silent(ColourBytes(b.fg, b.bg))
    <2>1. b.fg \in Bytes /\ b.bg \in Bytes
        BY <1>2, BufferFields
    <2>2. QED BY <1>2, <2>1, ColourBytesAre
<1>9. four \in Seq(Cell) /\ Silent(four)
    BY <1>3, <1>8
<1>10. Rebuilt(b) = ((one \o two) \o three) \o four
    BY DEF Rebuilt
<1> HIDE DEF one, two, three, four
<1>11. one \o two \in Seq(Cell) /\ Silent(one \o two)
    BY ONLY <1>4, <1>5, <1>6
<1>12. (one \o two) \o three \in Seq(Cell) /\ Silent((one \o two) \o three)
    BY ONLY <1>4, <1>7, <1>11
<1>13. QED BY ONLY <1>4, <1>9, <1>10, <1>12

\* What is not in a piece yet.
Rest(b) == SubSeq(b.lbuf, b.start + 1, Pos(b))

\* The state between two letters.
Between(e, letters, done, b) ==
    /\ Around(e, b)
    /\ Kept(done, Rest(b)) /\ HeldIn(letters, done, Rest(b))
    /\ UpTo(b.lbuf, Len(letters)) /\ \A p \in DOMAIN done : UpTo(done[p], Len(letters))

LEMMA SubSilent ==
    ASSUME NEW s \in Seq(Cell), BlanksSilent(s), NEW a \in Nat, NEW k \in Nat, a <= k, k <= Len(s),
           \A i \in a + 1 .. k : s[i].c = " "
    PROVE  Silent(SubSeq(s, a + 1, k))
<1>1. /\ SubSeq(s, a + 1, k) \in Seq(Cell) /\ Len(SubSeq(s, a + 1, k)) = k - a
      /\ \A i \in 1 .. k - a : SubSeq(s, a + 1, k)[i] = s[i + a]
    BY PartsOfLine
<1>2. DOMAIN SubSeq(s, a + 1, k) = 1 .. k - a
    BY <1>1, CellsOf
<1>3. \A i \in 1 .. k - a : i + a \in a + 1 .. k /\ i + a \in 1 .. Len(s)
    <2>1. Len(s) \in Nat
        BY CellsOf
    <2>2. QED BY ONLY <2>1, a \in Nat, k \in Nat, a <= k, k <= Len(s)
<1>4. \A i \in 1 .. k - a : s[i + a].n = 0
    <2>1. DOMAIN s = 1 .. Len(s)
        BY CellsOf
    <2>2. QED BY ONLY <1>3, <2>1, Zenon, BlanksSilent(s), \A i \in a + 1 .. k : s[i].c = " " DEF BlanksSilent
<1>5. QED BY <1>1, <1>2, <1>4 DEF Silent

LEMMA SubUpTo ==
    ASSUME NEW s \in Seq(Cell), NEW m \in Nat, UpTo(s, m), NEW a \in Nat, NEW k \in Nat, a <= k, k <= Len(s)
    PROVE  UpTo(SubSeq(s, a + 1, k), m)
<1>1. /\ SubSeq(s, a + 1, k) \in Seq(Cell) /\ Len(SubSeq(s, a + 1, k)) = k - a
      /\ \A i \in 1 .. k - a : SubSeq(s, a + 1, k)[i] = s[i + a]
    BY PartsOfLine
<1>2. DOMAIN SubSeq(s, a + 1, k) = 1 .. k - a /\ DOMAIN s = 1 .. Len(s)
    BY <1>1, CellsOf
<1>3. \A i \in 1 .. k - a : i + a \in 1 .. Len(s)
    OBVIOUS
<1>4. \A i \in 1 .. k - a : s[i + a].n <= m
    BY <1>2, <1>3 DEF UpTo
<1>5. QED BY <1>1, <1>2, <1>4 DEF UpTo

\* The fields of the buffer after a break.
LEMMA RestartedFields ==
    ASSUME NEW b \in Buffer, NEW e \in SplitSettings, e = splitEnv, Around(e, b),
           NEW j \in Nat, j = BehindBlanks(b, BreakAt(b)), j <= Pos(b)
    PROVE  /\ Restarted(b) \in Buffer
           /\ Restarted(b).cont = Continuation(b) /\ Restarted(b).wordBreak = 0 /\ Restarted(b).continued = TRUE
           /\ Restarted(b).col = Columns(Continuation(b)) + (Pos(b) - j)
           /\ Restarted(b).underline = b.underline /\ Restarted(b).invert = b.invert /\ Restarted(b).bold = b.bold
           /\ Restarted(b).fg = b.fg /\ Restarted(b).bg = b.bg
           /\ Rebuilt(b) = <<>> => Restarted(b).lbuf = b.lbuf /\ Restarted(b).start = j
           /\ Rebuilt(b) # <<>> =>
                 /\ Restarted(b).lbuf = (b.lbuf \o Rebuilt(b)) \o SubSeq(b.lbuf, j + 1, Pos(b))
                 /\ Restarted(b).start = Pos(b)
<1> DEFINE cont == Continuation(b)
           rest == SubSeq(b.lbuf, j + 1, Pos(b))
           state == Rebuilt(b)
           count == Cardinality({i \in DOMAIN state : state[i].c \in Toggles \cup {"COLOUR_TAG"}})
           tears == \E i \in DOMAIN rest : rest[i].c \in Toggles \cup {"COLOUR_TAG"}
           lbuf == IF state = <<>> THEN b.lbuf ELSE (b.lbuf \o state) \o rest
           start == IF state = <<>> THEN j ELSE Pos(b)
           col == Columns(cont) + Len(rest)
<1>1. b.lbuf \in Seq(Cell) /\ Pos(b) \in Nat /\ Pos(b) = Len(b.lbuf) /\ b.ndCnt \in Int /\ b.torn \in BOOLEAN
    BY BufferFields DEF Pos
<1>2. rest \in Seq(Cell) /\ Len(rest) = Pos(b) - j
    BY <1>1, PartsOfLine
<1>3. state \in Seq(Cell)
    BY RebuiltIs
<1>4. cont \in Seq(Cell) /\ Columns(cont) \in Nat
    BY ContinuationIs, ColumnsAdd
<1>5. count \in Nat
    <2>1. DOMAIN state = 1 .. Len(state) /\ Len(state) \in Nat
        BY <1>3, CellsOf
    <2>2. IsFiniteSet(DOMAIN state)
        BY <2>1, FS_Interval
    <2> DEFINE B == {i \in DOMAIN state : state[i].c \in Toggles \cup {"COLOUR_TAG"}}
    <2>3. B \in SUBSET DOMAIN state
        OBVIOUS
    <2> HIDE DEF B
    <2>4. Cardinality(B) \in Nat
        BY <2>2, <2>3, FS_Subset, FS_CardinalityType
    <2>5. QED BY <2>4 DEF B
<1>6. lbuf \in Seq(Cell)
    <2> HIDE DEF rest, state
    <2>1. b.lbuf \o state \in Seq(Cell)
        BY <1>1, <1>3
    <2>2. (b.lbuf \o state) \o rest \in Seq(Cell)
        BY <1>2, <2>1
    <2>3. QED BY <1>1, <2>2
<1>7. start \in Nat
    BY <1>1
<1>8. tears \in BOOLEAN
    OBVIOUS
<1>9. Restarted(b) = [b EXCEPT !.lbuf = lbuf, !.start = start, !.wordBreak = 0, !.cont = cont, !.continued = TRUE,
                               !.col = col, !.ndCnt = b.ndCnt + count, !.torn = b.torn \/ tears]
    BY DEF Restarted
<1>10. col \in Int /\ b.ndCnt + count \in Int /\ (b.torn \/ tears) \in BOOLEAN
    BY <1>1, <1>2, <1>4, <1>5, SMTT(30)
<1> DEFINE ndCnt == b.ndCnt + count
           torn == b.torn \/ tears
<1>11. ndCnt \in Int /\ torn \in BOOLEAN /\ col \in Int /\ col = Columns(cont) + (Pos(b) - j)
    BY <1>2, <1>10
<1>12. Restarted(b) = [b EXCEPT !.lbuf = lbuf, !.start = start, !.wordBreak = 0, !.cont = cont, !.continued = TRUE,
                                !.col = col, !.ndCnt = ndCnt, !.torn = torn]
    BY <1>9
<1>13. /\ state = <<>> => lbuf = b.lbuf /\ start = j
       /\ state # <<>> => lbuf = (b.lbuf \o state) \o rest /\ start = Pos(b)
    OBVIOUS
<1> HIDE DEF lbuf, start, cont, col, ndCnt, torn, state, rest
<1> DEFINE r == [b EXCEPT !.lbuf = lbuf, !.start = start, !.wordBreak = 0, !.cont = cont, !.continued = TRUE,
                          !.col = col, !.ndCnt = ndCnt, !.torn = torn]
<1>14. /\ r \in Buffer
       /\ r.lbuf = lbuf /\ r.start = start /\ r.wordBreak = 0 /\ r.cont = cont /\ r.continued = TRUE /\ r.col = col
       /\ r.underline = b.underline /\ r.invert = b.invert /\ r.bold = b.bold /\ r.fg = b.fg /\ r.bg = b.bg
    BY <1>4, <1>6, <1>7, <1>11, ZenonT(60) DEF Buffer
<1> HIDE DEF r
<1>15. Restarted(b) = r
    BY <1>12 DEF r
<1>16. QED BY <1>11, <1>13, <1>14, <1>15 DEF cont, state, rest

\* What is left of a line that is broken is behind its state.
LEMMA RestRestarted ==
    ASSUME NEW b \in Buffer, NEW e \in SplitSettings, e = splitEnv, Around(e, b),
           NEW j \in Nat, j = BehindBlanks(b, BreakAt(b)), j <= Pos(b)
    PROVE  /\ Rest(Restarted(b)) = Rebuilt(b) \o SubSeq(b.lbuf, j + 1, Pos(b))
           /\ Pos(Restarted(b)) - Restarted(b).start >= Pos(b) - j
           /\ Restarted(b).start <= Pos(Restarted(b))
           /\ Rebuilt(b) = <<>> => Pos(Restarted(b)) = Pos(b) /\ Restarted(b).start = j
           /\ BlanksSilent(Restarted(b).lbuf)
           /\ \A m \in Nat : UpTo(b.lbuf, m) => UpTo(Restarted(b).lbuf, m)
<1> DEFINE rest == SubSeq(b.lbuf, j + 1, Pos(b))
           state == Rebuilt(b)
           r == Restarted(b)
<1>1. b.lbuf \in Seq(Cell) /\ Pos(b) \in Nat /\ Pos(b) = Len(b.lbuf)
    BY BufferFields DEF Pos
<1>2. rest \in Seq(Cell) /\ Len(rest) = Pos(b) - j
    BY <1>1, PartsOfLine
<1>3. state \in Seq(Cell) /\ Silent(state)
    BY RebuiltIs
<1>4. BlanksSilent(b.lbuf)
    BY DEF Around
<1>5. /\ state = <<>> => r.lbuf = b.lbuf /\ r.start = j
      /\ state # <<>> => r.lbuf = (b.lbuf \o state) \o rest /\ r.start = Pos(b)
    BY RestartedFields
<1>6. Pos(r) = Len(r.lbuf) /\ Rest(r) = SubSeq(r.lbuf, r.start + 1, Len(r.lbuf))
    BY DEF Rest, Pos
<1>7. BlanksSilent(rest) /\ \A m \in Nat : UpTo(b.lbuf, m) => UpTo(rest, m)
    <2>1. \A m \in Nat : UpTo(b.lbuf, m) => UpTo(rest, m)
        BY <1>1, SubUpTo
    <2>2. /\ \A i \in 1 .. Pos(b) - j : rest[i] = b.lbuf[i + j]
          /\ DOMAIN rest = 1 .. Pos(b) - j /\ DOMAIN b.lbuf = 1 .. Pos(b)
        BY <1>1, <1>2, PartsOfLine, CellsOf, SMTT(30)
    <2>3. \A i \in 1 .. Pos(b) - j : i + j \in 1 .. Pos(b)
        BY <1>1
    <2> HIDE DEF rest
    <2>4. BlanksSilent(rest)
        <3>1. SUFFICES ASSUME NEW i \in DOMAIN rest, rest[i].c = " " PROVE rest[i].n = 0
            BY DEF BlanksSilent
        <3>2. i + j \in DOMAIN b.lbuf /\ rest[i] = b.lbuf[i + j]
            BY ONLY <2>2, <2>3, i \in DOMAIN rest, Zenon
        <3>3. QED BY ONLY <1>4, <3>1, <3>2, Zenon DEF BlanksSilent
    <2>5. QED BY <2>1, <2>4
<1> HIDE DEF rest, state, r
<1>8. CASE state = <<>>
    <2>1. Rest(r) = state \o rest
        <3>1. Rest(r) = rest
            BY <1>1, <1>5, <1>6, <1>8 DEF rest
        <3>2. \A u \in Seq(Cell) : <<>> \o u = u
            OBVIOUS
        <3>3. QED BY ONLY <1>2, <1>8, <3>1, <3>2, Zenon
    <2>2. /\ Pos(r) - r.start >= Pos(b) - j /\ r.start <= Pos(r)
          /\ Pos(r) = Pos(b) /\ r.start = j
        BY <1>1, <1>5, <1>6, <1>8
    <2>3. BlanksSilent(r.lbuf) /\ \A m \in Nat : UpTo(b.lbuf, m) => UpTo(r.lbuf, m)
        BY <1>4, <1>5, <1>8
    <2>4. QED BY <2>1, <2>2, <2>3 DEF r, rest, state
<1>9. CASE state # <<>>
    <2> DEFINE next == state \o rest
    <2>1. next \in Seq(Cell) /\ Len(next) = Len(state) + Len(rest) /\ Len(state) \in Nat
        BY <1>2, <1>3
    <2>2. r.lbuf = b.lbuf \o next /\ r.start = Len(b.lbuf)
        <3>1. \A s, t, u \in Seq(Cell) : (s \o t) \o u = s \o (t \o u)
            BY SMTT(30)
        <3>2. QED BY ONLY <1>1, <1>2, <1>3, <1>5, <1>9, <3>1, Zenon
    <2>3. BlanksSilent(next) /\ \A m \in Nat : UpTo(b.lbuf, m) => UpTo(next, m)
        <3>1. BlanksSilent(state) /\ \A m \in Nat : UpTo(state, m)
            <4>1. \A m \in Nat : 0 <= m
                OBVIOUS
            <4>2. BlanksSilent(state)
                BY <1>3, SilentIsApart
            <4>3. QED BY <1>3, <4>1, <4>2 DEF Silent, UpTo
        <3>2. QED BY <1>2, <1>3, <1>7, <3>1, JoinedKeep
    <2> HIDE DEF next
    <2>4. Rest(r) = next
        BY <1>1, <1>6, <2>1, <2>2, SecondPart
    <2>5. Pos(r) = Len(b.lbuf) + Len(next)
        BY <1>1, <1>6, <2>1, <2>2, JoinedCells, ZenonT(60)
    <2>6. Pos(r) - r.start >= Pos(b) - j /\ r.start <= Pos(r)
        <3>1. /\ Pos(r) = Len(b.lbuf) + (Len(state) + Len(rest)) /\ r.start = Len(b.lbuf)
              /\ Len(rest) = Pos(b) - j /\ Pos(b) = Len(b.lbuf) /\ Pos(b) \in Nat /\ Len(state) \in Nat
            BY <1>1, <1>2, <2>1, <2>2, <2>5
        <3>2. QED BY ONLY <3>1, j \in Nat, j <= Pos(b)
    <2>7. BlanksSilent(r.lbuf) /\ \A m \in Nat : UpTo(b.lbuf, m) => UpTo(r.lbuf, m)
        <3>1. /\ \A m \in Nat : UpTo(b.lbuf \o next, m) <=> UpTo(b.lbuf, m) /\ UpTo(next, m)
              /\ BlanksSilent(b.lbuf \o next) <=> BlanksSilent(b.lbuf) /\ BlanksSilent(next)
            BY ONLY <1>1, <2>1, JoinedKeep
        <3>2. QED BY ONLY <1>4, <2>2, <2>3, <3>1, Zenon
    <2>8. QED BY <1>9, <2>4, <2>6, <2>7 DEF r, rest, state, next
<1>10. QED BY <1>8, <1>9

\* A line is broken: it goes on as it should, and what was before the break is a piece.
LEMMA BrokenLine ==
    ASSUME NEW e \in SplitSettings, e = splitEnv, NEW letters \in Seq(Letters), NEW done \in Seq(Seq(Cell)),
           NEW b \in Buffer, Between(e, letters, done, b), b.col > e.columns
    PROVE  /\ PieceTo(b, BreakAt(b)) \in Seq(Cell) /\ Restarted(b) \in Buffer
           /\ Between(e, letters, Append(done, PieceTo(b, BreakAt(b))), Restarted(b))
<1> DEFINE k == BreakAt(b)
           j == BehindBlanks(b, k)
           one == SubSeq(b.lbuf, b.start + 1, k)
           blanks == SubSeq(b.lbuf, k + 1, j)
           rest == SubSeq(b.lbuf, j + 1, Pos(b))
           piece == PieceTo(b, k)
           r == Restarted(b)
           state == Rebuilt(b)
           m == Len(letters)
<1>1. Around(e, b) /\ Kept(done, Rest(b)) /\ HeldIn(letters, done, Rest(b)) /\ UpTo(b.lbuf, m)
      /\ \A p \in DOMAIN done : UpTo(done[p], m)
    BY DEF Between
<1>2. /\ b.lbuf \in Seq(Cell) /\ Pos(b) \in Nat /\ Pos(b) = Len(b.lbuf) /\ b.start \in Nat
      /\ b.cont \in Seq(Cell) /\ m \in Nat
    BY BufferFields DEF Pos
<1>3. k \in Nat /\ b.start <= k /\ k < Pos(b) /\ k <= Pos(b)
    <2>1. k \in Nat /\ b.start <= k /\ k < Pos(b)
        BY <1>1, BreakIsInLine
    <2>2. QED BY <1>2, <2>1
<1> HIDE DEF k
<1>4. /\ j \in Nat /\ k <= j /\ j <= Pos(b)
      /\ \A i \in k + 1 .. j : b.lbuf[i].c = " "
    BY <1>3, BehindBlanksIs
<1> HIDE DEF j
<1>5. /\ one \in Seq(Cell) /\ SubSeq(b.lbuf, k + 1, Pos(b)) \in Seq(Cell)
      /\ Rest(b) = one \o SubSeq(b.lbuf, k + 1, Pos(b))
    <2>1. \A a, h \in Nat : a <= h /\ h <= Len(b.lbuf) =>
            /\ SubSeq(b.lbuf, a + 1, h) \in Seq(Cell) /\ SubSeq(b.lbuf, h + 1, Len(b.lbuf)) \in Seq(Cell)
            /\ SubSeq(b.lbuf, a + 1, Len(b.lbuf)) = SubSeq(b.lbuf, a + 1, h) \o SubSeq(b.lbuf, h + 1, Len(b.lbuf))
        BY <1>2, PartsOfLine, ZenonT(60)
    <2>2. QED BY ONLY <1>2, <1>3, <2>1, Zenon DEF Rest, one
<1>6. /\ blanks \in Seq(Cell) /\ rest \in Seq(Cell)
      /\ SubSeq(b.lbuf, k + 1, Pos(b)) = blanks \o rest
    <2>1. \A a, h \in Nat : a <= h /\ h <= Len(b.lbuf) =>
            /\ SubSeq(b.lbuf, a + 1, h) \in Seq(Cell) /\ SubSeq(b.lbuf, h + 1, Len(b.lbuf)) \in Seq(Cell)
            /\ SubSeq(b.lbuf, a + 1, Len(b.lbuf)) = SubSeq(b.lbuf, a + 1, h) \o SubSeq(b.lbuf, h + 1, Len(b.lbuf))
        BY <1>2, PartsOfLine, ZenonT(60)
    <2>2. j \in Nat /\ k <= j /\ j <= Pos(b)
        BY <1>4
    <2>3. QED BY ONLY <1>2, <1>3, <2>1, <2>2, Zenon DEF blanks, rest
<1>7. Silent(blanks)
    <2>1. BlanksSilent(b.lbuf)
        BY <1>1 DEF Around
    <2>2. QED BY <1>2, <1>3, <1>4, <2>1, SubSilent
<1>8. UpTo(one, m)
    BY <1>1, <1>2, <1>3, SubUpTo
<1>9. state \in Seq(Cell) /\ Silent(state) /\ Silent(b.cont) /\ <<FullOff>> \in Seq(Cell) /\ Silent(<<FullOff>>)
    <2>1. "FULL_OFF" \in Bytes
        BY DEF Bytes
    <2>2. <<FullOff>> \in Seq(Cell) /\ Silent(<<FullOff>>)
        BY <2>1, ByteIs DEF FullOff
    <2>3. QED BY <1>1, <2>2, RebuiltIs DEF Around
<1>10. piece = (b.cont \o one) \o <<FullOff>>
    BY DEF PieceTo
<1>11. Rest(r) = state \o rest /\ r.start <= Pos(r) /\ Pos(r) - r.start >= Pos(b) - j /\ BlanksSilent(r.lbuf)
       /\ UpTo(r.lbuf, m)
    <2>1. j = BehindBlanks(b, BreakAt(b))
        BY DEF j, k
    <2>2. QED BY <1>1, <1>2, <1>4, <2>1, RestRestarted
<1>12. /\ r \in Buffer /\ r.cont = Continuation(b) /\ r.wordBreak = 0 /\ r.col = Columns(Continuation(b)) + (Pos(b) - j)
    <2>1. j = BehindBlanks(b, BreakAt(b))
        BY DEF j, k
    <2>2. QED BY <1>1, <1>4, <2>1, RestartedFields
<1>13. Continuation(b) \in Seq(Cell) /\ Silent(Continuation(b)) /\ Columns(Continuation(b)) <= e.columns
    BY <1>1, ContinuationIs
<1> HIDE DEF one, blanks, rest, piece, r, state, m
<1>14. Around(e, r)
    <2>1. Columns(Continuation(b)) \in Nat /\ Pos(r) \in Nat /\ r.start \in Nat
        BY <1>12, <1>13, ColumnsAdd, BufferFields
    <2>2. r.col <= Columns(r.cont) + (Pos(r) - r.start)
        <3>1. /\ r.col = Columns(Continuation(b)) + (Pos(b) - j) /\ r.cont = Continuation(b)
              /\ Pos(r) - r.start >= Pos(b) - j /\ j \in Nat /\ Pos(b) \in Nat
            BY <1>2, <1>4, <1>11, <1>12
        <3>2. QED BY ONLY <2>1, <3>1
    <2>3. QED BY <1>11, <1>12, <1>13, <2>2 DEF Around
<1>15. Rest(b) = one \o (blanks \o rest)
    BY <1>5, <1>6
<1>16. Kept(Append(done, piece), state \o rest) /\ HeldIn(letters, Append(done, piece), state \o rest)
    <2>1. Kept(done, one \o (blanks \o rest)) /\ HeldIn(letters, done, one \o (blanks \o rest))
        BY <1>1, <1>15
    <2>2. Kept(Append(done, (b.cont \o one) \o <<FullOff>>), state \o rest)
        BY ONLY <1>2, <1>5, <1>6, <1>7, <1>9, <2>1, done \in Seq(Seq(Cell)), BrokenKept
    <2>3. HeldIn(letters, Append(done, (b.cont \o one) \o <<FullOff>>), state \o rest)
        BY ONLY <1>2, <1>5, <1>6, <1>7, <1>9, <2>1, done \in Seq(Seq(Cell)), letters \in Seq(Letters), BrokenHeld
    <2>4. QED BY <1>10, <2>2, <2>3
<1>17. piece \in Seq(Cell) /\ UpTo(piece, m)
    <2>1. \A s : Silent(s) => UpTo(s, m)
        <3>1. 0 <= m
            BY <1>2
        <3>2. QED BY <3>1 DEF Silent, UpTo
    <2>2. b.cont \o one \in Seq(Cell) /\ UpTo(b.cont \o one, m)
        BY <1>2, <1>5, <1>8, <1>9, <2>1, JoinedKeep, JoinedCells
    <2>3. QED BY <1>2, <1>9, <1>10, <2>1, <2>2, JoinedKeep, JoinedCells
<1>18. \A p \in DOMAIN Append(done, piece) : UpTo(Append(done, piece)[p], m)
    <2>1. /\ DOMAIN Append(done, piece) = DOMAIN done \cup {Len(done) + 1}
          /\ Append(done, piece)[Len(done) + 1] = piece
          /\ \A p \in DOMAIN done : Append(done, piece)[p] = done[p]
        BY <1>17, PutBehind
    <2>2. QED BY ONLY <1>1, <1>17, <2>1, Zenon
<1>19. Between(e, letters, Append(done, piece), r)
    BY <1>11, <1>14, <1>16, <1>18 DEF Between, m
<1>20. QED BY <1>12, <1>17, <1>19 DEF piece, r, k

----------------------------------------------------------------------------
(* What a letter puts behind a line.                                       *)

\* Cells of letter n, in no order to be wrong.
OfLetter(cells, n) ==
    /\ cells \in Seq(Cell) /\ LettersRise(cells) /\ BlanksSilent(cells)
    /\ \A i \in DOMAIN cells : cells[i].n \in {0, n}

LEMMA SilentOfAny ==
    ASSUME NEW cells \in Seq(Cell), Silent(cells), NEW n \in Nat
    PROVE  OfLetter(cells, n)
<1>1. \A i \in DOMAIN cells : cells[i].n = 0
    BY DEF Silent
<1>2. QED BY <1>1, SilentIsApart DEF OfLetter

LEMMA OneOfLetter ==
    ASSUME NEW c \in Bytes, c # " ", NEW n \in Nat
    PROVE  /\ OfLetter(<<[c |-> c, n |-> n]>>, n) /\ Has(<<[c |-> c, n |-> n]>>, n)
           /\ Len(<<[c |-> c, n |-> n]>>) = 1 /\ <<[c |-> c, n |-> n]>> \in Seq(Cell)
<1> DEFINE x == [c |-> c, n |-> n]
<1>1. x \in Cell /\ x.c = c /\ x.n = n
    BY DEF Cell
<1> HIDE DEF x
<1>7. x \in Cell
    BY <1>1
<1>2. <<x>> \in Seq(Cell) /\ DOMAIN <<x>> = {1} /\ <<x>>[1] = x /\ Len(<<x>>) = 1
    BY ONLY <1>7
<1>8. \A i, j \in {1} : ~(i < j)
    BY ONLY n \in Nat
<1>3. LettersRise(<<x>>)
    BY ONLY <1>2, <1>8, Zenon DEF LettersRise
<1>4. BlanksSilent(<<x>>)
    BY ONLY <1>1, <1>2, c # " ", Zenon DEF BlanksSilent
<1>5. Has(<<x>>, n) /\ \A i \in DOMAIN <<x>> : <<x>>[i].n \in {0, n}
    BY ONLY <1>1, <1>2, Zenon DEF Has
<1>6. QED BY <1>2, <1>3, <1>4, <1>5 DEF OfLetter, x

LEMMA JoinedOfLetter ==
    ASSUME NEW n \in Nat, NEW s, NEW t, OfLetter(s, n), OfLetter(t, n), Silent(s) \/ Silent(t)
    PROVE  /\ OfLetter(s \o t, n) /\ Len(s \o t) = Len(s) + Len(t)
           /\ Has(s, n) \/ Has(t, n) => Has(s \o t, n)
           /\ Len(s) = 1 /\ Len(t) = 1 => Len(s \o t) = 2
           /\ Len(s) = 2 /\ Len(t) = 1 => Len(s \o t) = 3
<1>1. s \in Seq(Cell) /\ t \in Seq(Cell)
    BY DEF OfLetter
<1>2. Before(s, t)
    BY SilentIsApart
<1>3. s \o t \in Seq(Cell) /\ LettersRise(s \o t) /\ BlanksSilent(s \o t) /\ Len(s \o t) = Len(s) + Len(t)
    BY <1>1, <1>2, JoinedOrder, JoinedKeep, JoinedCells DEF OfLetter
<1>4. Has(s, n) \/ Has(t, n) => Has(s \o t, n)
    BY <1>1, JoinedKeep
<1> DEFINE both == s \o t
<1>5. \A i \in DOMAIN both :
            \/ i \in DOMAIN s /\ both[i] = s[i]
            \/ i - Len(s) \in DOMAIN t /\ both[i] = t[i - Len(s)]
    BY <1>1, JoinedCells
<1> HIDE DEF both
<1>6. (\A i \in DOMAIN s : s[i].n \in {0, n}) /\ (\A i \in DOMAIN t : t[i].n \in {0, n})
    BY DEF OfLetter
<1>7. \A i \in DOMAIN both : both[i].n \in {0, n}
    BY ONLY <1>5, <1>6, Zenon
<1>9. /\ Len(s) = 1 /\ Len(t) = 1 => Len(s) + Len(t) = 2
      /\ Len(s) = 2 /\ Len(t) = 1 => Len(s) + Len(t) = 3
    <2>1. 1 + 1 = 2 /\ 2 + 1 = 3
        BY ONLY n \in Nat
    <2>2. QED BY ONLY <2>1, Zenon
<1>8. QED BY <1>3, <1>4, <1>7, <1>9 DEF OfLetter, both

LEMMA TupleOfCells ==
    ASSUME NEW p \in Cell, NEW q \in Cell, NEW r \in Cell
    PROVE  <<p, q>> = <<p>> \o <<q>> /\ <<p, q, r>> = (<<p>> \o <<q>>) \o <<r>>
<1>1. <<p, q>> = <<p>> \o <<q>>
    <2>1. <<p, q>> = Append(<<p>>, q)
        OBVIOUS
    <2>2. <<p>> \in Seq(Cell)
        OBVIOUS
    <2>3. \A s \in Seq(Cell) : Append(s, q) = s \o <<q>>
        OBVIOUS
    <2>4. QED BY <2>1, <2>2, <2>3
<1>2. <<p, q, r>> = <<p, q>> \o <<r>>
    OBVIOUS
<1>3. QED BY <1>1, <1>2

\* What is put for a letter that is marked, or shown.
LEMMA MarkedIs ==
    ASSUME NEW c \in {"A", "G", "I"}, NEW n \in Nat
    PROVE  OfLetter(Marked(c, n), n) /\ Has(Marked(c, n), n) /\ Len(Marked(c, n)) = 3
<1> DEFINE rev == <<Byte("REV_TOG")>>
           x == <<[c |-> c, n |-> n]>>
<1>1. c \in Bytes /\ c # " " /\ "REV_TOG" \in Bytes
    BY DEF Bytes, Letters, Toggles
<1>2. rev \in Seq(Cell) /\ Silent(rev) /\ Len(rev) = 1
    BY <1>1, ByteIs
<1>3. OfLetter(x, n) /\ Has(x, n) /\ Len(x) = 1
    BY <1>1, OneOfLetter
<1>4. OfLetter(rev, n)
    BY <1>2, SilentOfAny
<1>5. Marked(c, n) = (rev \o x) \o rev
    <2>1. Byte("REV_TOG") \in Cell /\ [c |-> c, n |-> n] \in Cell
        BY <1>1 DEF Byte, Cell
    <2>2. QED BY <2>1, TupleOfCells DEF Marked
<1> HIDE DEF rev, x
<1>6. OfLetter(rev \o x, n) /\ Has(rev \o x, n) /\ Len(rev \o x) = 2
    BY <1>2, <1>3, <1>4, JoinedOfLetter
<1>7. OfLetter((rev \o x) \o rev, n) /\ Has((rev \o x) \o rev, n) /\ Len((rev \o x) \o rev) = 3
    <2> DEFINE front == rev \o x
    <2>1. OfLetter(front, n) /\ Has(front, n) /\ Len(front) = 2
        BY <1>6
    <2> HIDE DEF front
    <2>2. OfLetter(front \o rev, n) /\ Has(front \o rev, n) /\ Len(front \o rev) = 3
        BY <1>2, <1>4, <2>1, JoinedOfLetter
    <2>3. QED BY <2>2 DEF front
<1>8. QED BY <1>5, <1>7

LEMMA BytesOfIs ==
    ASSUME NEW t \in Characters, NEW n \in Nat
    PROVE  /\ OfLetter(BytesOf(t, n), n) /\ Has(BytesOf(t, n), n)
           /\ Len(BytesOf(t, n)) \in Nat /\ ColumnsOf(t) <= Len(BytesOf(t, n)) /\ ColumnsOf(t) \in {1, 2}
           /\ t = "a" => BytesOf(t, n) = <<[c |-> "a", n |-> n]>> /\ ColumnsOf(t) = 1
<1>1. t \in Bytes /\ t # " " /\ "~" \in Bytes /\ "A" \in {"A", "G", "I"}
    BY DEF Bytes, Letters, Characters
<1> DEFINE x == <<[c |-> t, n |-> n]>>
           y == <<Byte("~")>>
<1>2. OfLetter(x, n) /\ Has(x, n) /\ Len(x) = 1
    BY <1>1, OneOfLetter
<1>3. OfLetter(y, n) /\ Silent(y) /\ Len(y) = 1
    BY <1>1, ByteIs, SilentOfAny
<1>4. \A p, q, r \in Cell : <<p, q>> = <<p>> \o <<q>> /\ <<p, q, r>> = (<<p>> \o <<q>>) \o <<r>>
    BY TupleOfCells
<1>10. Byte("~") \in Cell /\ [c |-> t, n |-> n] \in Cell
    BY <1>1 DEF Byte, Cell
<1>5. CASE t = "e'"
    <2>1. BytesOf(t, n) = x \o y /\ ColumnsOf(t) = 1
        BY <1>4, <1>5, <1>10 DEF BytesOf, ColumnsOf
    <2> HIDE DEF x, y
    <2>2. OfLetter(x \o y, n) /\ Has(x \o y, n) /\ Len(x \o y) = 2
        BY <1>2, <1>3, JoinedOfLetter
    <2>3. Len(BytesOf(t, n)) = 2
        BY <2>1, <2>2
    <2>4. Len(BytesOf(t, n)) \in Nat /\ ColumnsOf(t) <= Len(BytesOf(t, n)) /\ ColumnsOf(t) \in {1, 2}
        BY ONLY <2>1, <2>3
    <2>5. t # "a"
        BY <1>5
    <2>6. QED BY <2>1, <2>2, <2>4, <2>5
<1>6. CASE t = "W"
    <2>1. BytesOf(t, n) = (x \o y) \o y /\ ColumnsOf(t) = 2
        BY <1>4, <1>6, <1>10 DEF BytesOf, ColumnsOf
    <2> HIDE DEF x, y
    <2>2. OfLetter(x \o y, n) /\ Has(x \o y, n) /\ Len(x \o y) = 2
        BY <1>2, <1>3, JoinedOfLetter
    <2>3. OfLetter((x \o y) \o y, n) /\ Has((x \o y) \o y, n) /\ Len((x \o y) \o y) = 3
        <3> DEFINE front == x \o y
        <3>1. OfLetter(front, n) /\ Has(front, n) /\ Len(front) = 2
            BY <2>2
        <3> HIDE DEF front
        <3>2. OfLetter(front \o y, n) /\ Has(front \o y, n) /\ Len(front \o y) = 3
            BY <1>3, <3>1, JoinedOfLetter
        <3>3. QED BY <3>2 DEF front
    <2>4. Len(BytesOf(t, n)) = 3
        BY <2>1, <2>3
    <2>5. Len(BytesOf(t, n)) \in Nat /\ ColumnsOf(t) <= Len(BytesOf(t, n)) /\ ColumnsOf(t) \in {1, 2}
        BY ONLY <2>1, <2>4
    <2>6. t # "a"
        BY <1>6
    <2>7. QED BY <2>1, <2>3, <2>5, <2>6
<1>7. CASE t = "^A"
    <2>1. BytesOf(t, n) = Marked("A", n) /\ ColumnsOf(t) = 1
        BY <1>7 DEF BytesOf, ColumnsOf
    <2>2. OfLetter(Marked("A", n), n) /\ Has(Marked("A", n), n) /\ Len(Marked("A", n)) = 3
        BY <1>1, MarkedIs
    <2>3. Len(BytesOf(t, n)) = 3
        BY <2>1, <2>2
    <2>4. Len(BytesOf(t, n)) \in Nat /\ ColumnsOf(t) <= Len(BytesOf(t, n)) /\ ColumnsOf(t) \in {1, 2}
        BY ONLY <2>1, <2>3, SMTT(30)
    <2>5. t # "a"
        BY <1>7
    <2>6. QED BY <2>1, <2>2, <2>4, <2>5
<1>8. CASE t = "a"
    <2>1. BytesOf(t, n) = x /\ ColumnsOf(t) = 1 /\ x = <<[c |-> "a", n |-> n]>>
        BY <1>8 DEF BytesOf, ColumnsOf
    <2> HIDE DEF x
    <2>2. Len(BytesOf(t, n)) = 1
        BY <1>2, <2>1
    <2>3. Len(BytesOf(t, n)) \in Nat /\ ColumnsOf(t) <= Len(BytesOf(t, n)) /\ ColumnsOf(t) \in {1, 2}
        BY ONLY <2>1, <2>2
    <2>4. QED BY <1>2, <2>1, <2>3
<1>9. QED BY <1>5, <1>6, <1>7, <1>8 DEF Characters

----------------------------------------------------------------------------
(* A letter is read.                                                       *)

\* How a line goes on when cells are put behind it.
Continued(b, d, cells) ==
    /\ b \in Buffer /\ d \in Buffer
    /\ d.lbuf = b.lbuf \o cells /\ d.start = b.start /\ d.cont = b.cont
    /\ d.col <= b.col + Len(cells)
    /\ d.wordBreak = b.wordBreak \/ (d.wordBreak = Pos(b) /\ Len(cells) > 0)

LEMMA RestGrows ==
    ASSUME NEW b, NEW d, NEW cells \in Seq(Cell), Continued(b, d, cells), b.start <= Pos(b)
    PROVE  /\ Rest(d) = Rest(b) \o cells /\ Pos(d) = Pos(b) + Len(cells)
           /\ Rest(b) \in Seq(Cell)
<1> DEFINE both == b.lbuf \o cells
           n == Len(b.lbuf)
<1>1. /\ b.lbuf \in Seq(Cell) /\ b.start \in Nat /\ Pos(b) = n /\ n \in Nat /\ Len(cells) \in Nat
      /\ d.lbuf = both /\ d.start = b.start /\ Pos(d) = Len(both)
    BY BufferFields, CellsOf DEF Continued, Pos
<1>2. /\ both \in Seq(Cell) /\ Len(both) = n + Len(cells)
      /\ \A i \in DOMAIN b.lbuf : both[i] = b.lbuf[i]
      /\ SubSeq(both, n + 1, Len(both)) = cells
      /\ DOMAIN b.lbuf = 1 .. n
    <2>1. /\ both \in Seq(Cell) /\ Len(both) = n + Len(cells)
          /\ \A i \in DOMAIN b.lbuf : both[i] = b.lbuf[i]
        BY <1>1, JoinedCells
    <2>2. SubSeq(both, n + 1, Len(both)) = cells
        BY <1>1, SecondPart
    <2>3. DOMAIN b.lbuf = 1 .. n
        BY <1>1, CellsOf
    <2>4. QED BY <2>1, <2>2, <2>3
<1> HIDE DEF both
<1>3. b.start <= n /\ n <= Len(both)
    BY <1>1, <1>2
<1>4. /\ SubSeq(both, b.start + 1, Len(both)) = SubSeq(both, b.start + 1, n) \o SubSeq(both, n + 1, Len(both))
      /\ SubSeq(both, b.start + 1, n) \in Seq(Cell) /\ Len(SubSeq(both, b.start + 1, n)) = n - b.start
      /\ \A i \in 1 .. n - b.start : SubSeq(both, b.start + 1, n)[i] = both[i + b.start]
    <2>1. \A a, k \in Nat : a <= k /\ k <= Len(both) =>
            /\ SubSeq(both, a + 1, Len(both)) = SubSeq(both, a + 1, k) \o SubSeq(both, k + 1, Len(both))
            /\ SubSeq(both, a + 1, k) \in Seq(Cell) /\ Len(SubSeq(both, a + 1, k)) = k - a
            /\ \A i \in 1 .. k - a : SubSeq(both, a + 1, k)[i] = both[i + a]
        BY <1>2, PartsOfLine, ZenonT(60)
    <2>2. b.start \in Nat /\ n \in Nat
        BY <1>1
    <2> HIDE DEF n
    <2>3. QED BY ONLY <1>3, <2>1, <2>2, Zenon
<1>5. /\ SubSeq(b.lbuf, b.start + 1, n) \in Seq(Cell) /\ Len(SubSeq(b.lbuf, b.start + 1, n)) = n - b.start
      /\ \A i \in 1 .. n - b.start : SubSeq(b.lbuf, b.start + 1, n)[i] = b.lbuf[i + b.start]
    <2>1. n <= n
        BY <1>1
    <2>2. QED BY <1>1, <1>3, <2>1, PartsOfLine, ZenonT(60)
<1>6. SubSeq(both, b.start + 1, n) = SubSeq(b.lbuf, b.start + 1, n)
    <2> DEFINE u == SubSeq(both, b.start + 1, n)
               v == SubSeq(b.lbuf, b.start + 1, n)
    <2>1. u \in Seq(Cell) /\ v \in Seq(Cell) /\ Len(u) = n - b.start /\ Len(v) = n - b.start
        BY <1>4, <1>5
    <2>2. \A i \in 1 .. n - b.start : i + b.start \in 1 .. n
        BY <1>1
    <2>3. \A i \in 1 .. n - b.start : u[i] = v[i]
        BY ONLY <1>2, <1>4, <1>5, <2>2, Zenon
    <2> HIDE DEF u, v
    <2>4. u = v
        BY <2>1, <2>3, SeqEqual
    <2>5. QED BY <2>4 DEF u, v
<1>7. Rest(b) = SubSeq(b.lbuf, b.start + 1, n) /\ Rest(d) = SubSeq(both, b.start + 1, Len(both))
    BY <1>1 DEF Rest
<1>8. QED BY <1>1, <1>2, <1>4, <1>5, <1>6, <1>7

LEMMA LetterRead ==
    ASSUME NEW e \in SplitSettings, NEW letters \in Seq(Letters), NEW t \in Letters, NEW done \in Seq(Seq(Cell)),
           NEW b, NEW d, NEW cells,
           Between(e, letters, done, b), OfLetter(cells, Len(letters) + 1), Continued(b, d, cells),
           t \in Characters => Has(cells, Len(letters) + 1)
    PROVE  Between(e, Append(letters, t), done, d)
<1> DEFINE m == Len(letters)
           more == Append(letters, t)
<1>1. m \in Nat /\ m + 1 \in Nat /\ Len(more) = m + 1 /\ DOMAIN letters = 1 .. m /\ DOMAIN more = 1 .. m + 1
      /\ more[m + 1] = t /\ \A i \in 1 .. m : more[i] = letters[i]
    OBVIOUS
<1>2. /\ b.lbuf \in Seq(Cell) /\ b.cont \in Seq(Cell) /\ Pos(b) \in Nat /\ b.start \in Nat /\ b.wordBreak \in Nat
      /\ b.col \in Int /\ d.col \in Int /\ d.wordBreak \in Nat
    BY BufferFields DEF Continued
<1>3. Around(e, b) /\ Kept(done, Rest(b)) /\ HeldIn(letters, done, Rest(b)) /\ UpTo(b.lbuf, m)
      /\ \A p \in DOMAIN done : UpTo(done[p], m)
    BY DEF Between
<1>4. cells \in Seq(Cell) /\ Len(cells) \in Nat
    BY CellsOf DEF OfLetter
<1>5. Rest(d) = Rest(b) \o cells /\ Pos(d) = Pos(b) + Len(cells) /\ Rest(b) \in Seq(Cell)
    <2>1. b.start <= Pos(b)
        BY <1>3 DEF Around
    <2>2. QED BY <1>4, <2>1, RestGrows
<1> HIDE DEF m
<1>6. \A s \in Seq(Cell) : UpTo(s, m) => Before(s, cells)
    <2>1. \A i \in DOMAIN cells : cells[i].n > 0 => cells[i].n = m + 1
        <3>1. \A i \in DOMAIN cells : cells[i].n \in {0, m + 1}
            BY DEF OfLetter, m
        <3>2. QED BY <3>1
    <2>2. SUFFICES ASSUME NEW s \in Seq(Cell), UpTo(s, m), NEW i \in DOMAIN s, NEW j \in DOMAIN cells, cells[j].n > 0
                   PROVE  s[i].n < cells[j].n
        BY DEF Before
    <2>3. s[i].n \in Nat /\ s[i].n <= m /\ cells[j].n = m + 1
        BY <2>1, <2>2, CellsOf DEF UpTo
    <2>4. QED BY <1>1, <2>3
<1>7. UpTo(Rest(b), m)
    <2>1. b.start <= Pos(b) /\ Rest(b) = SubSeq(b.lbuf, b.start + 1, Pos(b)) /\ Pos(b) <= Len(b.lbuf)
        BY <1>2, <1>3 DEF Around, Rest, Pos
    <2>2. UpTo(SubSeq(b.lbuf, b.start + 1, Pos(b)), m)
        BY ONLY <1>1, <1>2, <1>3, <2>1, SubUpTo
    <2>3. QED BY <2>1, <2>2
<1>8. Kept(done, Rest(d))
    <2>1. LettersRise(cells) /\ Before(Rest(b), cells)
        BY <1>5, <1>6, <1>7 DEF OfLetter
    <2>2. \A p \in DOMAIN done : Before(done[p], cells)
        <3>1. \A p \in DOMAIN done : done[p] \in Seq(Cell)
            OBVIOUS
        <3>2. QED BY <1>3, <1>6, <3>1
    <2>3. QED BY <1>3, <1>4, <1>5, <2>1, <2>2, KeptGrows
<1>9. HeldIn(more, done, Rest(d))
    <2>1. \A n \in Nat : Has(Rest(d), n) <=> Has(Rest(b), n) \/ Has(cells, n)
        BY <1>4, <1>5, JoinedKeep
    <2>2. SUFFICES ASSUME NEW n \in DOMAIN more, more[n] \in Characters
                   PROVE  Has(Rest(d), n) \/ \E p \in DOMAIN done : Has(done[p], n)
        BY DEF HeldIn
    <2> HIDE DEF more
    <2>3. n \in Nat
        BY <1>1
    <2>4. CASE n = m + 1
        <3>1. t \in Characters
            BY <1>1, <2>2, <2>4
        <3>2. Has(cells, n)
            BY <3>1, <2>4 DEF m
        <3>3. QED BY <2>1, <2>3, <3>2
    <2>5. CASE n # m + 1
        <3>1. n \in DOMAIN letters
            BY <1>1, <2>5
        <3>2. letters[n] \in Characters
            BY <1>1, <2>2, <3>1
        <3>3. QED BY <1>3, <2>1, <2>3, <3>1, <3>2 DEF HeldIn
    <2>6. QED BY <2>4, <2>5
<1>10. UpTo(d.lbuf, m + 1) /\ \A p \in DOMAIN done : UpTo(done[p], m + 1)
    <2>1. \A s \in Seq(Cell) : UpTo(s, m) => UpTo(s, m + 1)
        <3>1. SUFFICES ASSUME NEW s \in Seq(Cell), UpTo(s, m), NEW i \in DOMAIN s PROVE s[i].n <= m + 1
            BY DEF UpTo
        <3>2. s[i].n \in Nat /\ s[i].n <= m
            BY <3>1, CellsOf DEF UpTo
        <3>3. QED BY <1>1, <3>2
    <2>2. UpTo(cells, m + 1)
        <3>1. \A i \in DOMAIN cells : cells[i].n \in {0, m + 1}
            BY DEF OfLetter, m
        <3>2. QED BY <1>1, <3>1 DEF UpTo
    <2>3. d.lbuf = b.lbuf \o cells
        BY DEF Continued
    <2>4. UpTo(d.lbuf, m + 1)
        BY <1>1, <1>2, <1>3, <1>4, <2>1, <2>2, <2>3, JoinedKeep
    <2>5. \A p \in DOMAIN done : done[p] \in Seq(Cell)
        OBVIOUS
    <2>6. QED BY <1>3, <2>1, <2>4, <2>5
<1>11. Around(e, d)
    <2>1. d.start <= Pos(d)
        <3>1. d.start = b.start /\ b.start <= Pos(b)
            BY <1>3 DEF Continued, Around
        <3>2. QED BY ONLY <1>2, <1>4, <1>5, <3>1
    <2>2. d.wordBreak # 0 => d.start <= d.wordBreak /\ d.wordBreak < Pos(d)
        <3>1. /\ d.start = b.start /\ b.start <= Pos(b)
              /\ b.wordBreak # 0 => b.start <= b.wordBreak /\ b.wordBreak < Pos(b)
              /\ d.wordBreak = b.wordBreak \/ (d.wordBreak = Pos(b) /\ Len(cells) > 0)
            BY <1>3 DEF Continued, Around
        <3>2. QED BY ONLY <1>2, <1>4, <1>5, <3>1
    <2>3. d.col <= Columns(d.cont) + (Pos(d) - d.start)
        <3>1. /\ d.start = b.start /\ d.cont = b.cont /\ d.col <= b.col + Len(cells)
              /\ b.col <= Columns(b.cont) + (Pos(b) - b.start)
            BY <1>3 DEF Continued, Around
        <3>2. Columns(b.cont) \in Nat
            BY <1>2, ColumnsAdd
        <3>3. d.col <= Columns(b.cont) + (Pos(d) - b.start)
            <4>1. d.col <= b.col + Len(cells) /\ b.col <= Columns(b.cont) + (Pos(b) - b.start)
                BY <3>1
            <4>2. QED BY ONLY <1>2, <1>4, <1>5, <3>2, <4>1, SMTT(30)
        <3>4. QED BY <3>1, <3>3
    <2>4. BlanksSilent(d.lbuf)
        <3>1. d.lbuf = b.lbuf \o cells /\ BlanksSilent(b.lbuf) /\ BlanksSilent(cells)
            BY <1>3 DEF Continued, Around, OfLetter
        <3>2. QED BY <1>2, <1>4, <3>1, JoinedKeep
    <2>5. Silent(d.cont) /\ Columns(d.cont) <= e.columns
        BY <1>3 DEF Continued, Around
    <2>6. QED BY <2>1, <2>2, <2>3, <2>4, <2>5 DEF Around
<1>12. QED BY <1>1, <1>8, <1>9, <1>10, <1>11 DEF Between

\* The pieces are in order.
LEMMA KeptIsOrdered ==
    ASSUME NEW done \in Seq(Seq(Cell)), NEW rest, Kept(done, rest)
    PROVE  \A p, q \in DOMAIN done : \A i \in DOMAIN done[p], j \in DOMAIN done[q] :
              (p < q \/ (p = q /\ i < j)) /\ done[p][i].n > 0 /\ done[q][j].n > 0 => done[p][i].n < done[q][j].n
<1>1. SUFFICES ASSUME NEW p \in DOMAIN done, NEW q \in DOMAIN done, NEW i \in DOMAIN done[p], NEW j \in DOMAIN done[q],
                      p < q \/ (p = q /\ i < j), done[p][i].n > 0, done[q][j].n > 0
               PROVE  done[p][i].n < done[q][j].n
    OBVIOUS
<1>2. CASE p < q
    BY <1>1, <1>2 DEF Kept, Before
<1>3. CASE p = q /\ i < j
    <2>1. LettersRise(done[p])
        BY DEF Kept
    <2>2. QED BY ONLY <1>1, <1>3, <2>1, i \in DOMAIN done[p], j \in DOMAIN done[q], Zenon DEF LettersRise
<1>4. QED BY <1>1, <1>2, <1>3

\* What TextKept says, and what holds between two letters.
KeptInv ==
    /\ SplitsTypeOK
    /\ ~split => Between(splitEnv, text, pieces, buf)
    /\ TextKept

\* The end of the loop's body, behind a letter that was read.
LEMMA LoopedKeeps ==
    ASSUME KeptInv, ~split, NEW t \in Letters, NEW d, NEW cells,
           text' = Append(text, t), splitEnv' = splitEnv,
           OfLetter(cells, Len(text) + 1), Continued(buf, d, cells),
           t \in Characters => Has(cells, Len(text) + 1),
           Looped(d)
    PROVE  KeptInv'
<1>1. /\ text \in Seq(Letters) /\ buf \in Buffer /\ pieces \in Seq(Seq(Cell)) /\ splitEnv \in SplitSettings
      /\ Between(splitEnv, text, pieces, buf)
    BY DEF KeptInv, SplitsTypeOK
<1>2. d \in Buffer /\ text' \in Seq(Letters)
    BY <1>1 DEF Continued
<1>3. Between(splitEnv, text', pieces, d)
    BY <1>1, LetterRead
<1>4. CASE d.col <= splitEnv.columns
    <2>1. buf' = d /\ pieces' = pieces /\ split' = split
        BY <1>4 DEF Looped
    <2>2. SplitsTypeOK'
        BY <1>1, <1>2, <2>1 DEF KeptInv, SplitsTypeOK
    <2>3. Between(splitEnv', text', pieces', buf')
        BY <1>3, <2>1
    <2>4. TextKept'
        <3>1. Kept(pieces', Rest(d)) /\ pieces' \in Seq(Seq(Cell))
            BY <1>1, <1>3, <2>1 DEF Between
        <3>2. \A p, q \in DOMAIN pieces' : \A i \in DOMAIN pieces'[p], j \in DOMAIN pieces'[q] :
                 (p < q \/ (p = q /\ i < j)) /\ pieces'[p][i].n > 0 /\ pieces'[q][j].n > 0 => pieces'[p][i].n < pieces'[q][j].n
            BY <3>1, KeptIsOrdered
        <3>3. ~Whole'
            BY <2>1 DEF Whole
        <3>4. QED BY ONLY <3>2, <3>3, Zenon DEF TextKept
    <2>5. QED BY <2>2, <2>3, <2>4 DEF KeptInv
<1>5. CASE ~(d.col <= splitEnv.columns)
    <2> DEFINE piece == PieceTo(d, BreakAt(d))
               r == Restarted(d)
    <2>1. /\ pieces' = Append(pieces, piece) /\ split' = (Len(pieces) + 1 = MaximumSplits)
          /\ buf' = IF split' THEN d ELSE r
        BY <1>5 DEF Looped
    <2>2. d.col > splitEnv.columns
        <3>1. d.col \in Int /\ splitEnv.columns \in Int
            BY <1>1, <1>2, BufferFields, SplitsAssumption DEF SplitSetting
        <3>2. QED BY ONLY <1>5, <3>1
    <2>3. piece \in Seq(Cell) /\ r \in Buffer /\ Between(splitEnv, text', Append(pieces, piece), r)
        BY <1>1, <1>2, <1>3, <2>2, BrokenLine
    <2> HIDE DEF piece, r
    <2>4. pieces' \in Seq(Seq(Cell)) /\ Len(pieces') = Len(pieces) + 1 /\ split' \in BOOLEAN
        BY <1>1, <2>1, <2>3, PutBehind
    <2>5. SplitsTypeOK'
        BY <1>1, <1>2, <2>1, <2>3, <2>4 DEF SplitsTypeOK
    <2>6. ~split' => Between(splitEnv', text', pieces', buf')
        BY <2>1, <2>3
    <2>7. TextKept'
        <3>1. Kept(pieces', Rest(r))
            BY <2>1, <2>3 DEF Between
        <3>2. \A p, q \in DOMAIN pieces' : \A i \in DOMAIN pieces'[p], j \in DOMAIN pieces'[q] :
                 (p < q \/ (p = q /\ i < j)) /\ pieces'[p][i].n > 0 /\ pieces'[q][j].n > 0 => pieces'[p][i].n < pieces'[q][j].n
            BY <2>4, <3>1, KeptIsOrdered
        <3>3. ~Whole'
            <4>1. split' => Len(pieces') = MaximumSplits
                BY <2>1, <2>4
            <4>2. MaximumSplits \in Nat
                BY SplitsAssumption
            <4>3. QED BY <4>1, <4>2 DEF Whole
        <3>4. QED BY ONLY <3>2, <3>3, Zenon DEF TextKept
    <2>8. QED BY <2>5, <2>6, <2>7 DEF KeptInv
<1>6. QED BY <1>4, <1>5

----------------------------------------------------------------------------
(* The letters, one after the other.                                       *)

\* What matters of a letter where each takes a column: "a" is put, blanks are a break.
PlainAs(e, t, b, d, cells) ==
    t \in {"a", " ", "TAB"} /\ e.tabMax = 0 =>
        /\ d.underline = b.underline /\ d.invert = b.invert /\ d.bold = b.bold /\ d.fg = b.fg /\ d.bg = b.bg
        /\ d.col = b.col + Len(cells) /\ Len(cells) > 0
        /\ \/ Len(cells) = 1 /\ cells[1].c = "a" /\ d.wordBreak = b.wordBreak
           \/ (\A i \in DOMAIN cells : cells[i].c = " ") /\ d.wordBreak = Pos(b)

\* A letter t is read: cells are put behind the line, which goes on as d.
ReadAs(t, d, cells) ==
    /\ ~split /\ t \in splitEnv.letters
    /\ text' = Append(text, t) /\ splitEnv' = splitEnv
    /\ OfLetter(cells, Len(text) + 1) /\ Continued(buf, d, cells)
    /\ t \in Characters => Has(cells, Len(text) + 1)
    /\ PlainAs(splitEnv, t, buf, d, cells)
    /\ Looped(d)

LEMMA EnvIs ==
    ASSUME SplitsTypeOK
    PROVE  /\ splitEnv.columns \in Nat \ {0} /\ splitEnv.tab \in Nat \ {0} /\ splitEnv.letters \in SUBSET Letters
           /\ splitEnv.tabMax \in Int /\ splitEnv.beepMax \in Int
           /\ text \in Seq(Letters) /\ Len(text) + 1 \in Nat /\ buf \in Buffer
    BY SplitsAssumption DEF SplitsTypeOK, SplitSetting

\* A letter that is marked.
LEMMA MarkedRead ==
    ASSUME NEW b \in Buffer, NEW c \in {"A", "G", "I"}, NEW n \in Nat, n = Len(text) + 1
    PROVE  Continued(b, MarkedIn(b, c), Marked(c, n))
<1> DEFINE cells == Marked(c, n)
           lbuf == b.lbuf \o cells
           ndCnt == b.ndCnt + 2
           col == b.col + 1
           d == [b EXCEPT !.lbuf = lbuf, !.ndCnt = ndCnt, !.col = col]
<1>1. cells \in Seq(Cell) /\ Len(cells) = 3
    BY MarkedIs DEF OfLetter
<1>2. b.lbuf \in Seq(Cell) /\ b.ndCnt \in Int /\ b.col \in Int
    BY BufferFields
<1>3. lbuf \in Seq(Cell) /\ ndCnt \in Int /\ col \in Int
    <2> HIDE DEF cells
    <2>1. QED BY <1>1, <1>2
<1>4. MarkedIn(b, c) = d
    BY DEF MarkedIn, Put
<1>5. col <= b.col + Len(cells)
    <2>1. col = b.col + 1
        OBVIOUS
    <2> HIDE DEF col, cells
    <2>2. QED BY ONLY <1>1, <1>2, <2>1
<1>6. lbuf = b.lbuf \o cells
    OBVIOUS
<1> HIDE DEF cells, lbuf, ndCnt, col
<1>7. d \in Buffer /\ d.lbuf = lbuf /\ d.start = b.start /\ d.cont = b.cont /\ d.col = col /\ d.wordBreak = b.wordBreak
    BY <1>3 DEF Buffer
<1> HIDE DEF d
<1>8. Continued(b, d, cells)
    BY <1>5, <1>6, <1>7 DEF Continued
<1>9. QED BY <1>4, <1>8 DEF cells

\* A line that only counts what was left out.
LEMMA NothingRead ==
    ASSUME NEW b \in Buffer, NEW d \in Buffer, d.lbuf = b.lbuf, d.start = b.start, d.cont = b.cont, d.col = b.col,
           d.wordBreak = b.wordBreak
    PROVE  Continued(b, d, <<>>)
<1>1. b.lbuf \in Seq(Cell) /\ b.col \in Int
    BY BufferFields
<1>2. b.lbuf \o <<>> = b.lbuf /\ Len(<<>>) = 0
    BY <1>1
<1>3. b.col <= b.col + Len(<<>>)
    BY <1>1, <1>2
<1>4. QED BY <1>2, <1>3 DEF Continued

SameLine(d, b) ==
    /\ d.lbuf = b.lbuf /\ d.start = b.start /\ d.cont = b.cont /\ d.col = b.col /\ d.wordBreak = b.wordBreak
    /\ d.underline = b.underline /\ d.invert = b.invert /\ d.bold = b.bold /\ d.fg = b.fg /\ d.bg = b.bg

LEMMA CountedOnly ==
    ASSUME NEW b \in Buffer
    PROVE  /\ [b EXCEPT !.beepCnt = @ + 1] \in Buffer /\ SameLine([b EXCEPT !.beepCnt = @ + 1], b)
           /\ [b EXCEPT !.tabCnt = @ + 1] \in Buffer /\ SameLine([b EXCEPT !.tabCnt = @ + 1], b)
           /\ SameLine(b, b)
<1> DEFINE beeps == b.beepCnt + 1
           tabs == b.tabCnt + 1
<1>1. beeps \in Nat /\ tabs \in Nat
    BY BufferFields
<1> HIDE DEF beeps, tabs
<1>2. [b EXCEPT !.beepCnt = beeps] \in Buffer /\ SameLine([b EXCEPT !.beepCnt = beeps], b)
    BY <1>1 DEF Buffer, SameLine
<1>3. [b EXCEPT !.tabCnt = tabs] \in Buffer /\ SameLine([b EXCEPT !.tabCnt = tabs], b)
    BY <1>1 DEF Buffer, SameLine
<1>4. QED BY <1>2, <1>3 DEF beeps, tabs, SameLine

LEMMA BellRead ==
    ASSUME KeptInv, ReadBell
    PROVE  \E d, cells : ReadAs("BELL", d, cells)
<1> DEFINE b == IF splitEnv.beepMax > 0 THEN [buf EXCEPT !.beepCnt = @ + 1] ELSE buf
           n == Len(text) + 1
           bell == <<Byte("BELL")>>
           lbuf == b.lbuf \o bell
           ndCnt == b.ndCnt + 1
           col == b.col + 1
           put == [b EXCEPT !.lbuf = lbuf, !.ndCnt = ndCnt, !.col = col]
<1>1. /\ splitEnv.beepMax \in Int /\ n \in Nat /\ buf \in Buffer
    BY EnvIs DEF KeptInv
<1>2. /\ b \in Buffer /\ b.lbuf = buf.lbuf /\ b.start = buf.start /\ b.cont = buf.cont /\ b.col = buf.col
      /\ b.wordBreak = buf.wordBreak
    BY ONLY <1>1, CountedOnly, Zenon DEF SameLine
<1>3. /\ ~split /\ "BELL" \in splitEnv.letters /\ text' = Append(text, "BELL") /\ splitEnv' = splitEnv
      /\ Looped(IF splitEnv.beepMax = -1 THEN MarkedIn(b, "G")
                ELSE IF b.beepCnt <= splitEnv.beepMax THEN put ELSE b)
    BY DEF ReadBell, Reading, Put
<1>4. "BELL" \notin Characters /\ "BELL" \notin {"a", " ", "TAB"} /\ "BELL" \in Bytes /\ "G" \in {"A", "G", "I"}
    BY DEF Characters, Bytes, Letters
<1>5. \A d, cells : OfLetter(cells, n) /\ Continued(b, d, cells) /\ Looped(d) => ReadAs("BELL", d, cells)
    <2>1. SUFFICES ASSUME NEW d, NEW cells, OfLetter(cells, n), Continued(b, d, cells), Looped(d)
                   PROVE  ReadAs("BELL", d, cells)
        OBVIOUS
    <2>2. Continued(buf, d, cells)
        BY ONLY <1>1, <1>2, <2>1 DEF Continued, Pos
    <2>3. PlainAs(splitEnv, "BELL", buf, d, cells)
        BY <1>4 DEF PlainAs
    <2>4. QED BY ONLY <1>3, <1>4, <2>1, <2>2, <2>3, Zenon DEF ReadAs, n
<1>6. OfLetter(Marked("G", n), n) /\ Continued(b, MarkedIn(b, "G"), Marked("G", n))
    <2> HIDE DEF b
    <2>1. QED BY <1>1, <1>2, <1>4, MarkedIs, MarkedRead DEF n
<1>7. OfLetter(bell, n) /\ Continued(b, put, bell)
    <2>1. bell \in Seq(Cell) /\ Silent(bell) /\ Len(bell) = 1
        BY <1>4, ByteIs
    <2>2. OfLetter(bell, n)
        BY <1>1, <2>1, SilentOfAny
    <2> HIDE DEF b, bell
    <2>3. b.lbuf \in Seq(Cell) /\ b.ndCnt \in Int /\ b.col \in Int
        BY <1>2, BufferFields
    <2>4. lbuf \in Seq(Cell) /\ ndCnt \in Int /\ col \in Int /\ col = b.col + 1 /\ lbuf = b.lbuf \o bell
        BY <2>1, <2>3
    <2> HIDE DEF lbuf, ndCnt, col
    <2>5. /\ put \in Buffer /\ put.lbuf = lbuf /\ put.start = b.start /\ put.cont = b.cont /\ put.col = col
          /\ put.wordBreak = b.wordBreak
        BY <1>2, <2>4 DEF Buffer
    <2>6. col <= b.col + Len(bell)
        BY ONLY <2>1, <2>3, <2>4
    <2> HIDE DEF put
    <2>7. QED BY <1>2, <2>2, <2>4, <2>5, <2>6 DEF Continued
<1>8. OfLetter(<<>>, n) /\ Continued(b, b, <<>>)
    <2>1. <<>> \in Seq(Cell) /\ Silent(<<>>)
        BY DEF Silent
    <2> HIDE DEF b
    <2>2. QED BY <1>1, <1>2, <2>1, SilentOfAny, NothingRead
<1> HIDE DEF b, put, bell, n
<1>9. QED BY ONLY <1>3, <1>5, <1>6, <1>7, <1>8

LEMMA TabRead ==
    ASSUME KeptInv, ReadTab
    PROVE  \E d, cells : ReadAs("TAB", d, cells)
<1> DEFINE b == IF splitEnv.tabMax # 0 THEN [buf EXCEPT !.tabCnt = @ + 1] ELSE buf
           n == Len(text) + 1
           blanks == splitEnv.tab - (b.col % splitEnv.tab)
           space == [i \in 1 .. blanks |-> Blank]
           lbuf == b.lbuf \o space
           indent == IF b.indent = 0 THEN -1 ELSE b.indent
           col == b.col + blanks
           wordBreak == Pos(b)
           put == [b EXCEPT !.lbuf = lbuf, !.indent = indent, !.wordBreak = wordBreak, !.col = col]
<1>1. /\ splitEnv.tabMax \in Int /\ n \in Nat /\ buf \in Buffer /\ splitEnv.tab \in Nat \ {0}
    BY EnvIs DEF KeptInv
<1>2. /\ b \in Buffer /\ b.lbuf = buf.lbuf /\ b.start = buf.start /\ b.cont = buf.cont /\ b.col = buf.col
      /\ b.wordBreak = buf.wordBreak
      /\ b.underline = buf.underline /\ b.invert = buf.invert /\ b.bold = buf.bold /\ b.fg = buf.fg /\ b.bg = buf.bg
    BY ONLY <1>1, CountedOnly, Zenon DEF SameLine
<1>3. /\ ~split /\ "TAB" \in splitEnv.letters /\ text' = Append(text, "TAB") /\ splitEnv' = splitEnv
      /\ Looped(IF splitEnv.tabMax # 0 /\ b.tabCnt > splitEnv.tabMax THEN MarkedIn(b, "I") ELSE put)
    BY DEF ReadTab, Reading, Put, Pos
<1>4. "TAB" \notin Characters /\ "I" \in {"A", "G", "I"}
    BY DEF Characters
<1>5. \A d, cells : OfLetter(cells, n) /\ Continued(b, d, cells) /\ PlainAs(splitEnv, "TAB", b, d, cells) /\ Looped(d) =>
            ReadAs("TAB", d, cells)
    <2>1. SUFFICES ASSUME NEW d, NEW cells, OfLetter(cells, n), Continued(b, d, cells),
                          PlainAs(splitEnv, "TAB", b, d, cells), Looped(d)
                   PROVE  ReadAs("TAB", d, cells)
        OBVIOUS
    <2>2. Continued(buf, d, cells)
        BY ONLY <1>1, <1>2, <2>1 DEF Continued, Pos
    <2> HIDE DEF b
    <2>3. PlainAs(splitEnv, "TAB", buf, d, cells)
        BY ONLY <1>2, <2>1, Zenon DEF PlainAs, Pos
    <2>4. QED BY ONLY <1>3, <1>4, <2>1, <2>2, <2>3, Zenon DEF ReadAs, n
<1>6. CASE splitEnv.tabMax # 0 /\ b.tabCnt > splitEnv.tabMax
    <2> HIDE DEF b
    <2>1. OfLetter(Marked("I", n), n) /\ Continued(b, MarkedIn(b, "I"), Marked("I", n))
        BY <1>1, <1>2, <1>4, MarkedIs, MarkedRead DEF n
    <2>2. PlainAs(splitEnv, "TAB", b, MarkedIn(b, "I"), Marked("I", n))
        BY <1>6 DEF PlainAs
    <2>3. Looped(MarkedIn(b, "I"))
        BY <1>3, <1>6
    <2> HIDE DEF n
    <2>4. QED BY ONLY <1>5, <2>1, <2>2, <2>3
<1>7. CASE ~(splitEnv.tabMax # 0 /\ b.tabCnt > splitEnv.tabMax)
    <2> HIDE DEF b
    <2>1. b.lbuf \in Seq(Cell) /\ b.indent \in Int /\ b.col \in Int /\ Pos(b) \in Nat
        BY <1>2, BufferFields
    <2>2. blanks \in Nat /\ blanks > 0
        <3>1. \A x \in Int, y \in Nat \ {0} : y - (x % y) \in Nat /\ y - (x % y) > 0
            OBVIOUS
        <3>2. QED BY ONLY <1>1, <2>1, <3>1
    <2>10. col = b.col + blanks
        OBVIOUS
    <2> HIDE DEF blanks
    <2>3. space \in Seq(Cell) /\ Silent(space) /\ Len(space) = blanks /\ \A i \in DOMAIN space : space[i].c = " "
        BY <2>2, ColumnsOfBlanks
    <2> HIDE DEF space
    <2>4. OfLetter(space, n)
        BY <1>1, <2>3, SilentOfAny
    <2>5. /\ lbuf \in Seq(Cell) /\ col \in Int /\ indent \in Int /\ wordBreak \in Nat
          /\ lbuf = b.lbuf \o space /\ wordBreak = Pos(b)
        <3>1. lbuf \in Seq(Cell)
            BY <2>1, <2>3, JoinedCells
        <3>2. col \in Int /\ indent \in Int
            BY ONLY <2>1, <2>2
        <3>3. QED BY ONLY <2>1, <3>1, <3>2, Zenon
    <2> HIDE DEF lbuf, indent, col, wordBreak
    <2>6. /\ put \in Buffer /\ put.lbuf = lbuf /\ put.start = b.start /\ put.cont = b.cont /\ put.col = col
          /\ put.wordBreak = wordBreak
          /\ put.underline = b.underline /\ put.invert = b.invert /\ put.bold = b.bold /\ put.fg = b.fg /\ put.bg = b.bg
        BY <1>2, <2>5 DEF Buffer
    <2> HIDE DEF put
    <2>7. put.col = b.col + Len(space) /\ Len(space) > 0 /\ put.col <= b.col + Len(space)
        <3>1. put.col = b.col + blanks /\ Len(space) = blanks
            BY <2>3, <2>6, <2>10
        <3>2. put.col \in Int
            BY <2>1, <2>2, <3>1
        <3>3. QED BY ONLY <2>2, <3>1, <3>2
    <2>8. Continued(b, put, space)
        BY <1>2, <2>5, <2>6, <2>7 DEF Continued
    <2>9. PlainAs(splitEnv, "TAB", b, put, space)
        BY ONLY <2>3, <2>5, <2>6, <2>7, Zenon DEF PlainAs
    <2>11. Looped(put)
        BY <1>3, <1>7
    <2> HIDE DEF n
    <2>12. QED BY ONLY <1>5, <2>4, <2>8, <2>9, <2>11
<1>8. QED BY <1>6, <1>7

\* A letter that is put as it is, and changes what is remembered of the state.
LEMMA PutRead ==
    ASSUME NEW b \in Buffer, NEW cells \in Seq(Cell), NEW und \in BOOLEAN, NEW inv \in BOOLEAN, NEW bold \in BOOLEAN,
           NEW fg \in Codes, NEW bg \in Codes, NEW nd \in Int
    PROVE  Continued(b, [Put(b, cells) EXCEPT !.underline = und, !.invert = inv, !.bold = bold,
                                              !.fg = fg, !.bg = bg, !.ndCnt = nd], cells)
<1> DEFINE lbuf == b.lbuf \o cells
           d == [b EXCEPT !.lbuf = lbuf, !.underline = und, !.invert = inv, !.bold = bold,
                          !.fg = fg, !.bg = bg, !.ndCnt = nd]
<1>1. lbuf \in Seq(Cell) /\ lbuf = b.lbuf \o cells
    BY BufferFields, JoinedCells
<1>2. d = [Put(b, cells) EXCEPT !.underline = und, !.invert = inv, !.bold = bold, !.fg = fg, !.bg = bg, !.ndCnt = nd]
    BY DEF Put
<1> HIDE DEF lbuf
<1>3. /\ d \in Buffer /\ d.lbuf = lbuf /\ d.start = b.start /\ d.cont = b.cont /\ d.col = b.col
      /\ d.wordBreak = b.wordBreak
    BY <1>1, ZenonT(60) DEF Buffer
<1>4. b.col <= b.col + Len(cells)
    <2>1. b.col \in Int /\ Len(cells) \in Nat
        BY BufferFields, CellsOf
    <2>2. QED BY ONLY <2>1
<1> HIDE DEF d
<1>5. Continued(b, d, cells)
    BY <1>1, <1>3, <1>4 DEF Continued
<1>6. QED BY <1>2, <1>5

LEMMA ToggleRead ==
    ASSUME KeptInv, NEW t \in Toggles, Reading(t),
           Looped([Put(buf, <<Byte(t)>>) EXCEPT
                      !.underline = IF t = "UND_TOG" THEN ~@ ELSE @ /\ t # "ALL_OFF",
                      !.invert = IF t = "REV_TOG" THEN ~@ ELSE @ /\ t # "ALL_OFF",
                      !.bold = IF t = "BOLD_TOG" THEN ~@ ELSE @ /\ t # "ALL_OFF",
                      !.fg = IF t = "ALL_OFF" THEN NoColour ELSE @,
                      !.bg = IF t = "ALL_OFF" THEN NoColour ELSE @,
                      !.ndCnt = @ + 1])
    PROVE  \E d, cells : ReadAs(t, d, cells)
<1> DEFINE cells == <<Byte(t)>>
           n == Len(text) + 1
           und == IF t = "UND_TOG" THEN ~buf.underline ELSE buf.underline /\ t # "ALL_OFF"
           inv == IF t = "REV_TOG" THEN ~buf.invert ELSE buf.invert /\ t # "ALL_OFF"
           bold == IF t = "BOLD_TOG" THEN ~buf.bold ELSE buf.bold /\ t # "ALL_OFF"
           fg == IF t = "ALL_OFF" THEN NoColour ELSE buf.fg
           bg == IF t = "ALL_OFF" THEN NoColour ELSE buf.bg
           nd == buf.ndCnt + 1
           d == [Put(buf, cells) EXCEPT !.underline = und, !.invert = inv, !.bold = bold,
                                        !.fg = fg, !.bg = bg, !.ndCnt = nd]
<1>1. n \in Nat /\ buf \in Buffer
    BY EnvIs DEF KeptInv
<1>2. t \notin Characters /\ t \notin {"a", " ", "TAB"} /\ t \in Bytes
    BY DEF Toggles, Characters, Bytes, Letters
<1>3. cells \in Seq(Cell) /\ OfLetter(cells, n)
    <2>1. cells \in Seq(Cell) /\ Silent(cells)
        BY <1>2, ByteIs
    <2> HIDE DEF cells, n
    <2>2. QED BY <1>1, <2>1, SilentOfAny
<1>4. und \in BOOLEAN /\ inv \in BOOLEAN /\ bold \in BOOLEAN
    BY <1>1, BufferFields
<1>5. fg \in Codes /\ bg \in Codes
    BY <1>1, BufferFields DEF NoColour, Codes
<1>6. nd \in Int
    BY <1>1, BufferFields
<1>7. Looped(d)
    BY DEF Put
<1>8. Continued(buf, d, cells)
    <2> HIDE DEF cells, und, inv, bold, fg, bg, nd
    <2>1. QED BY <1>1, <1>3, <1>4, <1>5, <1>6, PutRead, ZenonT(60)
<1> HIDE DEF d, cells
<1>9. PlainAs(splitEnv, t, buf, d, cells)
    BY <1>2 DEF PlainAs
<1>10. ~split /\ t \in splitEnv.letters /\ text' = Append(text, t) /\ splitEnv' = splitEnv
    BY DEF Reading
<1>11. ReadAs(t, d, cells)
    BY ONLY <1>2, <1>3, <1>7, <1>8, <1>9, <1>10, Zenon DEF ReadAs, n
<1>12. QED BY <1>11

LEMMA ColourRead ==
    ASSUME KeptInv, NEW t \in Colours, Reading(t),
           Looped([Put(buf, ColourBytes(Foreground(t), Background(t))) EXCEPT
                      !.fg = Foreground(t), !.bg = Background(t), !.ndCnt = @ + 3])
    PROVE  \E d, cells : ReadAs(t, d, cells)
<1> DEFINE fg == Foreground(t)
           bg == Background(t)
           cells == ColourBytes(fg, bg)
           n == Len(text) + 1
           nd == buf.ndCnt + 3
           lbuf == buf.lbuf \o cells
           d == [buf EXCEPT !.lbuf = lbuf, !.fg = fg, !.bg = bg, !.ndCnt = nd]
<1>1. n \in Nat /\ buf \in Buffer
    BY EnvIs DEF KeptInv
<1>2. t \notin Characters /\ t \notin {"a", " ", "TAB"}
    BY DEF Colours, Characters
<1>3. fg \in Codes /\ bg \in Codes
    BY DEF Foreground, Background, Codes
<1> HIDE DEF fg, bg
<1>4. cells \in Seq(Cell) /\ OfLetter(cells, n)
    <2>1. fg \in Bytes /\ bg \in Bytes
        BY <1>3 DEF Bytes
    <2>2. cells \in Seq(Cell) /\ Silent(cells)
        BY <2>1, ColourBytesAre
    <2> HIDE DEF cells, n
    <2>3. QED BY <1>1, <2>2, SilentOfAny
<1>5. Looped(d)
    BY DEF Put, fg, bg
<1> HIDE DEF cells
<1>6. lbuf \in Seq(Cell) /\ nd \in Int /\ lbuf = buf.lbuf \o cells
    BY <1>1, <1>4, BufferFields, JoinedCells
<1> HIDE DEF lbuf, nd
<1>7. /\ d \in Buffer /\ d.lbuf = lbuf /\ d.start = buf.start /\ d.cont = buf.cont /\ d.col = buf.col
      /\ d.wordBreak = buf.wordBreak
    BY <1>1, <1>3, <1>6 DEF Buffer
<1>8. buf.col <= buf.col + Len(cells)
    <2>1. buf.col \in Int /\ Len(cells) \in Nat
        BY <1>1, <1>4, BufferFields, CellsOf
    <2>2. QED BY ONLY <2>1
<1> HIDE DEF d
<1>9. Continued(buf, d, cells)
    BY <1>1, <1>6, <1>7, <1>8 DEF Continued
<1>10. PlainAs(splitEnv, t, buf, d, cells)
    BY <1>2 DEF PlainAs
<1>11. ~split /\ t \in splitEnv.letters /\ text' = Append(text, t) /\ splitEnv' = splitEnv
    BY DEF Reading
<1>12. ReadAs(t, d, cells)
    BY ONLY <1>2, <1>4, <1>5, <1>9, <1>10, <1>11, Zenon DEF ReadAs, n
<1>13. QED BY <1>12

LEMMA BlankRead ==
    ASSUME KeptInv, ReadBlank
    PROVE  \E d, cells : ReadAs(" ", d, cells)
<1> DEFINE cells == <<Blank>>
           n == Len(text) + 1
           lbuf == buf.lbuf \o cells
           indent == IF buf.indent = 0 THEN -1 ELSE buf.indent
           wordBreak == Pos(buf)
           col == buf.col + 1
           d == [buf EXCEPT !.lbuf = lbuf, !.indent = indent, !.wordBreak = wordBreak, !.col = col]
<1>1. n \in Nat /\ buf \in Buffer
    BY EnvIs DEF KeptInv
<1>2. " " \notin Characters /\ " " \in Bytes
    BY DEF Characters, Bytes, Letters
<1>3. cells \in Seq(Cell) /\ OfLetter(cells, n) /\ Len(cells) = 1 /\ \A i \in DOMAIN cells : cells[i].c = " "
    <2>1. cells \in Seq(Cell) /\ Silent(cells) /\ Len(cells) = 1
        BY <1>2, ByteIs DEF Blank
    <2>2. \A i \in DOMAIN cells : cells[i].c = " "
        <3>1. Blank.c = " "
            BY WidthOfBlank
        <3>2. \A x : \A i \in DOMAIN <<x>> : <<x>>[i] = x
            OBVIOUS
        <3>3. QED BY ONLY <3>1, <3>2, Zenon
    <2> HIDE DEF cells, n
    <2>3. QED BY <1>1, <2>1, <2>2, SilentOfAny
<1>4. Looped(d)
    BY DEF ReadBlank, Put, Pos
<1> HIDE DEF cells
<1>5. buf.col \in Int /\ buf.indent \in Int /\ Pos(buf) \in Nat /\ buf.lbuf \in Seq(Cell)
    BY <1>1, BufferFields
<1>6. lbuf \in Seq(Cell) /\ lbuf = buf.lbuf \o cells
    BY <1>3, <1>5, JoinedCells
<1>7. col \in Int /\ indent \in Int
    BY ONLY <1>5
<1>8. col = buf.col + 1 /\ wordBreak = Pos(buf)
    OBVIOUS
<1> HIDE DEF lbuf, indent, col, wordBreak
<1>9. wordBreak \in Nat
    BY <1>5, <1>8
<1>10. /\ d \in Buffer /\ d.lbuf = lbuf /\ d.start = buf.start /\ d.cont = buf.cont /\ d.col = col /\ d.wordBreak = wordBreak
       /\ d.underline = buf.underline /\ d.invert = buf.invert /\ d.bold = buf.bold /\ d.fg = buf.fg /\ d.bg = buf.bg
    BY <1>1, <1>6, <1>7, <1>9 DEF Buffer
<1> HIDE DEF d
<1>11. d.col = buf.col + Len(cells) /\ Len(cells) > 0 /\ d.col <= buf.col + Len(cells)
    <2>1. d.col = buf.col + 1 /\ Len(cells) = 1
        BY <1>3, <1>8, <1>10
    <2>2. QED BY ONLY <1>5, <2>1
<1>12. Continued(buf, d, cells)
    BY <1>1, <1>6, <1>8, <1>10, <1>11 DEF Continued
<1>13. PlainAs(splitEnv, " ", buf, d, cells)
    BY ONLY <1>3, <1>8, <1>10, <1>11, Zenon DEF PlainAs
<1>14. ~split /\ " " \in splitEnv.letters /\ text' = Append(text, " ") /\ splitEnv' = splitEnv
    BY DEF ReadBlank, Reading
<1>15. ReadAs(" ", d, cells)
    BY ONLY <1>2, <1>3, <1>4, <1>12, <1>13, <1>14, Zenon DEF ReadAs, n
<1>16. QED BY <1>15

LEMMA CharacterRead ==
    ASSUME KeptInv, NEW t \in Characters, Reading(t),
           Looped([Put(buf, BytesOf(t, Len(text) + 1)) EXCEPT
                      !.indent = IF @ = -1 THEN Pos(buf) - buf.ndCnt ELSE @,
                      !.wordBreak = IF ColumnsOf(t) > 1 THEN Pos(buf) ELSE @,
                      !.ndCnt = @ + Len(BytesOf(t, Len(text) + 1)) - ColumnsOf(t), !.col = @ + ColumnsOf(t)])
    PROVE  \E d, cells : ReadAs(t, d, cells)
<1> DEFINE n == Len(text) + 1
           cells == BytesOf(t, n)
           lbuf == buf.lbuf \o cells
           indent == IF buf.indent = -1 THEN Pos(buf) - buf.ndCnt ELSE buf.indent
           wordBreak == IF ColumnsOf(t) > 1 THEN Pos(buf) ELSE buf.wordBreak
           nd == buf.ndCnt + Len(cells) - ColumnsOf(t)
           col == buf.col + ColumnsOf(t)
           d == [buf EXCEPT !.lbuf = lbuf, !.indent = indent, !.wordBreak = wordBreak, !.ndCnt = nd, !.col = col]
<1>1. n \in Nat /\ buf \in Buffer
    BY EnvIs DEF KeptInv
<1>2. Looped(d)
    BY DEF Put
<1>3. /\ OfLetter(cells, n) /\ Has(cells, n) /\ cells \in Seq(Cell)
      /\ Len(cells) \in Nat /\ ColumnsOf(t) <= Len(cells) /\ ColumnsOf(t) \in {1, 2}
      /\ t = "a" => cells = <<[c |-> "a", n |-> n]>> /\ ColumnsOf(t) = 1
    BY <1>1, BytesOfIs DEF OfLetter
<1>4. t \notin {" ", "TAB"}
    BY DEF Characters
<1>5. t = "a" => Len(cells) = 1 /\ cells[1].c = "a"
    <2>1. SUFFICES ASSUME t = "a" PROVE Len(cells) = 1 /\ cells[1].c = "a"
        OBVIOUS
    <2>2. \A x : Len(<<x>>) = 1 /\ <<x>>[1] = x
        OBVIOUS
    <2>3. [c |-> "a", n |-> n].c = "a"
        OBVIOUS
    <2>4. cells = <<[c |-> "a", n |-> n]>>
        BY <1>3, <2>1
    <2> HIDE DEF cells, n
    <2>5. QED BY ONLY <2>2, <2>3, <2>4, Zenon
<1> HIDE DEF cells, n
<1>6. /\ buf.col \in Int /\ buf.indent \in Int /\ buf.ndCnt \in Int /\ Pos(buf) \in Nat /\ buf.wordBreak \in Nat
      /\ buf.lbuf \in Seq(Cell)
    BY <1>1, BufferFields
<1>7. lbuf \in Seq(Cell) /\ lbuf = buf.lbuf \o cells
    BY <1>3, <1>6, JoinedCells
<1>8. ColumnsOf(t) \in {1, 2} /\ Len(cells) \in Nat /\ ColumnsOf(t) <= Len(cells)
    BY <1>3
<1>9. col \in Int /\ indent \in Int /\ nd \in Int /\ wordBreak \in Nat
    BY ONLY <1>6, <1>8, SMTT(30)
<1>10. /\ col = buf.col + ColumnsOf(t)
       /\ wordBreak = buf.wordBreak \/ (wordBreak = Pos(buf) /\ Len(cells) > 0)
       /\ ColumnsOf(t) = 1 => wordBreak = buf.wordBreak
    BY ONLY <1>6, <1>8
<1> HIDE DEF lbuf, indent, wordBreak, nd, col
<1>11. /\ d \in Buffer /\ d.lbuf = lbuf /\ d.start = buf.start /\ d.cont = buf.cont /\ d.col = col /\ d.wordBreak = wordBreak
       /\ d.underline = buf.underline /\ d.invert = buf.invert /\ d.bold = buf.bold /\ d.fg = buf.fg /\ d.bg = buf.bg
    BY <1>1, <1>7, <1>9 DEF Buffer
<1> HIDE DEF d
<1>12. d.col <= buf.col + Len(cells)
    <2>1. d.col = buf.col + ColumnsOf(t)
        BY <1>10, <1>11
    <2>2. QED BY ONLY <1>6, <1>8, <2>1
<1>13. Continued(buf, d, cells)
    BY ONLY <1>1, <1>7, <1>10, <1>11, <1>12, Zenon DEF Continued
<1>14. PlainAs(splitEnv, t, buf, d, cells)
    <2>1. t = "a" => Len(cells) = 1 /\ ColumnsOf(t) = 1 /\ cells[1].c = "a"
        BY <1>3, <1>5
    <2>2. Len(cells) = 1 => Len(cells) > 0
        OBVIOUS
    <2>3. t = "a" => d.col = buf.col + Len(cells) /\ d.wordBreak = buf.wordBreak
        BY ONLY <1>10, <1>11, <2>1, Zenon
    <2>4. QED BY ONLY <1>4, <1>11, <2>1, <2>2, <2>3, Zenon DEF PlainAs
<1>15. ~split /\ t \in splitEnv.letters /\ text' = Append(text, t) /\ splitEnv' = splitEnv
    BY DEF Reading
<1>16. ReadAs(t, d, cells)
    BY ONLY <1>2, <1>3, <1>13, <1>14, <1>15, Zenon DEF ReadAs, n
<1>17. QED BY <1>16

\* Each step but the last reads a letter.
LEMMA StepReads ==
    ASSUME KeptInv, SplitsNext, ~EndOfText
    PROVE  \E t \in Letters : \E d, cells : ReadAs(t, d, cells)
<1>1. \A t, d, cells : ReadAs(t, d, cells) => t \in Letters
    BY EnvIs DEF ReadAs, KeptInv
<1>2. CASE ReadBell
    BY <1>1, <1>2, BellRead
<1>3. CASE ReadTab
    BY <1>1, <1>3, TabRead
<1>4. CASE ReadToggle
    <2>1. PICK t \in Toggles :
            /\ Reading(t)
            /\ Looped([Put(buf, <<Byte(t)>>) EXCEPT
                      !.underline = IF t = "UND_TOG" THEN ~@ ELSE @ /\ t # "ALL_OFF",
                      !.invert = IF t = "REV_TOG" THEN ~@ ELSE @ /\ t # "ALL_OFF",
                      !.bold = IF t = "BOLD_TOG" THEN ~@ ELSE @ /\ t # "ALL_OFF",
                      !.fg = IF t = "ALL_OFF" THEN NoColour ELSE @,
                      !.bg = IF t = "ALL_OFF" THEN NoColour ELSE @,
                      !.ndCnt = @ + 1])
        BY ONLY <1>4, Zenon DEF ReadToggle
    <2>2. \E d, cells : ReadAs(t, d, cells)
        BY <2>1, ToggleRead
    <2>3. QED BY <1>1, <2>2
<1>5. CASE ReadColour
    <2>1. PICK t \in Colours :
            /\ Reading(t)
            /\ Looped([Put(buf, ColourBytes(Foreground(t), Background(t))) EXCEPT
                      !.fg = Foreground(t), !.bg = Background(t), !.ndCnt = @ + 3])
        BY ONLY <1>5, Zenon DEF ReadColour
    <2>2. \E d, cells : ReadAs(t, d, cells)
        BY <2>1, ColourRead
    <2>3. QED BY <1>1, <2>2
<1>6. CASE ReadBlank
    BY <1>1, <1>6, BlankRead
<1>7. CASE ReadCharacter
    <2>1. PICK t \in Characters :
            /\ Reading(t)
            /\ Looped([Put(buf, BytesOf(t, Len(text) + 1)) EXCEPT
                      !.indent = IF @ = -1 THEN Pos(buf) - buf.ndCnt ELSE @,
                      !.wordBreak = IF ColumnsOf(t) > 1 THEN Pos(buf) ELSE @,
                      !.ndCnt = @ + Len(BytesOf(t, Len(text) + 1)) - ColumnsOf(t), !.col = @ + ColumnsOf(t)])
        BY ONLY <1>7, Zenon DEF ReadCharacter
    <2>2. \E d, cells : ReadAs(t, d, cells)
        BY <2>1, CharacterRead
    <2>3. QED BY <1>1, <2>2
<1>8. QED BY <1>2, <1>3, <1>4, <1>5, <1>6, <1>7 DEF SplitsNext

\* The last piece.
LEMMA EndKeeps ==
    ASSUME KeptInv, EndOfText
    PROVE  KeptInv'
<1> DEFINE last == IF text = <<>> THEN <<Blank, FullOff>> ELSE PieceTo(buf, Pos(buf))
           one == SubSeq(buf.lbuf, buf.start + 1, Pos(buf))
<1>1. /\ ~split /\ split' = TRUE /\ pieces' = Append(pieces, last) /\ text' = text /\ buf' = buf /\ splitEnv' = splitEnv
    BY DEF EndOfText
<1>2. /\ text \in Seq(Letters) /\ buf \in Buffer /\ pieces \in Seq(Seq(Cell)) /\ splitEnv \in SplitSettings
      /\ Between(splitEnv, text, pieces, buf)
    BY <1>1 DEF KeptInv, SplitsTypeOK
<1>3. /\ buf.lbuf \in Seq(Cell) /\ Pos(buf) \in Nat /\ Pos(buf) = Len(buf.lbuf) /\ buf.start \in Nat
      /\ buf.cont \in Seq(Cell) /\ buf.start <= Pos(buf) /\ Silent(buf.cont)
      /\ Kept(pieces, Rest(buf)) /\ HeldIn(text, pieces, Rest(buf))
    BY <1>2, BufferFields DEF Between, Around, Pos
<1>4. one \in Seq(Cell) /\ Rest(buf) = one
    BY <1>3, PartsOfLine DEF Rest
<1>5. <<FullOff>> \in Seq(Cell) /\ Silent(<<FullOff>>) /\ <<Blank, FullOff>> \in Seq(Cell) /\ Silent(<<Blank, FullOff>>)
    <2>1. "FULL_OFF" \in Bytes /\ " " \in Bytes
        BY DEF Bytes, Letters
    <2>2. <<FullOff>> \in Seq(Cell) /\ Silent(<<FullOff>>) /\ <<Blank>> \in Seq(Cell) /\ Silent(<<Blank>>)
        BY <2>1, ByteIs DEF FullOff, Blank
    <2>3. <<Blank, FullOff>> = <<Blank>> \o <<FullOff>>
        BY WidthOfBlank, TupleOfCells
    <2>4. QED BY <2>2, <2>3, JoinedKeep, JoinedCells
<1> DEFINE none == <<>>
<1>6. none \in Seq(Cell) /\ Silent(none)
    BY DEF Silent
<1> HIDE DEF one, none
<1>7. \A u \in Seq(Cell) : u \o (none \o none) = u /\ none \o none = none
    BY DEF none
<1>8. Kept(Append(pieces, (buf.cont \o one) \o <<FullOff>>), none) /\ HeldIn(text, Append(pieces, (buf.cont \o one) \o <<FullOff>>), none)
    <2>1. Kept(pieces, one \o (none \o none)) /\ HeldIn(text, pieces, one \o (none \o none))
        BY <1>3, <1>4, <1>7
    <2>2. Kept(Append(pieces, (buf.cont \o one) \o <<FullOff>>), none \o none)
        BY ONLY <1>2, <1>3, <1>4, <1>5, <1>6, <2>1, BrokenKept
    <2>3. HeldIn(text, Append(pieces, (buf.cont \o one) \o <<FullOff>>), none \o none)
        BY ONLY <1>2, <1>3, <1>4, <1>5, <1>6, <2>1, BrokenHeld
    <2>4. QED BY <1>6, <1>7, <2>2, <2>3
<1>9. last \in Seq(Cell) /\ Kept(Append(pieces, last), none) /\ HeldIn(text, Append(pieces, last), none)
    <2>1. CASE text = <<>>
        <3>1. last = <<Blank, FullOff>>
            BY <2>1
        <3>2. LettersRise(last)
            BY <1>5, <3>1, SilentIsApart
        <3>3. \A u : Before(last, u) /\ Before(u, last)
            BY <1>5, <3>1, SilentIsApart
        <3>4. \A u : Before(u, none) /\ LettersRise(none)
            BY <1>6, SilentIsApart
        <3>5. Kept(pieces, <<>>)
            BY <1>3, KeptWithout
        <3>6. last \in Seq(Cell)
            BY <1>5, <3>1
        <3> HIDE DEF last
        <3>7. Kept(Append(pieces, last), none)
            BY <1>2, <1>6, <3>2, <3>3, <3>4, <3>5, <3>6, KeptAppended
        <3>8. HeldIn(text, Append(pieces, last), none)
            <4>1. DOMAIN text = {}
                BY <2>1
            <4>2. QED BY <4>1 DEF HeldIn
        <3>9. QED BY <3>6, <3>7, <3>8
    <2>2. CASE text # <<>>
        <3>1. last = (buf.cont \o one) \o <<FullOff>>
            BY <2>2 DEF PieceTo, one
        <3>2. buf.cont \o one \in Seq(Cell)
            BY <1>3, <1>4, JoinedCells
        <3>3. last \in Seq(Cell)
            BY <1>5, <3>1, <3>2, JoinedCells
        <3>4. QED BY <1>8, <3>1, <3>3
    <2>3. QED BY <2>1, <2>2
<1> HIDE DEF last
<1>10. SplitsTypeOK'
    <2>1. pieces' \in Seq(Seq(Cell))
        BY <1>1, <1>2, <1>9, PutBehind
    <2>2. QED BY <1>1, <1>2, <2>1 DEF SplitsTypeOK
<1>11. TextKept'
    <2>1. pieces' \in Seq(Seq(Cell)) /\ Kept(pieces', none) /\ HeldIn(text', pieces', none)
        BY <1>1, <1>9, <1>10 DEF SplitsTypeOK
    <2>2. \A p, q \in DOMAIN pieces' : \A i \in DOMAIN pieces'[p], j \in DOMAIN pieces'[q] :
             (p < q \/ (p = q /\ i < j)) /\ pieces'[p][i].n > 0 /\ pieces'[q][j].n > 0 => pieces'[p][i].n < pieces'[q][j].n
        BY <2>1, KeptIsOrdered
    <2>3. \A n \in DOMAIN text' : text'[n] \in Characters =>
             \E p \in DOMAIN pieces' : \E i \in DOMAIN pieces'[p] : pieces'[p][i].n = n
        <3>1. \A n : ~Has(none, n)
            <4>1. DOMAIN none = {}
                BY DEF none
            <4>2. QED BY <4>1 DEF Has
        <3>2. QED BY ONLY <2>1, <3>1, Zenon DEF HeldIn, Has
    <2>4. QED BY ONLY <2>2, <2>3, Zenon DEF TextKept
<1>12. QED BY <1>1, <1>10, <1>11 DEF KeptInv

LEMMA KeptStep ==
    ASSUME KeptInv, [SplitsNext]_splitsVars
    PROVE  KeptInv'
<1>1. CASE SplitsNext /\ ~EndOfText
    <2>1. PICK t \in Letters : \E d, cells : ReadAs(t, d, cells)
        BY <1>1, StepReads
    <2>2. PICK d, cells : ReadAs(t, d, cells)
        BY <2>1
    <2>3. QED BY <2>2, LoopedKeeps DEF ReadAs
<1>2. CASE EndOfText
    BY <1>2, EndKeeps
<1>3. CASE UNCHANGED splitsVars
    BY <1>3 DEF KeptInv, SplitsTypeOK, TextKept, Whole, splitsVars
<1>4. QED BY <1>1, <1>2, <1>3

LEMMA KeptAtFirst ==
    ASSUME SplitsInit
    PROVE  KeptInv
<1>1. /\ text = <<>> /\ pieces = <<>> /\ split = FALSE /\ splitEnv \in SplitSettings
      /\ buf = [lbuf |-> <<>>, start |-> 0, wordBreak |-> 0, col |-> 0, ndCnt |-> 0, indent |-> 0,
                beepCnt |-> 0, tabCnt |-> 0, cont |-> <<>>, continued |-> FALSE,
                underline |-> FALSE, invert |-> FALSE, bold |-> FALSE, fg |-> NoColour, bg |-> NoColour,
                torn |-> FALSE]
    BY DEF SplitsInit
<1>2. NoColour \in Codes
    BY DEF NoColour, Codes
<1>3. buf \in Buffer
    <2>1. <<>> \in Seq(Cell) /\ 0 \in Nat /\ 0 \in Int
        OBVIOUS
    <2>2. QED BY <1>1, <1>2, <2>1 DEF Buffer
<1>4. SplitsTypeOK
    <2>1. <<>> \in Seq(Letters) /\ <<>> \in Seq(Seq(Cell))
        OBVIOUS
    <2>2. QED BY <1>1, <1>3, <2>1 DEF SplitsTypeOK
<1>5. /\ buf.lbuf = <<>> /\ buf.start = 0 /\ buf.wordBreak = 0 /\ buf.col = 0 /\ buf.cont = <<>>
    BY <1>1
<1>6. DOMAIN <<>> = {} /\ Len(<<>>) = 0 /\ <<>> \in Seq(Cell)
    OBVIOUS
<1>7. Pos(buf) = 0
    BY <1>5, <1>6 DEF Pos
<1>8. Rest(buf) = <<>>
    <2>1. SubSeq(<<>>, 0 + 1, 0) = <<>>
        OBVIOUS
    <2>2. QED BY <1>5, <1>7, <2>1 DEF Rest
<1>9. Columns(<<>>) \in Nat /\ Columns(<<>>) <= 0
    BY <1>6, ColumnsOfNarrow
<1>10. Around(splitEnv, buf)
    <2>1. splitEnv.columns \in Nat \ {0}
        BY <1>4, EnvIs
    <2>2. Silent(buf.cont) /\ BlanksSilent(buf.lbuf)
        BY <1>5, <1>6 DEF Silent, BlanksSilent
    <2>3. Columns(buf.cont) = 0 /\ 0 <= splitEnv.columns
        BY <1>5, <1>9, <2>1
    <2>4. QED BY <1>5, <1>7, <2>2, <2>3 DEF Around
<1>11. Kept(pieces, Rest(buf)) /\ HeldIn(text, pieces, Rest(buf)) /\ UpTo(buf.lbuf, Len(text))
       /\ \A p \in DOMAIN pieces : UpTo(pieces[p], Len(text))
    BY <1>1, <1>5, <1>6, <1>8 DEF Kept, HeldIn, UpTo, LettersRise
<1>12. TextKept
    BY <1>1, <1>6 DEF TextKept
<1>13. QED BY <1>4, <1>10, <1>11, <1>12 DEF KeptInv, Between

----------------------------------------------------------------------------
(* No piece is too wide, where each letter takes a column.                 *)

\* The columns counted are those of the rest; a break is before a blank.
Narrow(e, b) ==
    /\ ~b.underline /\ ~b.invert /\ ~b.bold /\ b.fg = NoColour /\ b.bg = NoColour
    /\ \A i \in DOMAIN b.lbuf : b.lbuf[i].c \in {"a", " "}
    /\ b.cont = Converted(e.continued) \/ (b.cont = <<>> /\ b.start = 0)
    /\ b.col = Columns(b.cont) + (Pos(b) - b.start)
    /\ b.wordBreak # 0 => b.lbuf[b.wordBreak + 1].c = " "

FitInv ==
    /\ KeptInv
    /\ EachAColumn(splitEnv) =>
          /\ ~split => Narrow(splitEnv, buf) /\ buf.col <= splitEnv.columns
          /\ \A p \in DOMAIN pieces : Columns(pieces[p]) <= splitEnv.columns

\* A piece is as wide as what is before it and its letters.
LEMMA PieceIsNarrow ==
    ASSUME NEW e, NEW b \in Buffer, Narrow(e, b), NEW k \in Nat, b.start <= k, k <= Pos(b)
    PROVE  /\ PieceTo(b, k) \in Seq(Cell)
           /\ Columns(PieceTo(b, k)) <= Columns(b.cont) + (k - b.start) /\ Columns(PieceTo(b, k)) \in Nat
<1> DEFINE one == SubSeq(b.lbuf, b.start + 1, k)
           off == <<FullOff>>
<1>1. b.lbuf \in Seq(Cell) /\ b.cont \in Seq(Cell) /\ b.start \in Nat /\ Pos(b) = Len(b.lbuf) /\ Pos(b) \in Nat
    BY BufferFields DEF Pos
<1>2. /\ one \in Seq(Cell) /\ Len(one) = k - b.start
      /\ \A i \in 1 .. k - b.start : one[i] = b.lbuf[i + b.start]
      /\ DOMAIN one = 1 .. k - b.start /\ DOMAIN b.lbuf = 1 .. Pos(b)
    <2>1. /\ one \in Seq(Cell) /\ Len(one) = k - b.start
          /\ \A i \in 1 .. k - b.start : one[i] = b.lbuf[i + b.start]
        BY <1>1, PartsOfLine, ZenonT(60)
    <2> HIDE DEF one
    <2>2. DOMAIN one = 1 .. k - b.start /\ DOMAIN b.lbuf = 1 .. Pos(b)
        BY <1>1, <2>1, CellsOf
    <2>3. QED BY <2>1, <2>2
<1>3. \A i \in 1 .. k - b.start : i + b.start \in 1 .. Pos(b)
    BY <1>1, SMTT(30)
<1> HIDE DEF one
<1>4. \A i \in DOMAIN one : Width(one[i]) # 2
    <2>1. TAKE i \in DOMAIN one
    <2>2. one[i] \in Cell /\ one[i].c \in {"a", " "}
        <3>1. i + b.start \in DOMAIN b.lbuf /\ one[i] = b.lbuf[i + b.start]
            BY ONLY <1>2, <1>3, i \in DOMAIN one, Zenon
        <3>2. one[i] \in Cell
            BY <1>2, CellsOf
        <3>3. QED BY ONLY <3>1, <3>2, Narrow(e, b), Zenon DEF Narrow
    <2>3. Width(one[i]) = 1
        BY ONLY <2>2, WidthOfBlank, Zenon
    <2>4. QED BY ONLY <2>3
<1>5. Columns(one) \in Nat /\ Columns(one) <= k - b.start
    <2>1. Columns(one) \in Nat /\ Columns(one) <= Len(one)
        BY <1>2, <1>4, ColumnsOfNarrow
    <2>2. QED BY <1>2, <2>1
<1>6. off \in Seq(Cell) /\ Columns(off) = 0
    <2>1. off \in Seq(Cell)
        <3>1. FullOff \in Cell
            BY WidthOfBlank
        <3>2. QED BY ONLY <3>1
    <2>2. \A i \in DOMAIN off : Width(off[i]) = 0
        <3>1. \A x : \A i \in DOMAIN <<x>> : <<x>>[i] = x
            OBVIOUS
        <3>2. QED BY ONLY <3>1, WidthOfBlank, Zenon
    <2> HIDE DEF off
    <2>3. \A i \in DOMAIN off : ~(Width(off[i]) > 0) /\ Width(off[i]) # 2
        BY ONLY <2>2
    <2>4. SeenAt(off) = {} /\ WideAt(off) = {}
        BY <2>3 DEF SeenAt, WideAt
    <2>5. Columns(off) = Cardinality(SeenAt(off)) + Cardinality(WideAt(off))
        BY DEF Columns, SeenAt, WideAt
    <2>6. QED BY <2>1, <2>4, <2>5, FS_EmptySet
<1> HIDE DEF off
<1> DEFINE front == b.cont \o one
<1>7. front \in Seq(Cell) /\ Columns(front) <= Columns(b.cont) + Columns(one) /\ Columns(front) \in Nat /\ Columns(b.cont) \in Nat
    BY <1>1, <1>2, ColumnsAdd, JoinedCells
<1>8. PieceTo(b, k) = front \o off
    BY DEF PieceTo, one, off
<1> HIDE DEF front
<1>9. front \o off \in Seq(Cell) /\ Columns(front \o off) <= Columns(front) + Columns(off) /\ Columns(front \o off) \in Nat
    BY <1>6, <1>7, ColumnsAdd, JoinedCells
<1>10. Columns(front \o off) <= Columns(b.cont) + (k - b.start)
    <2>1. k - b.start \in Int
        BY <1>1
    <2>2. QED BY ONLY <1>5, <1>6, <1>7, <1>9, <2>1
<1>11. QED BY <1>8, <1>9, <1>10

\* Where a line is broken that had room for its first m cells.
BrokenAt(e, b, m) ==
    /\ m \in Nat /\ b.start <= m /\ m < Pos(b) /\ b.wordBreak <= m
    /\ Columns(b.cont) + (m - b.start) <= e.columns
    /\ \/ Pos(b) = m + 1 /\ b.wordBreak < Pos(b)
       \/ (\A i \in m + 1 .. Pos(b) : b.lbuf[i].c = " ") /\ b.wordBreak = m

\* The piece fits, and so does what is left.
LEMMA BrokenFits ==
    ASSUME NEW e \in SplitSettings, e = splitEnv, EachAColumn(e), NEW b \in Buffer, Narrow(e, b), Around(e, b),
           b.col > e.columns, NEW m, BrokenAt(e, b, m)
    PROVE  /\ Columns(PieceTo(b, BreakAt(b))) <= e.columns
           /\ Narrow(e, Restarted(b)) /\ Restarted(b).col <= e.columns
<1> DEFINE k == BreakAt(b)
           j == BehindBlanks(b, k)
           line == Converted(e.continued)
           cc == Columns(b.cont)
           r == Restarted(b)
<1>1. /\ b.lbuf \in Seq(Cell) /\ b.cont \in Seq(Cell) /\ b.start \in Nat /\ b.wordBreak \in Nat /\ b.col \in Int
      /\ Pos(b) \in Nat /\ Pos(b) = Len(b.lbuf)
    BY BufferFields DEF Pos
<1>2. e.columns \in Nat /\ e.columns > 1 /\ ~e.indents /\ Columns(line) <= 1
    BY SplitsAssumption DEF EachAColumn, SplitSetting
<1>3. line \in Seq(Cell)
    BY ContinuedAssumption
<1> HIDE DEF line
<1>4. Columns(line) \in Nat /\ cc \in Nat
    BY <1>1, <1>3, ColumnsAdd
<1>5. b.col = cc + (Pos(b) - b.start) /\ b.col > e.columns
    BY DEF Narrow
<1>6. /\ m \in Nat /\ b.start <= m /\ m < Pos(b) /\ b.wordBreak <= m /\ cc + (m - b.start) <= e.columns
      /\ \/ Pos(b) = m + 1
         \/ (\A i \in m + 1 .. Pos(b) : b.lbuf[i].c = " ") /\ b.wordBreak = m
    BY DEF BrokenAt
<1>7. /\ m \in Nat /\ b.start <= m /\ m < Pos(b) /\ b.wordBreak <= m /\ cc + (m - b.start) <= e.columns
    BY <1>6
<1>8. k \in Nat /\ b.start <= k /\ k < Pos(b)
    BY BreakIsInLine
<1>9. k = IF b.wordBreak = 0 THEN Pos(b) - (b.col - e.columns) ELSE b.wordBreak
    BY DEF BreakAt
<1> HIDE DEF cc, k
<1>10. k <= Pos(b)
    BY ONLY <1>1, <1>8
<1>11. cc + (k - b.start) <= e.columns
    <2>1. CASE b.wordBreak = 0
        <3>1. k = Pos(b) - (b.col - e.columns)
            BY ONLY <1>9, <2>1, Zenon
        <3>2. \A x \in Nat, p \in Nat, s \in Nat, w \in Nat, y \in Int :
                 y = x + (p - s) => x + ((p - (y - w)) - s) <= w
            OBVIOUS
        <3>3. b.col = cc + (Pos(b) - b.start) /\ e.columns \in Nat
            BY <1>2, <1>5
        <3>4. QED BY ONLY <1>1, <1>4, <3>1, <3>2, <3>3, Zenon
    <2>2. CASE b.wordBreak # 0
        <3>1. k = b.wordBreak
            BY ONLY <1>9, <2>2, Zenon
        <3>2. QED BY ONLY <1>1, <1>2, <1>4, <1>7, <3>1, SMTT(30)
    <2>3. QED BY <2>1, <2>2
<1>12. Columns(PieceTo(b, k)) <= e.columns
    <2>1. Columns(PieceTo(b, k)) <= cc + (k - b.start) /\ Columns(PieceTo(b, k)) \in Nat
        BY <1>8, <1>10, PieceIsNarrow DEF cc
    <2>2. QED BY ONLY <1>1, <1>2, <1>4, <1>8, <1>11, <2>1
<1>13. /\ j \in Nat /\ k <= j /\ j <= Pos(b)
       /\ j = Pos(b) \/ b.lbuf[j + 1].c # " "
    BY <1>8, <1>10, BehindBlanksIs
<1>14. j \in Nat /\ k <= j /\ j <= Pos(b)
    BY <1>13
<1>15. j = BehindBlanks(b, BreakAt(b))
    BY DEF k
<1> HIDE DEF j
<1>16. Continuation(b) = line
    BY <1>2 DEF Continuation, line
<1>17. Columns(line) + (Pos(b) - j) <= e.columns
    <2>1. CASE Pos(b) = m + 1
        <3>1. CASE b.wordBreak = 0
            <4>1. k = Pos(b) - 1
                BY ONLY <1>1, <1>2, <1>4, <1>5, <1>7, <1>9, <2>1, <3>1, SMTT(30)
            <4>2. QED BY ONLY <1>1, <1>2, <1>4, <1>14, <4>1
        <3>2. CASE b.wordBreak # 0
            <4>1. k = b.wordBreak
                BY ONLY <1>9, <3>2
            <4>2. b.lbuf[k + 1].c = " "
                BY <3>2, <4>1 DEF Narrow
            <4>3. j # k
                <5>1. ASSUME j = k PROVE FALSE
                    <6>1. k = Pos(b)
                        BY ONLY <1>13, <4>2, <5>1, Zenon
                    <6>2. QED BY ONLY <1>1, <1>8, <6>1
                <5>2. QED BY <5>1
            <4>4. j >= k + 1
                BY ONLY <1>8, <1>14, <4>3
            <4>5. CASE b.cont = line
                <5>1. Columns(line) = cc
                    BY <4>5 DEF cc
                <5>2. QED BY ONLY <1>1, <1>2, <1>4, <1>5, <1>7, <1>8, <1>14, <2>1, <4>4, <5>1, SMTT(30)
            <4>6. CASE b.cont = <<>> /\ b.start = 0
                <5>1. cc = 0
                    <6>1. <<>> \in Seq(Cell) /\ Len(<<>>) = 0 /\ DOMAIN <<>> = {}
                        OBVIOUS
                    <6>2. Columns(<<>>) \in Nat /\ Columns(<<>>) <= 0
                        BY <6>1, ColumnsOfNarrow
                    <6>3. \A x \in Nat : x <= 0 => x = 0
                        OBVIOUS
                    <6>4. QED BY ONLY <4>6, <6>2, <6>3, Zenon DEF cc
                <5>2. b.start = 0 /\ k >= 1
                    BY ONLY <1>8, <3>2, <4>1, <4>6, <1>1
                <5>3. QED BY ONLY <1>1, <1>2, <1>4, <1>5, <1>7, <1>8, <1>14, <2>1, <4>4, <5>1, <5>2
            <4>7. b.cont = line \/ (b.cont = <<>> /\ b.start = 0)
                BY DEF Narrow, line
            <4>8. QED BY ONLY <4>5, <4>6, <4>7, Zenon
        <3>3. QED BY <3>1, <3>2
    <2>2. CASE (\A i \in m + 1 .. Pos(b) : b.lbuf[i].c = " ") /\ b.wordBreak = m
        <3>1. j >= m
            <4>1. b.wordBreak = m
                BY <2>2
            <4>2. QED BY ONLY <1>1, <1>7, <1>8, <1>9, <1>14, <4>1
        <3>2. j = Pos(b)
            <4>1. ASSUME j # Pos(b) PROVE FALSE
                <5>1. j + 1 \in m + 1 .. Pos(b)
                    BY ONLY <1>1, <1>7, <1>14, <3>1, <4>1
                <5>2. b.lbuf[j + 1].c = " "
                    BY ONLY <2>2, <5>1, Zenon
                <5>3. QED BY ONLY <1>13, <4>1, <5>2, Zenon
            <4>2. QED BY <4>1
        <3>3. QED BY ONLY <1>1, <1>2, <1>4, <3>2
    <2>3. QED BY <1>6, <2>1, <2>2
<1>18. Rebuilt(b) = <<>>
    <2>1. \A s : s = <<>> => s \o <<>> = <<>>
        OBVIOUS
    <2>2. ~b.underline /\ ~b.invert /\ ~b.bold /\ ~(b.fg # NoColour \/ b.bg # NoColour)
        BY DEF Narrow
    <2>3. Rebuilt(b) = ((<<>> \o <<>>) \o <<>>) \o <<>>
        BY ONLY <2>2, Zenon DEF Rebuilt
    <2>4. QED BY ONLY <2>1, <2>3, Zenon
<1>19. /\ r.cont = line /\ r.wordBreak = 0 /\ r.col = Columns(line) + (Pos(b) - j) /\ r.lbuf = b.lbuf /\ r.start = j
       /\ r.underline = b.underline /\ r.invert = b.invert /\ r.bold = b.bold /\ r.fg = b.fg /\ r.bg = b.bg
    BY ONLY <1>14, <1>15, <1>16, <1>18, RestartedFields, b \in Buffer, e \in SplitSettings, e = splitEnv, Around(e, b)
<1> HIDE DEF r
<1>20. Pos(r) = Pos(b)
    BY <1>19 DEF Pos
<1>21. Narrow(e, r) /\ r.col <= e.columns
    BY ONLY <1>17, <1>19, <1>20, Narrow(e, b), Zenon DEF Narrow, line
<1>22. QED BY <1>12, <1>21 DEF r, k

\* A letter that takes a column, or blanks, are put: the line is broken where it should be.
LEMMA ReadNarrow ==
    ASSUME KeptInv, ~split, EachAColumn(splitEnv), Narrow(splitEnv, buf), buf.col <= splitEnv.columns,
           NEW t, NEW d, NEW cells, ReadAs(t, d, cells)
    PROVE  Narrow(splitEnv, d) /\ BrokenAt(splitEnv, d, Pos(buf))
<1> DEFINE b == buf
           e == splitEnv
           m == Pos(b)
<1>1. b \in Buffer /\ d \in Buffer /\ Around(e, b) /\ Narrow(e, b) /\ b.col <= e.columns
    BY DEF KeptInv, SplitsTypeOK, Between, ReadAs, Continued
<1>2. /\ b.lbuf \in Seq(Cell) /\ b.start \in Nat /\ m \in Nat /\ m = Len(b.lbuf) /\ b.wordBreak \in Nat /\ b.col \in Int
      /\ b.cont \in Seq(Cell) /\ d.lbuf \in Seq(Cell) /\ d.wordBreak \in Nat
    BY <1>1, BufferFields DEF Pos
<1>3. e.tabMax = 0 /\ t \in {"a", " ", "TAB"}
    BY DEF EachAColumn, ReadAs
<1>4. Continued(b, d, cells) /\ PlainAs(e, t, b, d, cells) /\ cells \in Seq(Cell)
    BY DEF ReadAs, OfLetter
<1> HIDE DEF b, e
<1>5. /\ d.underline = b.underline /\ d.invert = b.invert /\ d.bold = b.bold /\ d.fg = b.fg /\ d.bg = b.bg
      /\ d.col = b.col + Len(cells) /\ Len(cells) > 0
      /\ \/ Len(cells) = 1 /\ cells[1].c = "a" /\ d.wordBreak = b.wordBreak
         \/ (\A i \in DOMAIN cells : cells[i].c = " ") /\ d.wordBreak = Pos(b)
    BY ONLY <1>3, <1>4, Zenon DEF PlainAs
<1>6. d.lbuf = b.lbuf \o cells /\ d.start = b.start /\ d.cont = b.cont
    BY <1>4 DEF Continued
<1>7. b.start <= m /\ (b.wordBreak # 0 => b.start <= b.wordBreak /\ b.wordBreak < m)
    BY <1>1 DEF Around
<1>8. Len(cells) \in Nat /\ DOMAIN cells = 1 .. Len(cells) /\ DOMAIN b.lbuf = 1 .. m
    BY <1>2, <1>4, CellsOf
<1> HIDE DEF m
<1>9. Pos(d) = m + Len(cells)
    BY <1>2, <1>4, <1>7, RestGrows DEF m
<1>10. /\ \A i \in DOMAIN b.lbuf : d.lbuf[i] = b.lbuf[i]
       /\ \A i \in DOMAIN cells : d.lbuf[i + m] = cells[i]
       /\ \A i \in DOMAIN d.lbuf :
             \/ i \in DOMAIN b.lbuf /\ d.lbuf[i] = b.lbuf[i]
             \/ i > m /\ i - m \in DOMAIN cells /\ d.lbuf[i] = cells[i - m]
       /\ DOMAIN d.lbuf = 1 .. Pos(d)
    <2>1. DOMAIN d.lbuf = 1 .. Pos(d)
        BY <1>2, CellsOf DEF Pos
    <2>2. /\ \A i \in DOMAIN b.lbuf : d.lbuf[i] = b.lbuf[i]
          /\ \A i \in DOMAIN cells : d.lbuf[i + m] = cells[i]
          /\ \A i \in DOMAIN d.lbuf :
                \/ i \in DOMAIN b.lbuf
                \/ i > m /\ i - m \in DOMAIN cells /\ d.lbuf[i] = cells[i - m]
        <3> DEFINE n == Len(b.lbuf)
                   whole == b.lbuf \o cells
        <3>1. /\ \A i \in DOMAIN b.lbuf : whole[i] = b.lbuf[i]
              /\ \A i \in DOMAIN cells : whole[i + n] = cells[i]
              /\ \A i \in DOMAIN whole :
                    \/ i \in DOMAIN b.lbuf
                    \/ i > n /\ i - n \in DOMAIN cells /\ whole[i] = cells[i - n]
            BY ONLY <1>2, <1>4, JoinedCells, ZenonT(60)
        <3>2. n = m /\ whole = d.lbuf
            BY <1>2, <1>6
        <3> HIDE DEF n, whole
        <3>3. QED BY ONLY <3>1, <3>2, Zenon
    <2>3. QED BY ONLY <2>1, <2>2, Zenon
<1>11. (\A i \in DOMAIN b.lbuf : b.lbuf[i].c \in {"a", " "}) /\ (\A i \in DOMAIN cells : cells[i].c \in {"a", " "})
    <2>1. \A i \in DOMAIN b.lbuf : b.lbuf[i].c \in {"a", " "}
        BY <1>1 DEF Narrow
    <2>2. CASE Len(cells) = 1 /\ cells[1].c = "a"
        <3>1. \A i \in DOMAIN cells : i = 1
            <4>1. Len(cells) = 1
                BY <2>2
            <4>2. QED BY ONLY <1>8, <4>1
        <3>2. QED BY ONLY <2>1, <2>2, <3>1, Zenon
    <2>3. CASE \A i \in DOMAIN cells : cells[i].c = " "
        BY ONLY <2>1, <2>3, Zenon
    <2>4. QED BY ONLY <1>5, <2>2, <2>3, Zenon
<1>12. \A i \in DOMAIN d.lbuf : d.lbuf[i].c \in {"a", " "}
    BY ONLY <1>10, <1>11, Zenon
<1>13. Columns(b.cont) \in Nat /\ b.col = Columns(b.cont) + (m - b.start)
    BY <1>1, <1>2, ColumnsAdd DEF Narrow, m
<1>14. d.col = Columns(d.cont) + (Pos(d) - d.start)
    <2>1. d.col = b.col + Len(cells)
        BY <1>5
    <2>2. d.col = Columns(b.cont) + (Pos(d) - b.start)
        <3> DEFINE x == Columns(b.cont)
                   n == Len(cells)
                   s == b.start
        <3>1. x \in Nat /\ m \in Nat /\ n \in Nat /\ s \in Nat
            BY <1>2, <1>8, <1>13
        <3> HIDE DEF x, n, s
        <3>4. (x + (m - s)) + n = x + ((m + n) - s)
            BY ONLY <3>1
        <3>2. (Columns(b.cont) + (m - b.start)) + Len(cells) = Columns(b.cont) + ((m + Len(cells)) - b.start)
            BY <3>4 DEF x, n, s
        <3>3. QED BY ONLY <1>9, <1>13, <2>1, <3>2, Zenon
    <2>3. QED BY ONLY <1>6, <2>2, Zenon
<1>15. d.wordBreak # 0 => d.lbuf[d.wordBreak + 1].c = " "
    <2>1. CASE d.wordBreak = b.wordBreak
        <3>1. SUFFICES ASSUME d.wordBreak # 0 PROVE d.lbuf[d.wordBreak + 1].c = " "
            OBVIOUS
        <3>2. b.wordBreak + 1 \in 1 .. m
            BY ONLY <1>2, <1>7, <2>1, <3>1
        <3>3. b.lbuf[b.wordBreak + 1].c = " "
            BY ONLY <1>1, <2>1, <3>1, Zenon DEF Narrow
        <3>4. QED BY ONLY <1>8, <1>10, <2>1, <3>2, <3>3, Zenon
    <2>2. CASE (\A i \in DOMAIN cells : cells[i].c = " ") /\ d.wordBreak = Pos(b)
        <3>1. 1 \in DOMAIN cells
            <4>1. Len(cells) > 0
                BY <1>5
            <4>2. QED BY ONLY <1>8, <4>1
        <3>2. d.wordBreak + 1 = 1 + m
            <4>1. d.wordBreak = m
                BY <2>2 DEF m
            <4>2. QED BY ONLY <1>2, <4>1
        <3>3. QED BY ONLY <1>10, <2>2, <3>1, <3>2, ZenonT(60)
    <2>3. QED BY ONLY <1>5, <2>1, <2>2, Zenon
<1>16. Narrow(e, d)
    BY ONLY <1>1, <1>5, <1>6, <1>12, <1>14, <1>15, Zenon DEF Narrow
<1>17. BrokenAt(e, d, m)
    <2>1. Len(cells) > 0 /\ (d.wordBreak = b.wordBreak \/ d.wordBreak = m)
        BY <1>5 DEF m
    <2>2. m < Pos(d) /\ d.wordBreak <= m /\ d.start <= m
        BY ONLY <1>2, <1>6, <1>7, <1>8, <1>9, <2>1
    <2>3. Columns(d.cont) + (m - d.start) <= e.columns
        <3>1. b.col <= e.columns /\ Columns(d.cont) = Columns(b.cont) /\ d.start = b.start
            BY <1>1, <1>6
        <3>2. Columns(d.cont) + (m - d.start) = b.col
            BY ONLY <1>13, <3>1, Zenon
        <3>3. QED BY ONLY <3>1, <3>2, Zenon
    <2>4. \/ Pos(d) = m + 1 /\ d.wordBreak < Pos(d)
          \/ (\A i \in m + 1 .. Pos(d) : d.lbuf[i].c = " ") /\ d.wordBreak = m
        <3>1. CASE Len(cells) = 1
            <4>1. Pos(d) = m + 1 /\ m + 1 \in Nat
                BY ONLY <1>2, <1>9, <3>1
            <4>2. \A w, p \in Nat : w <= p => w < p + 1
                OBVIOUS
            <4>3. d.wordBreak < Pos(d)
                BY ONLY <1>2, <2>2, <4>1, <4>2, Zenon
            <4>4. QED BY ONLY <4>1, <4>3, Zenon
        <3>2. CASE (\A i \in DOMAIN cells : cells[i].c = " ") /\ d.wordBreak = Pos(b)
            <4>1. \A i \in m + 1 .. Pos(d) : i - m \in DOMAIN cells /\ (i - m) + m = i
                BY ONLY <1>2, <1>8, <1>9
            <4>2. \A i \in m + 1 .. Pos(d) : d.lbuf[i] = cells[i - m]
                <5>1. TAKE i \in m + 1 .. Pos(d)
                <5>2. i - m \in DOMAIN cells /\ (i - m) + m = i
                    BY ONLY <4>1, i \in m + 1 .. Pos(d), Zenon
                <5>3. d.lbuf[(i - m) + m] = cells[i - m]
                    BY ONLY <1>10, <5>2, Zenon
                <5>4. QED BY ONLY <5>2, <5>3, Zenon
            <4>3. \A i \in m + 1 .. Pos(d) : d.lbuf[i].c = " "
                BY ONLY <3>2, <4>1, <4>2, ZenonT(60)
            <4>4. d.wordBreak = m
                BY <3>2 DEF m
            <4>5. QED BY <4>3, <4>4
        <3>3. QED BY ONLY <1>5, <3>1, <3>2, Zenon
    <2>5. QED BY ONLY <1>2, <2>2, <2>3, <2>4, Zenon DEF BrokenAt
<1>18. QED BY <1>16, <1>17 DEF e, m, b

PiecesNarrow(e, done) == \A p \in DOMAIN done : Columns(done[p]) <= e.columns

LEMMA OneMorePiece ==
    ASSUME NEW e, NEW done \in Seq(Seq(Cell)), PiecesNarrow(e, done), NEW piece \in Seq(Cell), Columns(piece) <= e.columns
    PROVE  PiecesNarrow(e, Append(done, piece))
<1>1. /\ DOMAIN Append(done, piece) = DOMAIN done \cup {Len(done) + 1}
      /\ Append(done, piece)[Len(done) + 1] = piece
      /\ \A p \in DOMAIN done : Append(done, piece)[p] = done[p]
    BY PutBehind
<1>2. QED BY ONLY <1>1, PiecesNarrow(e, done), Columns(piece) <= e.columns, Zenon DEF PiecesNarrow

LEMMA FitStep ==
    ASSUME FitInv, [SplitsNext]_splitsVars
    PROVE  FitInv'
<1>1. KeptInv /\ KeptInv'
    BY KeptStep DEF FitInv
<1>2. splitEnv' = splitEnv
    <2>1. CASE SplitsNext /\ ~EndOfText
        <3>1. PICK t \in Letters : \E d, cells : ReadAs(t, d, cells)
            BY <1>1, <2>1, StepReads
        <3>2. QED BY <3>1 DEF ReadAs
    <2>2. CASE EndOfText
        BY <2>2 DEF EndOfText
    <2>3. CASE UNCHANGED splitsVars
        BY <2>3 DEF splitsVars
    <2>4. QED BY <2>1, <2>2, <2>3
<1>3. SUFFICES ASSUME EachAColumn(splitEnv)
               PROVE  /\ ~split' => Narrow(splitEnv, buf') /\ buf'.col <= splitEnv.columns
                      /\ PiecesNarrow(splitEnv, pieces')
    <2>1. EachAColumn(splitEnv') = EachAColumn(splitEnv)
        BY <1>2
    <2>2. (FitInv)' <=> /\ KeptInv'
                        /\ EachAColumn(splitEnv') =>
                              /\ ~split' => Narrow(splitEnv', buf') /\ buf'.col <= splitEnv'.columns
                              /\ PiecesNarrow(splitEnv', pieces')
        BY DEF FitInv, PiecesNarrow
    <2>3. QED BY <1>1, <1>2, <2>1, <2>2
<1>4. /\ ~split => Narrow(splitEnv, buf) /\ buf.col <= splitEnv.columns
      /\ PiecesNarrow(splitEnv, pieces)
    BY <1>3 DEF FitInv, PiecesNarrow
<1>5. /\ splitEnv \in SplitSettings /\ pieces \in Seq(Seq(Cell)) /\ buf \in Buffer /\ text \in Seq(Letters)
      /\ splitEnv.columns \in Nat \ {0}
    BY <1>1, EnvIs DEF KeptInv, SplitsTypeOK
<1>6. CASE SplitsNext /\ ~EndOfText
    <2>1. PICK t \in Letters : \E d, cells : ReadAs(t, d, cells)
        BY <1>1, <1>6, StepReads
    <2>2. PICK d, cells : ReadAs(t, d, cells)
        BY <2>1
    <2>3. ~split /\ Looped(d) /\ d \in Buffer /\ text' = Append(text, t)
        BY <2>2 DEF ReadAs, Continued
    <2>4. Narrow(splitEnv, d) /\ BrokenAt(splitEnv, d, Pos(buf))
        BY <1>1, <1>3, <1>4, <2>2, <2>3, ReadNarrow
    <2>5. Between(splitEnv, text', pieces, d) /\ text' \in Seq(Letters)
        <3>1. Between(splitEnv, text, pieces, buf)
            BY <1>1, <2>3 DEF KeptInv
        <3>2. Between(splitEnv, Append(text, t), pieces, d)
            BY <1>5, <2>2, <3>1, LetterRead DEF ReadAs
        <3>3. QED BY <1>5, <2>3, <3>2
    <2>6. CASE d.col <= splitEnv.columns
        <3>1. buf' = d /\ pieces' = pieces
            BY <2>3, <2>6 DEF Looped
        <3>2. QED BY <1>4, <2>4, <2>6, <3>1
    <2>7. CASE ~(d.col <= splitEnv.columns)
        <3> DEFINE piece == PieceTo(d, BreakAt(d))
                   r == Restarted(d)
        <3>1. pieces' = Append(pieces, piece) /\ buf' = IF split' THEN d ELSE r
            BY <2>3, <2>7 DEF Looped
        <3>2. d.col > splitEnv.columns
            <4>1. d.col \in Int /\ splitEnv.columns \in Int
                BY <1>5, <2>3, BufferFields
            <4>2. QED BY ONLY <2>7, <4>1
        <3>3. Around(splitEnv, d)
            BY <2>5 DEF Between
        <3>4. Columns(piece) <= splitEnv.columns /\ Narrow(splitEnv, r) /\ r.col <= splitEnv.columns
            BY <1>3, <1>5, <2>3, <2>4, <3>2, <3>3, BrokenFits
        <3>5. piece \in Seq(Cell)
            BY <1>5, <2>3, <2>5, <3>2, BrokenLine
        <3> HIDE DEF piece, r
        <3>6. PiecesNarrow(splitEnv, pieces')
            BY <1>4, <1>5, <3>1, <3>4, <3>5, OneMorePiece
        <3>7. ~split' => buf' = r
            BY <3>1
        <3>8. QED BY <3>4, <3>6, <3>7
    <2>8. QED BY <2>6, <2>7
<1>7. CASE EndOfText
    <2> DEFINE last == IF text = <<>> THEN <<Blank, FullOff>> ELSE PieceTo(buf, Pos(buf))
    <2>1. ~split /\ split' = TRUE /\ pieces' = Append(pieces, last)
        BY <1>7 DEF EndOfText
    <2>2. last \in Seq(Cell) /\ Columns(last) <= splitEnv.columns
        <3>1. CASE text = <<>>
            <4>1. <<Blank, FullOff>> \in Seq(Cell) /\ Len(<<Blank, FullOff>>) = 2
                <5>1. Blank \in Cell /\ FullOff \in Cell
                    BY WidthOfBlank
                <5>2. QED BY ONLY <5>1
            <4>2. \A i \in DOMAIN <<Blank, FullOff>> : Width(<<Blank, FullOff>>[i]) # 2
                <5>1. Width(Blank) = 1 /\ Width(FullOff) = 0
                    BY WidthOfBlank
                <5>2. Width(Blank) # 2 /\ Width(FullOff) # 2
                    BY ONLY <5>1
                <5>3. \A x, y : \A i \in DOMAIN <<x, y>> : <<x, y>>[i] = x \/ <<x, y>>[i] = y
                    OBVIOUS
                <5>4. QED BY ONLY <5>2, <5>3, ZenonT(60)
            <4> DEFINE piece == <<Blank, FullOff>>
            <4>3. piece \in Seq(Cell) /\ Len(piece) = 2 /\ \A i \in DOMAIN piece : Width(piece[i]) # 2
                BY <4>1, <4>2
            <4>4. last = piece
                BY <3>1
            <4> HIDE DEF piece
            <4>5. Columns(piece) \in Nat /\ Columns(piece) <= Len(piece)
                BY <4>3, ColumnsOfNarrow
            <4>6. splitEnv.columns > 1
                BY <1>3 DEF EachAColumn
            <4>7. Columns(piece) <= splitEnv.columns
                BY ONLY <1>5, <4>3, <4>5, <4>6
            <4>8. QED BY <4>3, <4>4, <4>7
        <3>2. CASE text # <<>>
            <4>1. last = PieceTo(buf, Pos(buf))
                BY <3>2
            <4>2. Narrow(splitEnv, buf) /\ buf.col <= splitEnv.columns /\ buf.start <= Pos(buf) /\ Pos(buf) \in Nat
                  /\ Pos(buf) <= Pos(buf)
                <5>1. Around(splitEnv, buf)
                    BY <1>1, <2>1 DEF KeptInv, Between
                <5>2. buf.start <= Pos(buf) /\ Pos(buf) \in Nat
                    BY <1>5, <5>1, BufferFields DEF Around
                <5>3. QED BY <1>4, <2>1, <5>2
            <4>3. /\ PieceTo(buf, Pos(buf)) \in Seq(Cell) /\ Columns(PieceTo(buf, Pos(buf))) \in Nat
                  /\ Columns(PieceTo(buf, Pos(buf))) <= Columns(buf.cont) + (Pos(buf) - buf.start)
                BY <1>5, <4>2, PieceIsNarrow
            <4>4. buf.col = Columns(buf.cont) + (Pos(buf) - buf.start) /\ buf.col \in Int
                BY <1>5, <4>2, BufferFields DEF Narrow
            <4>5. Columns(PieceTo(buf, Pos(buf))) <= buf.col
                BY ONLY <4>3, <4>4, Zenon
            <4>6. buf.col <= splitEnv.columns
                BY <4>2
            <4>7. Columns(PieceTo(buf, Pos(buf))) <= splitEnv.columns
                BY ONLY <1>5, <4>3, <4>4, <4>5, <4>6
            <4>8. QED BY <4>1, <4>3, <4>7
        <3>3. QED BY <3>1, <3>2
    <2> HIDE DEF last
    <2>3. PiecesNarrow(splitEnv, pieces')
        BY <1>4, <1>5, <2>1, <2>2, OneMorePiece
    <2>4. QED BY <2>1, <2>3
<1>8. CASE UNCHANGED splitsVars
    <2>1. buf' = buf /\ pieces' = pieces /\ split' = split
        BY <1>8 DEF splitsVars
    <2>2. QED BY <1>4, <2>1
<1>9. QED BY <1>6, <1>7, <1>8

LEMMA FitAtFirst ==
    ASSUME SplitsInit
    PROVE  FitInv
<1>1. KeptInv
    BY KeptAtFirst
<1>2. /\ buf.lbuf = <<>> /\ buf.start = 0 /\ buf.wordBreak = 0 /\ buf.col = 0 /\ buf.cont = <<>> /\ pieces = <<>>
      /\ ~buf.underline /\ ~buf.invert /\ ~buf.bold /\ buf.fg = NoColour /\ buf.bg = NoColour
    BY DEF SplitsInit
<1>3. DOMAIN <<>> = {} /\ Len(<<>>) = 0 /\ <<>> \in Seq(Cell)
    OBVIOUS
<1>4. Pos(buf) = 0
    BY <1>2, <1>3 DEF Pos
<1>5. Columns(<<>>) = 0
    <2>1. Columns(<<>>) \in Nat /\ Columns(<<>>) <= 0
        BY <1>3, ColumnsOfNarrow
    <2>2. \A x \in Nat : x <= 0 => x = 0
        OBVIOUS
    <2>3. QED BY ONLY <2>1, <2>2, Zenon
<1>6. buf.col = Columns(buf.cont) + (Pos(buf) - buf.start)
    <2>1. 0 = 0 + (0 - 0)
        OBVIOUS
    <2>2. QED BY ONLY <1>2, <1>4, <1>5, <2>1, Zenon
<1>7. Narrow(splitEnv, buf)
    BY ONLY <1>2, <1>3, <1>6, Zenon DEF Narrow
<1>8. buf.col <= splitEnv.columns
    <2>1. splitEnv.columns \in Nat
        BY <1>1, EnvIs DEF KeptInv
    <2>2. QED BY ONLY <1>2, <2>1
<1>9. QED BY <1>1, <1>2, <1>3, <1>7, <1>8 DEF FitInv

\* However long a text is and wherever it is broken, each of its letters is in one piece, in its
\* order; and where each takes a column, no piece is wider than the screen.
THEOREM TextStaysWhole == SplitsSpec => []TextIsWhole
<1>1. SplitsInit => FitInv
    BY FitAtFirst
<1>2. FitInv /\ [SplitsNext]_splitsVars => FitInv'
    BY FitStep
<1>3. FitInv => TextIsWhole
    BY DEF FitInv, KeptInv, TextIsWhole, PiecesFit
<1>4. QED BY <1>1, <1>2, <1>3, PTL DEF SplitsSpec

=============================================================================
