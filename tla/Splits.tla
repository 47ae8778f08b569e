------------------------------- MODULE Splits -------------------------------
(***************************************************************************)
(* How a line of text becomes lines of the screen: split_up_line() breaks  *)
(* it where it gets too long, with CONTINUED_LINE and the indent before    *)
(* what is left and its bold, reverse, underlined and coloured state set   *)
(* again (window.c, screen.c), and output_line() shows each of the pieces  *)
(* (output.c).                                                             *)
(*                                                                         *)
(* A cell is a byte of lbuf.  One that is the first of something shown     *)
(* has the number of the letter it comes from: no part of the program,     *)
(* but what tells where each letter went.  Texts are shorter than lbuf.    *)
(***************************************************************************)
EXTENDS Integers, Sequences, FiniteSets, SequencesExt

CONSTANTS
    MaxLetters,        \* bound: letters of a text
    MaximumSplits,     \* MAXIMUM_SPLITS
    SplitSettings      \* what kinds of run there are, a subset of SplitSetting

Toggles == {"UND_TOG", "REV_TOG", "BOLD_TOG", "ALL_OFF"}
Colours == {"^C", "^C4", "^C4,2"}
Characters == {"a", "e'", "W", "^A"}      \* ASCII, of two bytes, of two columns, not to be shown
Letters == Characters \cup Toggles \cup Colours \cup {" ", "TAB", "BELL"}

\* fg_colour_state and bg_colour_state, of two colours; "none" is 16.
Codes == {"none", "4", "2"}

\* "~" is a byte that continues a letter; "A", "G" and "I" are put for ^A and the like.
Bytes == Letters \cup Codes \cup {"~", "A", "G", "I", "+", "COLOUR_TAG", "FULL_OFF"}
Cell == [c: Bytes, n: Nat]

SplitSetting ==
    [letters: SUBSET Letters,
     columns: Nat \ {0},           \* get_co()
     tab: Nat \ {0},               \* 8
     continued: Seq({"+", "W"}),   \* CONTINUED_LINE
     indents: BOOLEAN,             \* INDENT
     beepMax: Nat \cup {-1},       \* BEEP_MAX, -1 with BEEP off
     tabMax: Nat \cup {-1}]        \* TAB_MAX, -1 with TAB off

VARIABLES
    text,              \* the letters read so far
    buf,               \* lbuf and what split_up_line() remembers of it
    pieces,            \* output[]
    split,             \* split_up_line() is done
    splitEnv           \* the setting of this run, never changed

splitsVars == <<text, buf, pieces, split, splitEnv>>

----------------------------------------------------------------------------
(* Bytes and columns.                                                      *)

Byte(c) == [c |-> c, n |-> 0]
Blank == Byte(" ")
FullOff == Byte("FULL_OFF")

\* What is put for a letter that cannot be shown.
Marked(c, n) == <<Byte("REV_TOG"), [c |-> c, n |-> n], Byte("REV_TOG")>>

\* decode_mb(): UTF-8 of two and of three bytes stands for all there are.
BytesOf(t, n) ==
    CASE t = "e'" -> <<[c |-> t, n |-> n], Byte("~")>>
      [] t = "W" -> <<[c |-> t, n |-> n], Byte("~"), Byte("~")>>
      [] t = "^A" -> Marked("A", n)
      [] OTHER -> <<[c |-> t, n |-> n]>>
ColumnsOf(t) == IF t = "W" THEN 2 ELSE 1

\* decode_colour(), and the three bytes that it becomes.
Foreground(t) == IF t = "^C" THEN "none" ELSE "4"
Background(t) == IF t = "^C4,2" THEN "2" ELSE "none"
ColourBytes(fg, bg) == <<Byte("COLOUR_TAG"), Byte(fg), Byte(bg)>>

Unseen == Toggles \cup Codes \cup {"COLOUR_TAG", "~", "BELL", "FULL_OFF"}
Width(cell) == IF cell.c \in Unseen THEN 0 ELSE ColumnsOf(cell.c)

\* my_strlen_i(), my_strlen_c(): one for each thing shown, and another for the wide ones.
Columns(cells) ==
    Cardinality({i \in DOMAIN cells : Width(cells[i]) > 0}) + Cardinality({i \in DOMAIN cells : Width(cells[i]) = 2})

\* my_strlen_ci(), my_strcpy_ci()
Converted(letters) == FlattenSeq([i \in DOMAIN letters |-> BytesOf(letters[i], 0)])

ASSUME SplitsAssumption ==
    /\ MaxLetters \in Nat /\ MaximumSplits \in Nat \ {0}
    /\ SplitSettings \subseteq SplitSetting

\* set_continued_line() keeps CONTINUED_LINE to half of the screen; what it is converted to is of
\* no letter of the text.
ASSUME ContinuedAssumption ==
    \A e \in SplitSettings :
        LET line == Converted(e.continued) IN
        /\ line \in Seq(Cell) /\ \A i \in DOMAIN line : line[i].n = 0
        /\ Columns(line) <= e.columns

NoColour == "none"
Buffer ==
    [lbuf: Seq(Cell), start: Nat, wordBreak: Nat,
     col: Int, ndCnt: Int, indent: Int, beepCnt: Nat, tabCnt: Nat,
     cont: Seq(Cell), continued: BOOLEAN,         \* cont, and whether it is not NULL
     underline: BOOLEAN, invert: BOOLEAN, bold: BOOLEAN, fg: Codes, bg: Codes,
     torn: BOOLEAN]                               \* see AsGiven

SplitsTypeOK ==
    /\ text \in Seq(Letters) /\ buf \in Buffer
    /\ pieces \in Seq(Seq(Cell)) /\ split \in BOOLEAN
    /\ splitEnv \in SplitSettings

SplitsInit ==
    /\ text = <<>> /\ pieces = <<>> /\ split = FALSE
    /\ buf = [lbuf |-> <<>>, start |-> 0, wordBreak |-> 0, col |-> 0, ndCnt |-> 0, indent |-> 0,
              beepCnt |-> 0, tabCnt |-> 0, cont |-> <<>>, continued |-> FALSE,
              underline |-> FALSE, invert |-> FALSE, bold |-> FALSE, fg |-> NoColour, bg |-> NoColour,
              torn |-> FALSE]
    /\ splitEnv \in SplitSettings

----------------------------------------------------------------------------
(* split_up_line(): one action for each case of the switch in its loop.    *)

Put(b, cells) == [b EXCEPT !.lbuf = @ \o cells]
Pos(b) == Len(b.lbuf)

\* Mutant: one is always passed over, as if lines were only broken at a blank.
BehindBlanksOne(b, k) == IF k < Pos(b) THEN k + 1 ELSE k

\* Where the next piece begins: behind the blanks.
BehindBlanks(b, k) ==
    CHOOSE j \in k .. Pos(b) :
        /\ j = Pos(b) \/ b.lbuf[j + 1].c # " "
        /\ \A i \in k + 1 .. j : b.lbuf[i].c = " "

\* What goes before each piece but the first: with INDENT it is made once.
Continuation(b) ==
    LET line == Converted(splitEnv.continued)
        padding == b.indent - Columns(line)
    IN  IF ~(splitEnv.indents /\ b.indent < splitEnv.columns \div 3) THEN line
        ELSE IF b.continued THEN b.cont
        ELSE line \o [i \in 1 .. (IF padding < 0 THEN 0 ELSE padding) |-> Blank]

\* Mutant: without bold.
RebuiltNotBold(b) ==
    (IF b.underline THEN <<Byte("UND_TOG")>> ELSE <<>>)
        \o (IF b.invert THEN <<Byte("REV_TOG")>> ELSE <<>>)
        \o (IF b.fg # NoColour \/ b.bg # NoColour THEN ColourBytes(b.fg, b.bg) ELSE <<>>)

\* What sets the state again.
Rebuilt(b) ==
    (IF b.underline THEN <<Byte("UND_TOG")>> ELSE <<>>)
        \o (IF b.invert THEN <<Byte("REV_TOG")>> ELSE <<>>)
        \o (IF b.bold THEN <<Byte("BOLD_TOG")>> ELSE <<>>)
        \o (IF b.fg # NoColour \/ b.bg # NoColour THEN ColourBytes(b.fg, b.bg) ELSE <<>>)

\* The piece that ends at the last break, or with no break in it where it gets too long.
BreakAt(b) == IF b.wordBreak = 0 THEN Pos(b) - (b.col - splitEnv.columns) ELSE b.wordBreak
PieceTo(b, k) == b.cont \o SubSeq(b.lbuf, b.start + 1, k) \o <<FullOff>>

\* The rest is copied behind the state.
Restarted(b) ==
    LET start == BehindBlanks(b, BreakAt(b))
        cont == Continuation(b)
        rest == SubSeq(b.lbuf, start + 1, Pos(b))
        state == Rebuilt(b)
    IN  [b EXCEPT !.lbuf = IF state = <<>> THEN @ ELSE @ \o state \o rest,
                  !.start = IF state = <<>> THEN start ELSE Pos(b),
                  !.wordBreak = 0,
                  !.cont = cont, !.continued = TRUE,
                  !.col = Columns(cont) + Len(rest),
                  !.ndCnt = @ + Cardinality({i \in DOMAIN state : state[i].c \in Toggles \cup {"COLOUR_TAG"}}),
                  !.torn = @ \/ \E i \in DOMAIN rest : rest[i].c \in Toggles \cup {"COLOUR_TAG"}]

\* The end of the loop's body: a line too long is broken.
Looped(b) ==
    IF b.col <= splitEnv.columns THEN buf' = b /\ UNCHANGED <<pieces, split>>
    ELSE /\ pieces' = Append(pieces, PieceTo(b, BreakAt(b)))
         /\ split' = (Len(pieces) + 1 = MaximumSplits)
         /\ buf' = IF split' THEN b ELSE Restarted(b)

Reading(t) ==
    /\ ~split /\ Len(text) < MaxLetters /\ t \in splitEnv.letters
    /\ text' = Append(text, t)
    /\ UNCHANGED splitEnv

MarkedIn(b, c) == [Put(b, Marked(c, Len(text) + 1)) EXCEPT !.ndCnt = @ + 2, !.col = @ + 1]

ReadBell ==
    /\ Reading("BELL")
    /\ LET b == IF splitEnv.beepMax > 0 THEN [buf EXCEPT !.beepCnt = @ + 1] ELSE buf
       IN  Looped(IF splitEnv.beepMax = -1 THEN MarkedIn(b, "G")
                  ELSE IF b.beepCnt <= splitEnv.beepMax
                  THEN [Put(b, <<Byte("BELL")>>) EXCEPT !.ndCnt = @ + 1, !.col = @ + 1]
                  ELSE b)

ReadTab ==
    /\ Reading("TAB")
    /\ LET b == IF splitEnv.tabMax # 0 THEN [buf EXCEPT !.tabCnt = @ + 1] ELSE buf
           blanks == splitEnv.tab - (b.col % splitEnv.tab)
       IN  Looped(IF splitEnv.tabMax # 0 /\ b.tabCnt > splitEnv.tabMax THEN MarkedIn(b, "I")
                  ELSE [Put(b, [i \in 1 .. blanks |-> Blank]) EXCEPT
                           !.indent = IF @ = 0 THEN -1 ELSE @, !.wordBreak = Pos(b), !.col = @ + blanks])

ReadToggle ==
    \E t \in Toggles :
        /\ Reading(t)
        /\ Looped([Put(buf, <<Byte(t)>>) EXCEPT
                      !.underline = IF t = "UND_TOG" THEN ~@ ELSE @ /\ t # "ALL_OFF",
                      !.invert = IF t = "REV_TOG" THEN ~@ ELSE @ /\ t # "ALL_OFF",
                      !.bold = IF t = "BOLD_TOG" THEN ~@ ELSE @ /\ t # "ALL_OFF",
                      !.fg = IF t = "ALL_OFF" THEN NoColour ELSE @,
                      !.bg = IF t = "ALL_OFF" THEN NoColour ELSE @,
                      !.ndCnt = @ + 1])

ReadColour ==
    \E t \in Colours :
        /\ Reading(t)
        /\ Looped([Put(buf, ColourBytes(Foreground(t), Background(t))) EXCEPT
                      !.fg = Foreground(t), !.bg = Background(t), !.ndCnt = @ + 3])

ReadBlank ==
    /\ Reading(" ")
    /\ Looped([Put(buf, <<Blank>>) EXCEPT
                  !.indent = IF @ = 0 THEN -1 ELSE @, !.wordBreak = Pos(buf), !.col = @ + 1])

ReadCharacter ==
    \E t \in Characters :
        /\ Reading(t)
        /\ LET bytes == BytesOf(t, Len(text) + 1)
           IN  Looped([Put(buf, bytes) EXCEPT
                          !.indent = IF @ = -1 THEN Pos(buf) - buf.ndCnt ELSE @,
                          !.wordBreak = IF ColumnsOf(t) > 1 THEN Pos(buf) ELSE @,
                          !.ndCnt = @ + Len(bytes) - ColumnsOf(t), !.col = @ + ColumnsOf(t)])

\* The end of the text; one without a letter is a blank.
EndOfText ==
    /\ ~split /\ split' = TRUE
    /\ pieces' = Append(pieces, IF text = <<>> THEN <<Blank, FullOff>> ELSE PieceTo(buf, Pos(buf)))
    /\ UNCHANGED <<text, buf, splitEnv>>

SplitsNext ==
    \/ ReadBell \/ ReadTab \/ ReadToggle \/ ReadColour \/ ReadBlank \/ ReadCharacter
    \/ EndOfText

SplitsSpec == SplitsInit /\ [][SplitsNext]_splitsVars

----------------------------------------------------------------------------
(* output_line(): what the terminal shows of a piece.  The colours are     *)
(* those that display_colours() sets last; USER stands for the defaults.   *)

Plain == [rev |-> FALSE, und |-> FALSE, bold |-> FALSE, fg |-> "USER", bg |-> "USER"]

\* display_highlight(TOGGLE), display_bold(TOGGLE), the underline, and all of them off.
Toggled(state, c) ==
    CASE c = "REV_TOG" -> [state EXCEPT !.rev = ~@]
      [] c = "UND_TOG" -> [state EXCEPT !.und = ~@]
      [] c = "BOLD_TOG" -> [state EXCEPT !.bold = ~@]
      [] OTHER -> Plain

\* display_colours(): a colour out of range is left as it is.
Coloured(state, fg, bg) ==
    [state EXCEPT !.fg = IF fg = NoColour THEN @ ELSE fg, !.bg = IF bg = NoColour THEN @ ELSE bg]

\* What is on the terminal behind the first i cells of a piece, and each letter on it.
Output(piece) ==
    LET after[i \in 0 .. Len(piece)] ==
            IF i = 0 THEN [state |-> Plain, written |-> 0, shown |-> {}]
            ELSE LET a == after[i - 1]
                     cell == piece[i]
                 IN  IF cell.c \in Toggles \cup {"FULL_OFF"} THEN [a EXCEPT !.state = Toggled(@, cell.c)]
                     ELSE IF cell.c = "COLOUR_TAG"
                     THEN [a EXCEPT !.state = Coloured(@, piece[i + 1].c, piece[i + 2].c)]
                     ELSE IF Width(cell) = 0 \/ a.written >= splitEnv.columns THEN a
                     ELSE [a EXCEPT !.written = @ + Width(cell),
                                    !.shown = @ \cup {[n |-> cell.n, as |-> a.state]}]
    IN  after[Len(piece)]

----------------------------------------------------------------------------
(* What is right of it.                                                    *)

\* What is shown of letter n of the text, where there is no colour without a background or a
\* foreground: what the toggles before it say since all was last turned off, and what cannot be
\* shown in reverse.
Since(n) == {i \in 1 .. n - 1 : \A j \in i .. n - 1 : text[j] # "ALL_OFF"}
IsOdd(set) == Cardinality(set) % 2 = 1
Given(n) ==
    LET last == {i \in Since(n) : text[i] \in Colours /\ \A j \in i + 1 .. n - 1 : text[j] \notin Colours}
    IN  [rev |-> IsOdd({i \in Since(n) : text[i] = "REV_TOG"}) # (text[n] \in {"^A", "TAB", "BELL"}),
         und |-> IsOdd({i \in Since(n) : text[i] = "UND_TOG"}),
         bold |-> IsOdd({i \in Since(n) : text[i] = "BOLD_TOG"}),
         fg |-> IF last = {} THEN "USER" ELSE "4", bg |-> IF last = {} THEN "USER" ELSE "2"]

Whole == split /\ Len(pieces) < MaximumSplits

\* Every letter is in a piece, once, and in the order of the text.
TextKept ==
    /\ Whole => \A n \in DOMAIN text : text[n] \in Characters =>
                    \E p \in DOMAIN pieces : \E i \in DOMAIN pieces[p] : pieces[p][i].n = n
    /\ \A p, q \in DOMAIN pieces : \A i \in DOMAIN pieces[p], j \in DOMAIN pieces[q] :
          (p < q \/ (p = q /\ i < j)) /\ pieces[p][i].n > 0 /\ pieces[q][j].n > 0 => pieces[p][i].n < pieces[q][j].n

\* No piece is wider than the screen: rite() "assumes that str already fits on one screen line"
\* (output.c:791).  Where all that is put into lbuf takes a column, CONTINUED_LINE at most one,
\* and INDENT is off: what was counted for the rest of a line is its bytes, and it may be as long
\* as the screen again.
EachAColumn(e) ==
    /\ e.letters \subseteq {"a", " ", "TAB"} /\ e.tabMax = 0
    /\ e.columns > 1 /\ ~e.indents /\ Columns(Converted(e.continued)) <= 1
PiecesFit == EachAColumn(splitEnv) => \A p \in DOMAIN pieces : Columns(pieces[p]) <= splitEnv.columns

\* No letter of a text is lost or put twice, and none is cut off by output_line() where the
\* pieces fit (window.c).
TextIsWhole == TextKept /\ PiecesFit

\* Each letter is shown as the toggles and colours before it say, on whatever line it comes to
\* be.  But where a line was broken before toggles they are read twice, and a colour without a
\* background, or none, is not kept.
AsGiven ==
    split /\ ~buf.torn /\ splitEnv.letters \cap {"^C", "^C4"} = {} =>
        \A p \in DOMAIN pieces : \A shown \in Output(pieces[p]).shown :
            shown.n > 0 => shown.as = Given(shown.n)

=============================================================================
