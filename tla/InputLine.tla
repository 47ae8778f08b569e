------------------------------ MODULE InputLine ------------------------------
(***************************************************************************)
(* The input line of a screen: the editing functions of input.c, the keys  *)
(* of edit_char(), the questions asked in its place (add_wait_prompt()),   *)
(* and the command history of history.c, kept in memory.                   *)
(*                                                                         *)
(* A typed character is a letter, a space or a "!", with the question that *)
(* was shown when it was typed, 0 for none: what the code does never       *)
(* depends on that, the properties do.  The text after the prompt is a     *)
(* sequence of them, and the cursor counts characters from its start: the  *)
(* bytes of a character are moved, deleted and counted together.           *)
(***************************************************************************)
EXTENDS Naturals, Sequences

CONSTANTS
    MaxChars,          \* characters there is room for after the prompt
    MaxQuestions,      \* bound: questions asked
    MaxEntries,        \* bound: entries ever made in the history
    InputSettings      \* what kinds of run there are, a subset of InputSetting

Glyph == {"x", " ", "!"}
Edits == {"BACKWARD_CHARACTER", "FORWARD_CHARACTER", "BACKWARD_WORD", "FORWARD_WORD",
          "BEGINNING_OF_LINE", "END_OF_LINE"}
Kills == {"BACKSPACE", "DELETE_CHARACTER", "DELETE_PREVIOUS_WORD", "DELETE_NEXT_WORD",
          "ERASE_TO_END_OF_LINE", "ERASE_TO_BEG_OF_LINE", "ERASE_LINE"}
Functions == Edits \cup Kills \cup
    {"SELF_INSERT", "YANK_FROM_CUTBUFFER", "TRANSPOSE_CHARACTERS", "TOGGLE_INSERT_MODE",
     "BACKWARD_HISTORY", "FORWARD_HISTORY", "SEND_LINE",
     "QUOTE_CHARACTER", "META1_CHARACTER", "META4_CHARACTER"}

InputSetting == [functions: SUBSET Functions,   \* what the keys are bound to
                 glyphs: SUBSET Glyph,          \* what is typed
                 room: 0 .. MaxChars + 1,       \* bound: characters the line may hold and a key add
                 questions: SUBSET {"line", "key"},  \* of which kinds are asked
                 sizes: SUBSET Nat]             \* values of HISTORY

ASSUME InputAssumption ==
    /\ MaxChars \in Nat \ {0} /\ MaxQuestions \in Nat /\ MaxEntries \in Nat
    /\ InputSettings \subseteq InputSetting

VARIABLES
    buffer,            \* inputdata->buffer: the text and the cursor
    savedBuffer,       \* inputdata->saved_buffer
    cutBuffer,         \* cut_buffer: what was cut last
    insertMode,        \* INSERT_MODE
    metaHit,           \* meta_hit[]
    promptList,        \* the questions of the screen, the first is shown
    asked,             \* questions so far
    commandHistory,    \* the history, the newest entry first
    histCount,         \* hist_count: entries so far
    historyPos,        \* command_history_pos: the entry the arrows show, 0 for none
    historyTmp,        \* history_tmp: the entry the last search found, 0 for none
    searching,         \* last_dir is not -1
    historySize,       \* HISTORY
    interrupted,       \* the line as it was when the first of the questions came
    given,             \* the text given last, and the question it was for, 0 for a line
    inputEnv           \* the setting of this run, never changed

lineVars == <<buffer, cutBuffer, insertMode, metaHit>>
questionVars == <<savedBuffer, promptList, asked, interrupted>>
historyVars == <<commandHistory, histCount, historyPos, historyTmp, searching, historySize>>
inputVars == <<lineVars, questionVars, historyVars, given, inputEnv>>

Char == [glyph: Glyph, for: 0 .. MaxQuestions]
Entry == [number: Nat, stuff: Seq(Char)]
Buffer == [text: Seq(Char), pos: Nat]
EmptyBuffer == [text |-> <<>>, pos |-> 0]

InputTypeOK ==
    /\ buffer \in Buffer /\ savedBuffer \in Buffer /\ interrupted \in Buffer
    /\ cutBuffer \in Seq(Char)
    /\ insertMode \in BOOLEAN
    /\ metaHit \subseteq {0, 1, 4}
    /\ promptList \in Seq([id: 1 .. MaxQuestions, type: {"line", "key"}])
    /\ asked \in 0 .. MaxQuestions
    /\ commandHistory \in Seq(Entry)
    /\ histCount \in Nat /\ historyPos \in Nat /\ historyTmp \in Nat
    /\ searching \in BOOLEAN
    /\ historySize \in Nat
    /\ given \in [for: 0 .. MaxQuestions, text: Seq(Char)]
    /\ inputEnv \in InputSettings

InputInit ==
    /\ inputEnv \in InputSettings
    /\ buffer = EmptyBuffer /\ savedBuffer = EmptyBuffer /\ interrupted = EmptyBuffer
    /\ cutBuffer = <<>>
    /\ insertMode = TRUE /\ metaHit = {}
    /\ promptList = <<>> /\ asked = 0
    /\ commandHistory = <<>> /\ histCount = 0 /\ historyPos = 0 /\ historyTmp = 0
    /\ searching = FALSE
    /\ historySize \in (IF inputEnv.sizes = {} THEN {0} ELSE inputEnv.sizes)
    /\ given = [for |-> 0, text |-> <<>>]

----------------------------------------------------------------------------
(* Editing, as functions from a buffer to a buffer.                        *)

UpTo(a, b) == IF a <= b THEN b ELSE a
AtMost(a, b) == IF a <= b THEN a ELSE b
Before(b) == SubSeq(b.text, 1, b.pos)
After(b) == SubSeq(b.text, b.pos + 1, Len(b.text))

\* input_do_insert_raw(): what does not fit is cut off at the end of the line.
Inserted(b, chars) ==
    LET fits == SubSeq(chars, 1, AtMost(Len(chars), MaxChars + 1 - b.pos)) IN
    [text |-> LET all == Before(b) \o fits \o After(b)
              IN  SubSeq(all, 1, AtMost(Len(all), MaxChars)),
     pos |-> b.pos + Len(fits)]

\* Deletes to the cursor, after it was moved back, or from the cursor.
Without(b, from, to) ==
    [text |-> SubSeq(b.text, 1, from) \o SubSeq(b.text, to + 1, Len(b.text)), pos |-> from]

IsBreak(b, i) == b.text[i].glyph # "x"

\* input_forward_word(): over what separates words, then over a word.
ForwardWord(b) ==
    LET n == Len(b.text)
        start == CHOOSE i \in b.pos .. UpTo(b.pos, n) :
            /\ i < n => ~IsBreak(b, i + 1)
            /\ \A j \in b.pos + 1 .. i : IsBreak(b, j)
    IN  CHOOSE i \in start .. UpTo(start, n) :
            /\ i < n => IsBreak(b, i + 1)
            /\ \A j \in start + 1 .. i : ~IsBreak(b, j)

BackwardWord(b) ==
    LET end == CHOOSE i \in 0 .. b.pos :
            /\ i > 0 => ~IsBreak(b, i)
            /\ \A j \in i + 1 .. b.pos : IsBreak(b, j)
    IN  CHOOSE i \in 0 .. end :
            /\ i > 0 => IsBreak(b, i)
            /\ \A j \in i + 1 .. end : ~IsBreak(b, j)

\* Where an editing function leaves the cursor.
MovedTo(f, b) ==
    CASE f = "BACKWARD_CHARACTER" -> IF b.pos > 0 THEN b.pos - 1 ELSE 0
      [] f = "FORWARD_CHARACTER" -> IF b.pos < Len(b.text) THEN b.pos + 1 ELSE b.pos
      [] f = "BACKWARD_WORD" -> BackwardWord(b)
      [] f = "FORWARD_WORD" -> ForwardWord(b)
      [] f = "BEGINNING_OF_LINE" -> 0
      [] f = "END_OF_LINE" -> Len(b.text)

\* What a deleting function deletes: the characters after the first and up to the second.
Killed(f, b) ==
    CASE f = "BACKSPACE" -> <<MovedTo("BACKWARD_CHARACTER", b), b.pos>>
      [] f = "DELETE_CHARACTER" -> <<b.pos, MovedTo("FORWARD_CHARACTER", b)>>
      [] f = "DELETE_PREVIOUS_WORD" -> <<BackwardWord(b), b.pos>>
      [] f = "DELETE_NEXT_WORD" -> <<b.pos, ForwardWord(b)>>
      [] f = "ERASE_TO_END_OF_LINE" -> <<b.pos, Len(b.text)>>
      [] f = "ERASE_TO_BEG_OF_LINE" -> <<0, b.pos>>
      [] f = "ERASE_LINE" -> <<0, Len(b.text)>>

\* Words and lines are kept in the cut buffer, single characters are not.
Cuts(f, b) ==
    LET k == Killed(f, b) IN
    IF f \in {"BACKSPACE", "DELETE_CHARACTER"} \/ k[1] = k[2] THEN cutBuffer
    ELSE SubSeq(b.text, k[1] + 1, k[2])

\* input_transpose_characters(): the character before the cursor goes behind the one after
\* it, at the end of the line after a step back; before the first, what was cut goes there.
TransposeAt(b) == IF b.pos < Len(b.text) THEN b.pos ELSE Len(b.text) - 1
TransposeCut(b) ==
    IF TransposeAt(b) = 0 THEN cutBuffer ELSE <<b.text[TransposeAt(b)]>>
Transposed(b) ==
    LET p == TransposeAt(b)
        shorter == IF p = 0 THEN [b EXCEPT !.pos = 0] ELSE Without(b, p - 1, p)
    IN  Inserted([shorter EXCEPT !.pos = @ + 1], TransposeCut(b))

Added(b, c) ==
    IF insertMode \/ b.pos >= Len(b.text) THEN Inserted(b, <<c>>)
    ELSE Inserted(Without(b, b.pos, b.pos + 1), <<c>>)

----------------------------------------------------------------------------
(* The history.                                                            *)

Numbers(h) == {h[i].number : i \in DOMAIN h}
IndexOf(h, n) == CHOOSE i \in DOMAIN h : h[i].number = n

\* add_to_history(): the list, and the entry that the arrows show.
AddedToHistory(h, pos, size, count, line) ==
    IF line = <<>> \/ size = 0 THEN [list |-> h, pos |-> pos]
    ELSE IF Len(h) = size /\ size = 1
         THEN [list |-> <<[h[1] EXCEPT !.stuff = line]>>, pos |-> pos]
    ELSE [list |-> <<[number |-> count + 1, stuff |-> line]>>
                       \o SubSeq(h, 1, IF Len(h) = size THEN size - 1 ELSE Len(h)),
          pos |-> 0]

AddToHistory(line) ==
    LET added == AddedToHistory(commandHistory, historyPos, historySize, histCount, line) IN
    /\ commandHistory' = added.list /\ historyPos' = added.pos
    /\ histCount' = histCount + (IF line = <<>> THEN 0 ELSE 1)
    /\ searching' = (searching \/ line # <<>>)
    /\ UNCHANGED <<historyTmp, historySize>>

----------------------------------------------------------------------------
(* What the keys do.                                                       *)

Shown == IF promptList = <<>> THEN 0 ELSE Head(promptList).id
Typed(g) == [glyph |-> g, for |-> Shown]

\* Bound: the text stays short.
Fits(b) == Len(b.text) <= inputEnv.room

SetText(text) == [text |-> text, pos |-> Len(text)]

EditKey(f, g) ==
    /\ \/ f \in Edits /\ buffer' = [buffer EXCEPT !.pos = MovedTo(f, buffer)] /\ UNCHANGED cutBuffer
       \/ /\ f \in Kills
          /\ buffer' = Without(buffer, Killed(f, buffer)[1], Killed(f, buffer)[2])
          /\ cutBuffer' = Cuts(f, buffer)
       \/ f = "SELF_INSERT" /\ buffer' = Added(buffer, Typed(g)) /\ UNCHANGED cutBuffer
       \/ f = "YANK_FROM_CUTBUFFER" /\ buffer' = Inserted(buffer, cutBuffer) /\ UNCHANGED cutBuffer
       \/ /\ f = "TRANSPOSE_CHARACTERS" /\ buffer.text # <<>>
          /\ buffer' = Transposed(buffer) /\ cutBuffer' = TransposeCut(buffer)
    /\ Fits(buffer')
    /\ UNCHANGED <<insertMode, historyVars, given>>

\* get_from_history_buffer(): what was typed becomes the newest entry first.  A key that would
\* go on from a freed entry ends the model: what the code reads there can be anything.
Recall(f) ==
    LET h == commandHistory
        i == IndexOf(h, historyPos)
        added == AddedToHistory(h, 0, historySize, histCount, buffer.text).list
    IN
    /\ f \in {"BACKWARD_HISTORY", "FORWARD_HISTORY"} /\ h # <<>> /\ historySize # 0
    /\ IF historyPos = 0
       THEN /\ commandHistory' = added
            /\ historyPos' = added[IF f = "FORWARD_HISTORY" THEN Len(added) ELSE 1].number
            /\ histCount' = histCount + (IF buffer.text = <<>> THEN 0 ELSE 1)
            /\ searching' = (searching \/ buffer.text # <<>>)
       ELSE /\ historyPos \in Numbers(h)
            /\ historyPos' = IF f = "FORWARD_HISTORY" THEN h[IF i > 1 THEN i - 1 ELSE Len(h)].number
                             ELSE h[IF i < Len(h) THEN i + 1 ELSE 1].number
            /\ UNCHANGED <<commandHistory, histCount, searching>>
    /\ histCount' <= MaxEntries
    /\ buffer' = SetText(commandHistory'[IndexOf(commandHistory', historyPos')].stuff)
    /\ UNCHANGED <<historyTmp, historySize, cutBuffer, insertMode, given>>

\* The questions that are left, and one that the answer or the command leads to.
Asking(list, type) ==
    IF type = "none" THEN list ELSE Append(list, [id |-> asked + 1, type |-> type])
MayAsk == {"none"} \cup (IF asked < MaxQuestions THEN inputEnv.questions ELSE {})
AskedBy(type) == asked + (IF type = "none" THEN 0 ELSE 1)

\* prompt_check_input(): the shown question has its answer; change_input_prompt(-1).
Answered(text) ==
    /\ given' = [for |-> Shown, text |-> text]
    /\ buffer' = EmptyBuffer
    /\ \E type \in MayAsk :
          /\ promptList' = Asking(Tail(promptList), type)
          /\ asked' = AskedBy(type)
    /\ savedBuffer' = IF promptList' = <<>> THEN EmptyBuffer ELSE savedBuffer
    /\ UNCHANGED <<interrupted, cutBuffer, insertMode, historyVars>>

\* A line is run as a command or sent, is in the history, and may ask; or an INPUT hook
\* has taken it and it stays.
RunLine ==
    /\ given' = [for |-> 0, text |-> buffer.text]
    /\ buffer' = EmptyBuffer
    /\ AddToHistory(buffer.text) /\ histCount' <= MaxEntries
    /\ \E type \in MayAsk :
          /\ promptList' = Asking(<<>>, type)
          /\ asked' = AskedBy(type)
          /\ interrupted' = IF type = "none" THEN interrupted ELSE EmptyBuffer
    /\ UNCHANGED <<savedBuffer, cutBuffer, insertMode>>

HookedLine ==
    /\ given' = [for |-> 0, text |-> buffer.text]
    /\ UNCHANGED <<buffer, questionVars, cutBuffer, insertMode, historyVars>>

\* history_match(): from the newest, or on from what the last search found.
FirstLookedAt ==
    IF ~searching \/ historyTmp = 0 THEN 1 ELSE IndexOf(commandHistory, historyTmp) + 1
Matches(pattern, stuff) ==
    /\ Len(stuff) >= Len(pattern)
    /\ \A i \in DOMAIN pattern : pattern[i].glyph = stuff[i].glyph
Matching(pattern) ==
    {i \in FirstLookedAt .. Len(commandHistory) : Matches(pattern, commandHistory[i].stuff)}

\* The line is "!" and what an entry begins with: it becomes that entry.  A search that would
\* go on from a freed entry ends the model, as a walk does from one.
SearchLine ==
    LET found == Matching(Tail(buffer.text))
        first == CHOOSE i \in found : \A j \in found : i <= j
    IN
    /\ searching /\ historySize # 0 => historyTmp \in Numbers(commandHistory) \cup {0}
    /\ IF historySize = 0 \/ found = {}
       THEN /\ buffer' = EmptyBuffer /\ searching' = FALSE
            /\ historyTmp' = IF historySize = 0 THEN historyTmp ELSE 0
       ELSE /\ buffer' = SetText(commandHistory[first].stuff)
            /\ searching' = TRUE /\ historyTmp' = commandHistory[first].number
    /\ UNCHANGED <<questionVars, cutBuffer, insertMode, commandHistory, histCount, historyPos,
                   historySize, given>>

IsSearch(text) == Len(text) > 1 /\ text[1].glyph = "!"

SendLine ==
    \/ promptList # <<>> /\ Head(promptList).type = "line" /\ Answered(buffer.text)
    \/ /\ promptList = <<>>
       /\ \/ ~IsSearch(buffer.text) /\ RunLine
          \/ IsSearch(buffer.text) /\ SearchLine
          \/ HookedLine

\* The functions that change what the next key does, or how it is typed.
ModeKey(f) ==
    /\ \/ f = "QUOTE_CHARACTER" /\ metaHit' = (metaHit \ {1}) \cup {0} /\ UNCHANGED insertMode
       \/ f = "META1_CHARACTER" /\ metaHit' = metaHit \cup {1} /\ UNCHANGED insertMode
       \/ /\ f = "META4_CHARACTER" /\ UNCHANGED insertMode
          /\ metaHit' = IF 4 \in metaHit THEN metaHit \ {1, 4} ELSE (metaHit \ {1}) \cup {4}
       \/ f = "TOGGLE_INSERT_MODE" /\ insertMode' = ~insertMode /\ metaHit' = metaHit \ {1}
    /\ UNCHANGED <<buffer, cutBuffer, questionVars, historyVars, given>>

\* edit_char(): a key that types g and is bound to f, by itself or after the meta key hit.
EditChar(f, g) ==
    /\ UNCHANGED inputEnv
    /\ IF promptList # <<>> /\ Head(promptList).type = "key"
       THEN Answered(<<Typed(g)>>) /\ UNCHANGED metaHit
       ELSE IF 0 \in metaHit
       THEN metaHit' = metaHit \ {0, 1} /\ EditKey("SELF_INSERT", g) /\ UNCHANGED questionVars
       ELSE \/ ModeKey(f)
            \/ /\ metaHit' = metaHit \ {1}
               /\ \/ EditKey(f, g) /\ UNCHANGED questionVars
                  \/ Recall(f) /\ UNCHANGED questionVars
                  \/ f = "SEND_LINE" /\ SendLine

\* Mutant: the line that was being typed stays where the answer goes.
AskQuestionBehind ==
    /\ asked < MaxQuestions
    /\ \E type \in inputEnv.questions : promptList' = Asking(promptList, type)
    /\ asked' = asked + 1
    /\ interrupted' = IF promptList = <<>> THEN buffer ELSE interrupted
    /\ UNCHANGED <<lineVars, savedBuffer, historyVars, given, inputEnv>>

\* add_wait_prompt() for a server or a script, and change_input_prompt(1) for the first.
AskQuestion ==
    /\ asked < MaxQuestions
    /\ \E type \in inputEnv.questions : promptList' = Asking(promptList, type)
    /\ asked' = asked + 1
    /\ buffer' = IF promptList = <<>> THEN EmptyBuffer ELSE buffer
    /\ interrupted' = IF promptList = <<>> THEN buffer ELSE interrupted
    /\ UNCHANGED <<savedBuffer, cutBuffer, insertMode, metaHit, historyVars, given, inputEnv>>

\* SET HISTORY: the oldest entries that are too many are freed, and command_history_pos and
\* history_tmp stay as they are, at a freed entry too.
SetHistorySize ==
    /\ historySize' \in inputEnv.sizes \ {historySize}
    /\ commandHistory' = SubSeq(commandHistory, 1, AtMost(historySize', Len(commandHistory)))
    /\ UNCHANGED <<lineVars, questionVars, histCount, historyPos, historyTmp, searching, given, inputEnv>>

InputNext ==
    \/ \E f \in inputEnv.functions, g \in inputEnv.glyphs : EditChar(f, g)
    \/ AskQuestion
    \/ SetHistorySize

InputSpec == InputInit /\ [][InputNext]_inputVars

----------------------------------------------------------------------------
(* What is right of it.                                                    *)

\* The cursor is in the line, and what a function cuts out of it comes back where it was
\* when it is yanked: no character is lost, moved or cut twice (input.c).
CutComesBack ==
    /\ buffer.pos <= Len(buffer.text)
    /\ \A f \in Kills \ {"BACKSPACE", "DELETE_CHARACTER"} :
          LET k == Killed(f, buffer) IN
          k[1] # k[2] =>
              Inserted(Without(buffer, k[1], k[2]), Cuts(f, buffer)).text = buffer.text

\* What is given to a question was typed while it was shown, and what is sent or run as a
\* command was typed while none was: a line never answers a question that came up under it.
GivenAsTyped == \A i \in DOMAIN given.text : given.text[i].for = given.for

\* The newest entry is first: the numbers decrease (add_to_history_list()).
HistoryInOrder ==
    \A i, j \in DOMAIN commandHistory : i < j => commandHistory[i].number > commandHistory[j].number

\* Only /SET HISTORY to fewer entries can leave the arrows at an entry that is freed: a history
\* that is full frees its oldest entry and the arrows begin again (history.c:201).  The last
\* search is left at a freed entry by either, which does not reset history_tmp, and by
\* nothing else.
InHistory(n) == n \in Numbers(commandHistory) \cup {0}
HistoryWalked ==
    [][/\ InHistory(historyPos) /\ historySize' >= historySize => InHistory(historyPos)'
       /\ InHistory(historyTmp) /\ Numbers(commandHistory) \subseteq Numbers(commandHistory)'
              => InHistory(historyTmp)']_inputVars

\* The arrows lose no text that was typed: when the first entry is shown in its place, the
\* line has become an entry itself.
TypedLineRecalled ==
    [][historyPos = 0 /\ historyPos' # 0 /\ buffer.text # <<>> =>
          \E i \in DOMAIN commandHistory' : commandHistory'[i].stuff = buffer.text]_inputVars

\* "Save stuff" and "Restore stuff" (input.c:597, 608): when the last question is answered the
\* line is again what it was when the first came.
TypedLineKept ==
    [][promptList # <<>> /\ promptList' = <<>> => buffer' = interrupted]_inputVars

\* No character typed is lost, doubled or given to somebody else on its way through the line, the
\* cut buffer, the questions and the history (input.c, history.c).
InputKept ==
    [](CutComesBack /\ GivenAsTyped /\ HistoryInOrder) /\ HistoryWalked /\ TypedLineRecalled

=============================================================================
