----------------------------- MODULE Loading -----------------------------
(***************************************************************************)
(* /LOAD (edit.c): a script is read line by line, and what stands between  *)
(* braces is put together until it is closed.  A script may load another.  *)
(*                                                                         *)
(* A line is a sequence of words, braces and semicolons; "#" begins one    *)
(* that is a comment, and "\\" ends one that goes on.  A word is a text    *)
(* without braces, never next to another.                                  *)
(***************************************************************************)
EXTENDS Naturals, FiniteSets, SequencesExt

CONSTANTS
    LoadCommands,      \* words that are a LOAD: what each loads, and whether with -args
    LoadTables,        \* the files, a set of functions from names to what is there
    MaxLoadDepth       \* MAX_LOAD_DEPTH

ASSUME LoadingAssumption == MaxLoadDepth \in Nat \ {0}

Special == {"{", "}", ";"}

\* What may be found where a file should be.
Script(lines) == [kind |-> "script", lines |-> lines]
NoScript(kind) == [kind |-> kind, lines |-> <<>>]

VARIABLES
    files,             \* the files
    loadDepth,         \* load_depth
    updates,           \* status_update_flag
    loading            \* the calls of load_a_file(), the innermost last

loadingVars == <<files, loadDepth, updates, loading>>

\* load_a_file(): "lines" of the file are still to be read and "rest" is left of one;
\* "row" is current_row, "todo" the commands of the row that runs, and "separated" that
\* the next piece of the line has its separator.  "name" and "sent" keep what it was
\* called for and what it ran.
Opened == [name |-> "", args |-> FALSE, at |-> 0, rest |-> <<>>, row |-> <<>>, level |-> 0,
           noSemicolon |-> TRUE, separated |-> FALSE, todo |-> <<>>, sent |-> <<>>]

LoadingTypeOK ==
    /\ \A n \in DOMAIN files : files[n].kind # "script" => files[n].lines = <<>>
    /\ loadDepth \in 0 .. MaxLoadDepth /\ updates \in BOOLEAN
    /\ \A i \in DOMAIN loading :
          /\ loading[i].name \in DOMAIN files
          /\ loading[i].at \in 0 .. Len(files[loading[i].name].lines) + 1
          /\ loading[i].level \in Nat

LoadingInit ==
    /\ files \in LoadTables
    /\ loadDepth = 0 /\ updates = TRUE /\ loading = <<>>

----------------------------------------------------------------------------
(* load(): whatever it finds, the count and the flag are undone.           *)

This == loading[Len(loading)]
WithThis(f) == [loading EXCEPT ![Len(loading)] = f]

\* A file that is found, is no directory and cannot be executed is opened.
MayLoad(name) == name \in DOMAIN files /\ files[name].kind = "script"

\* "calls" go on after it.
Load(command, calls) ==
    IF loadDepth = MaxLoadDepth
    THEN loading' = calls /\ UNCHANGED <<loadDepth, updates>>
    ELSE IF MayLoad(command.name)
    THEN /\ loadDepth' = loadDepth + 1 /\ updates' = FALSE
         /\ loading' = Append(calls, [Opened EXCEPT !.name = command.name,
                                                    !.args = command.args])
    ELSE loading' = calls /\ updates' = TRUE /\ UNCHANGED loadDepth

TypeLoad(word) ==
    /\ loading = <<>>
    /\ Load(LoadCommands[word], <<>>)
    /\ UNCHANGED files

----------------------------------------------------------------------------
(* load_a_file(), a piece of a line at a time: the text up to the next     *)
(* brace or semicolon, and that.                                           *)

\* expand_alias(): the commands of a row, split where no brace is open.
SplitRow(row) ==
    LET Next2(s, t) ==
            IF t = ";" /\ s.level = 0 THEN [s EXCEPT !.done = Append(@, s.part), !.part = <<>>]
            ELSE [s EXCEPT !.part = Append(@, t),
                           !.level = CASE t = "{" -> @ + 1 [] t = "}" -> @ - 1 [] OTHER -> @]
        s == FoldLeft(Next2, [done |-> <<>>, part |-> <<>>, level |-> 0], row) IN
    IF s.part = <<>> THEN s.done ELSE Append(s.done, s.part)

\* parse_line(): without words for the script a row is one command while one is loaded.
Commands(f) == IF f.args THEN SplitRow(f.row) ELSE <<f.row>>
Run(f) == [f EXCEPT !.todo = Commands(f), !.sent = @ \o f.row \o <<";">>, !.row = <<>>]

Busy == loading # <<>> /\ This.todo # <<>>

\* A command of the row: it may load a script itself.
RunCommand ==
    /\ Busy
    /\ LET cmd == Head(This.todo)
           calls == WithThis([This EXCEPT !.todo = Tail(@)]) IN
       IF Len(cmd) = 1 /\ cmd[1] \in DOMAIN LoadCommands
       THEN Load(LoadCommands[cmd[1]], calls)
       ELSE loading' = calls /\ UNCHANGED <<loadDepth, updates>>
    /\ UNCHANGED files

Lines == files[This.name].lines
GoesOn(line) == line # <<>> /\ Last(line) = "\\"

\* The line read at "from", with the lines it goes on in, and the last of them.
LastOfLine(from) ==
    CHOOSE k \in from .. Len(Lines) :
        /\ k = Len(Lines) \/ ~GoesOn(Lines[k])
        /\ \A i \in from .. k - 1 : GoesOn(Lines[i])
LineRead(from, to) ==
    SelectSeq(FlattenSeq(SubSeq(Lines, from, to)), LAMBDA t : t # "\\")

\* fgets(): blank lines and comments are passed over, one line each.
ReadLine ==
    /\ loading # <<>> /\ ~Busy /\ This.rest = <<>> /\ This.at < Len(Lines)
    /\ LET from == This.at + 1 IN
       IF Lines[from] = <<>> \/ Head(Lines[from]) = "#"
       THEN loading' = WithThis([This EXCEPT !.at = from])
       ELSE loading' = WithThis([This EXCEPT !.at = LastOfLine(from),
                                             !.rest = LineRead(from, LastOfLine(from))])
    /\ UNCHANGED <<files, loadDepth, updates>>

\* What a piece is separated from the row by: the row runs, or gets a semicolon.
SeparatePiece ==
    /\ loading # <<>> /\ ~Busy /\ This.rest # <<>> /\ ~This.separated
    /\ LET f == [This EXCEPT !.separated = TRUE, !.noSemicolon = FALSE] IN
       loading' = WithThis(
           IF This.noSemicolon \/ Head(This.rest) \in Special \/ This.row = <<>> THEN f
           ELSE IF This.level = 0 THEN Run(f)
           ELSE [f EXCEPT !.row = Append(@, ";")])
    /\ UNCHANGED <<files, loadDepth, updates>>

\* Mutant: what follows a brace that closes is never separated from it.
AfterSpecialNever(f, t, more) ==
    CASE t = "{" -> [f EXCEPT !.level = @ + 1, !.row = Append(@, t), !.noSemicolon = TRUE]
      [] t = "}" /\ f.level = 0 -> f
      [] t = "}" /\ f.level > 0 -> [f EXCEPT !.level = @ - 1, !.row = Append(@, t),
                                             !.noSemicolon = TRUE]
      [] t = ";" -> [f EXCEPT !.row = Append(@, t), !.noSemicolon = TRUE]
      [] OTHER -> f

\* Mutant: a closing brace that closes nothing is taken like the others.
AfterSpecialUnmatched(f, t, more) ==
    CASE t = "{" -> [f EXCEPT !.level = @ + 1, !.row = Append(@, t), !.noSemicolon = TRUE]
      [] t = "}" -> [f EXCEPT !.level = @ - 1, !.row = Append(@, t), !.noSemicolon = more]
      [] t = ";" -> [f EXCEPT !.row = Append(@, t), !.noSemicolon = TRUE]
      [] OTHER -> f

\* A closing brace needs nothing after it only if its line goes on; one that closes
\* nothing is left out.
AfterSpecial(f, t, more) ==
    CASE t = "{" -> [f EXCEPT !.level = @ + 1, !.row = Append(@, t), !.noSemicolon = TRUE]
      [] t = "}" /\ f.level = 0 -> f
      [] t = "}" /\ f.level > 0 -> [f EXCEPT !.level = @ - 1, !.row = Append(@, t),
                                             !.noSemicolon = more]
      [] t = ";" -> [f EXCEPT !.row = Append(@, t), !.noSemicolon = TRUE]
      [] OTHER -> f

TakePiece ==
    /\ loading # <<>> /\ ~Busy /\ This.rest # <<>> /\ This.separated
    /\ \E i \in 1 .. Len(This.rest) + 1 :
          /\ \A k \in 1 .. i - 1 : This.rest[k] \notin Special
          /\ i <= Len(This.rest) => This.rest[i] \in Special
          /\ LET f == [This EXCEPT !.row = @ \o SubSeq(This.rest, 1, i - 1),
                                   !.rest = SubSeq(@, i + 1, Len(@)), !.separated = FALSE] IN
             loading' = WithThis(IF i > Len(This.rest) THEN f
                                 ELSE AfterSpecial(f, This.rest[i], f.rest # <<>>))
    /\ UNCHANGED <<files, loadDepth, updates>>

\* The end of the file: a row with an open brace is not run.
EndOfFile ==
    /\ loading # <<>> /\ ~Busy /\ This.rest = <<>> /\ This.at = Len(Lines)
    /\ loading' = WithThis([(IF This.row = <<>> \/ This.level > 0
                             THEN [This EXCEPT !.row = <<>>] ELSE Run(This))
                               EXCEPT !.at = @ + 1])
    /\ UNCHANGED <<files, loadDepth, updates>>

\* load_a_file() closes the file, and load() returns.
Loaded ==
    /\ loading # <<>> /\ ~Busy /\ This.rest = <<>> /\ This.at > Len(Lines)
    /\ loading' = Front(loading)
    /\ loadDepth' = loadDepth - 1 /\ updates' = TRUE
    /\ UNCHANGED files

LoadingNext ==
    \/ \E word \in DOMAIN LoadCommands : TypeLoad(word)
    \/ RunCommand
    \/ ReadLine
    \/ SeparatePiece
    \/ TakePiece
    \/ EndOfFile
    \/ Loaded

LoadingSpec == LoadingInit /\ [][LoadingNext]_loadingVars

----------------------------------------------------------------------------

\* What a script says, its lines one after another: semicolons separate, where they are
\* needed; a brace that closes nothing separates too.
Separated(out) == IF out = <<>> \/ Last(out) \in {";", "{"} THEN out ELSE Append(out, ";")
Unseparated(out) == IF out # <<>> /\ Last(out) = ";" THEN Front(out) ELSE out
ScriptMeaning(tokens) ==
    LET Next2(s, t) ==
            CASE t = ";" \/ (t = "}" /\ s.level = 0) -> [s EXCEPT !.out = Separated(@)]
              [] t = "{" -> [out |-> Append(Unseparated(s.out), t), level |-> s.level + 1]
              [] t = "}" /\ s.level > 0 -> [out |-> Append(Unseparated(s.out), t),
                                            level |-> s.level - 1]
              [] OTHER -> [s EXCEPT !.out = Append(@, t)] IN
    Unseparated(FoldLeft(Next2, [out |-> <<>>, level |-> 0], tokens).out)

\* The lines that are read together with the one before.
ReadWith(lines, i) == \E k \in 1 .. i - 1 : /\ \A j \in k .. i - 1 : GoesOn(lines[j])
                                            /\ lines[k] # <<>> /\ Head(lines[k]) # "#"
Source(lines) ==
    LET Text(i) == SelectSeq(lines[i], LAMBDA t : t # "\\")
        Part(i) == IF ReadWith(lines, i) THEN Text(i)
                   ELSE IF lines[i] = <<>> \/ Head(lines[i]) = "#" THEN <<>>
                   ELSE <<";">> \o Text(i) IN
    FlattenSeq([i \in DOMAIN lines |-> Part(i)])

(* A script means what its lines say one after another, wherever they are  *)
(* broken: what load_a_file() has run of it and what it holds back, taken  *)
(* together, is what it has read, and it runs nothing with a brace that is *)
(* open.  Every script that runs, and no other, counts for the depth of    *)
(* loads.                                                                  *)
LoadedAsWritten ==
    /\ \A i \in DOMAIN loading :
          LET f == loading[i]
              lines == files[f.name].lines IN
          /\ (f.todo = <<>> /\ f.rest = <<>> /\ f.at <= Len(lines)) =>
                 ScriptMeaning(f.sent \o f.row) = ScriptMeaning(Source(SubSeq(lines, 1, f.at)))
          /\ Cardinality({k \in DOMAIN f.sent : f.sent[k] = "{"})
             = Cardinality({k \in DOMAIN f.sent : f.sent[k] = "}"})
    /\ loadDepth = Len(loading)
=============================================================================
