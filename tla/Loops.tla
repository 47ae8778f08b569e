------------------------------- MODULE Loops -------------------------------
(***************************************************************************)
(* IF, WHILE, FOR, FOREACH, FE and FEC of if.c: commands that run lines of *)
(* commands, one in another.  The C stack is `stack`: the lines that       *)
(* parse_line() is in, and the loops that have called it.                  *)
(*                                                                         *)
(* A text is a sequence of words; a word with a "$" stands for a variable. *)
(***************************************************************************)
EXTENDS Naturals, SequencesExt

CONSTANTS
    Programs,          \* the lines of commands to run
    VarNames,          \* names of variables, in the order of the list of variables
    InitialValues,     \* what they may hold to begin with, functions of some of the names to texts
    Letters,           \* the letters of each word
    RefersTo,          \* the variable of each word with a "$"
    MaxShown           \* bound: lines shown

\* A command has the parts that are typed behind it: words, a list or condition in (), or lines in {}.
\* In () there are as many pieces as the commas part.
Word(w) == [type |-> "word", of |-> w]
Paren(pieces) == [type |-> "(", of |-> pieces]
Brace(line) == [type |-> "{", of |-> line]
Cmd(name, parts) == [name |-> name, parts |-> parts]

\* Conditions: a text, or whether a variable holds another text.
Test(text) == [test |-> "text", of |-> text]
IsNot(x, text) == [test |-> "!=", of |-> x, from |-> text]

VARIABLES
    values,            \* variables that are assigned, and their texts
    stack,             \* the innermost first
    shown,             \* what ECHO has shown
    program, atStart    \* what runs, and the variables it began with

loopsVars == <<values, stack, shown, program, atStart>>

ValueOf(v, x) == IF x \in DOMAIN v THEN v[x] ELSE <<>>
WithText(v, x, text) == [y \in DOMAIN v \cup {x} |-> IF y = x THEN text ELSE v[y]]
Deleted(v, xs) == [y \in DOMAIN v \ xs |-> v[y]]

\* expand_alias()
Expand(v, text) ==
    FlattenSeq([k \in DOMAIN text |-> IF text[k] \in DOMAIN RefersTo THEN ValueOf(v, RefersTo[text[k]])
                                      ELSE <<text[k]>>])

\* The letters of a text, words set apart.
LettersOf(text) ==
    FlattenSeq([k \in DOMAIN text |-> IF k = 1 THEN Letters[text[k]] ELSE <<" ">> \o Letters[text[k]]])

\* What parse_inline() gives is true unless it is empty or begins with 0.
Holds(v, c) ==
    IF c.test = "!=" THEN ValueOf(v, c.of) # c.from
    ELSE LET letters == LettersOf(Expand(v, c.of)) IN letters # <<>> /\ letters[1] # "0"

\* next_expr(), next_arg(): the part that is next is of this type.
NextIs(c, k, type) == k \in DOMAIN c.parts /\ c.parts[k].type = type

Running(commands) == [loop |-> "none", left |-> commands]

LoopsTypeOK ==
    /\ DOMAIN values \subseteq ToSet(VarNames)
    /\ \A k \in DOMAIN stack : stack[k].loop \in {"none", "while", "for", "foreach", "fe", "fec"}
    /\ Len(shown) <= MaxShown

LoopsInit ==
    /\ program \in Programs /\ atStart \in InitialValues
    /\ values = atStart /\ stack = <<Running(program)>> /\ shown = <<>>

----------------------------------------------------------------------------
(* What a command does at once: assign, show, or leave a line or a loop.   *)

\* match_alias(): the parts that come next in the names of the structure, one after another.
Elements(v, struc) ==
    LET names == SelectSeq(VarNames, LAMBDA x : x \in DOMAIN v /\ IsStrictPrefix(struc, x))
    IN  FoldLeft(LAMBDA list, x : IF list # <<>> /\ Last(list) = x[Len(struc) + 1] THEN list
                                  ELSE Append(list, x[Len(struc) + 1]), <<>>, names)

\* The name of a structure is expanded before FOREACH sees it: a part that refers to a
\* variable is its word, and "" if there is none, as in "S.." (values have one word here).
NameOf(v, name) ==
    [k \in DOMAIN name |->
        IF name[k] \notin DOMAIN RefersTo THEN name[k]
        ELSE LET text == ValueOf(v, RefersTo[name[k]]) IN IF text = <<>> THEN "" ELSE text[1]]

\* The first words that are variables, up to the braces.
VarsOf(c) == LET words == SelectSeq(c.parts, LAMBDA p : p.type = "word") IN [k \in DOMAIN words |-> words[k].of]

\* fe() expands until nothing changes; a text here has at most two steps to that.
ExpandAll(v, text) == Expand(v, Expand(v, Expand(v, text)))

\* ifcmd(): a line, or none.
If(c) ==
    LET branch == IF Holds(values, c.parts[1].of[1]) THEN 2 ELSE 3
    IN  IF NextIs(c, 1, "(") /\ NextIs(c, 2, "{") /\ NextIs(c, branch, "{")
        THEN <<Running(c.parts[branch].of)>> ELSE <<>>

\* whilecmd(): its line as often as the condition holds.
While(c) ==
    IF NextIs(c, 1, "(") /\ NextIs(c, 2, "{")
    THEN <<[loop |-> "while", test |-> c.parts[1].of[1], body |-> c.parts[2].of]>> ELSE <<>>

\* forcmd(): its first piece is run at once.
For(c) ==
    IF NextIs(c, 2, "{")
    THEN <<Running(c.parts[1].of[1]),
           [loop |-> "for", test |-> c.parts[1].of[2], iteration |-> c.parts[1].of[3], body |-> c.parts[2].of]>>
    ELSE <<>>

\* Mutant: the list is expanded once, as that of FEC is.
FeOnce(c) ==
    LET words == Expand(values, c.parts[1].of[1])
        xs == VarsOf(c)
    IN  IF words # <<>> /\ xs # <<>> /\ NextIs(c, Len(xs) + 2, "{")
        THEN <<[loop |-> "fe", left |-> words, vars |-> xs, body |-> Last(c.parts).of]>> ELSE <<>>

\* fe(): the list is what it is when the loop begins.  Where there is no variable the words
\* behind the "{" are taken for variables, which cuts the body behind the first of them: it
\* is "Unmatched" and nothing runs.  (A body of one word without a space would run.)
Fe(c) ==
    LET words == ExpandAll(values, c.parts[1].of[1])
        xs == VarsOf(c)
    IN  IF words # <<>> /\ xs # <<>> /\ NextIs(c, Len(xs) + 2, "{")
        THEN <<[loop |-> "fe", left |-> words, vars |-> xs, body |-> Last(c.parts).of]>> ELSE <<>>

\* fec(): one variable, whatever comes between it and the line is skipped.  Of an empty list
\* the loop is entered as well: at its end it deletes the variable.
Fec(c) ==
    IF NextIs(c, 1, "(") /\ NextIs(c, 2, "word") /\ Last(c.parts).type = "{"
    THEN <<[loop |-> "fec", left |-> LettersOf(Expand(values, c.parts[1].of[1])),
            vars |-> <<c.parts[2].of>>, body |-> Last(c.parts).of]>> ELSE <<>>

\* foreach(): so is the list of names.
Foreach(c) ==
    IF NextIs(c, 1, "word") /\ NextIs(c, 2, "word") /\ NextIs(c, 3, "{")
    THEN <<[loop |-> "foreach", left |-> Elements(values, NameOf(values, c.parts[1].of)),
            vars |-> <<c.parts[2].of>>, body |-> c.parts[3].of]>> ELSE <<>>

\* foreach_handler(): FE, FOR and FOREACH are one command, whichever is typed.
ForeachHandler(c) ==
    IF ~NextIs(c, 1, "(") THEN Foreach(c)
    ELSE IF Len(c.parts[1].of) = 3 THEN For(c) ELSE Fe(c)

Entered(c) ==
    CASE c.name = "IF" -> If(c)
      [] c.name = "WHILE" -> While(c)
      [] c.name \in {"FE", "FOR", "FOREACH"} -> ForeachHandler(c)
      [] c.name = "FEC" -> Fec(c)
      [] OTHER -> <<>>

\* parse_line(): the next command of the innermost line.  ASSIGN with a "-" deletes; it lists
\* and assigns nothing where the text that comes of its words is empty.
LineStep ==
    /\ stack # <<>> /\ stack[1].loop = "none" /\ stack[1].left # <<>>
    /\ LET c == Head(stack[1].left)
           text == Expand(values, c.parts[Len(c.parts)].of)
       IN  /\ stack' = Entered(c) \o <<Running(Tail(stack[1].left))>> \o Tail(stack)
           /\ shown' = IF c.name = "ECHO" THEN Append(shown, text) ELSE shown
           /\ values' = CASE c.name = "ASSIGN" /\ Len(c.parts) = 2 /\ text # <<>> ->
                               WithText(values, c.parts[1].of, text)
                          [] c.name = "ASSIGN" /\ Len(c.parts) = 1 -> Deleted(values, {c.parts[1].of})
                          [] OTHER -> values
    /\ Len(shown') <= MaxShown
    /\ UNCHANGED <<program, atStart>>

LineDone ==
    /\ stack # <<>> /\ stack[1].loop = "none" /\ stack[1].left = <<>>
    /\ stack' = Tail(stack)
    /\ UNCHANGED <<values, shown, program, atStart>>

----------------------------------------------------------------------------
(* The loops, each time that the line they have called returns.            *)

\* WHILE and FOR: the line of a FOR is followed by its iteration.
TestAgain ==
    /\ stack # <<>> /\ stack[1].loop \in {"while", "for"}
    /\ LET top == stack[1]
       IN  stack' = IF ~Holds(values, top.test) THEN Tail(stack)
                    ELSE <<Running(top.body)>>
                         \o (IF top.loop = "for" THEN <<Running(top.iteration)>> ELSE <<>>) \o stack
    /\ UNCHANGED <<values, shown, program, atStart>>

\* FOREACH, FE and FEC: the next words go to the variables, which FE and FEC delete at the end.
NextWords ==
    /\ stack # <<>> /\ stack[1].loop \in {"foreach", "fe", "fec"}
    /\ LET top == stack[1]
           xs == top.vars
           given == [k \in DOMAIN xs |-> IF k \in DOMAIN top.left THEN <<top.left[k]>> ELSE <<>>]
           rest == SubSeq(top.left, Len(xs) + 1, Len(top.left))
       IN  IF top.left # <<>>
           THEN /\ values' = FoldLeft(LAMBDA v, k : WithText(v, xs[k], given[k]), values, [k \in DOMAIN xs |-> k])
                /\ stack' = <<Running(top.body), [top EXCEPT !.left = rest]>> \o Tail(stack)
           ELSE /\ values' = IF top.loop = "foreach" THEN values ELSE Deleted(values, ToSet(xs))
                /\ stack' = Tail(stack)
    /\ UNCHANGED <<shown, program, atStart>>

LoopsNext == LineStep \/ LineDone \/ TestAgain \/ NextWords

LoopsSpec == LoopsInit /\ [][LoopsNext]_loopsVars

----------------------------------------------------------------------------
(* What the commands mean (help/if, help/while, help/foreach), as a        *)
(* function of the variables and what has been shown.                      *)

RECURSIVE LineMeaning(_, _), CommandMeaning(_, _)

Repeat(body, s, xs, rounds) ==
    FoldLeft(LAMBDA t, round : LineMeaning(body, [t EXCEPT !.values =
                 [y \in DOMAIN t.values \cup ToSet(xs) |->
                     IF \E k \in DOMAIN xs : y = xs[k]
                     THEN round[CHOOSE k \in DOMAIN xs : y = xs[k]] ELSE t.values[y]]]), s, rounds)

\* The words, as many at a time as there are variables; nothing for those that are left over.
Rounds(words, n) ==
    [r \in 1 .. (Len(words) + n - 1) \div n |->
        [k \in 1 .. n |-> IF (r - 1) * n + k <= Len(words) THEN <<words[(r - 1) * n + k]>> ELSE <<>>]]

ForEach(s, xs, words, body) ==
    LET t == Repeat(body, s, xs, Rounds(words, Len(xs)))
    IN  [t EXCEPT !.values = Deleted(@, ToSet(xs))]

\* What there is right below a path, once each, in the order of the names.  Below a name in
\* which some variable is not set there is nothing.
FirstUnder(path) ==
    CHOOSE k \in DOMAIN VarNames :
        /\ IsPrefix(path, VarNames[k])
        /\ \A j \in 1 .. k - 1 : ~IsPrefix(path, VarNames[j])
PartsBelow(v, name) ==
    LET refers == {k \in DOMAIN name : name[k] \in DOMAIN RefersTo}
        path == FlattenSeq([k \in DOMAIN name |-> Expand(v, <<name[k]>>)])
        under == {x \in DOMAIN v : IsStrictPrefix(path, x)}
    IN  IF \E k \in refers : ValueOf(v, RefersTo[name[k]]) = <<>> THEN <<>>
        ELSE SetToSortSeq({x[Len(path) + 1] : x \in under},
                          LAMBDA p, q : FirstUnder(Append(path, p)) < FirstUnder(Append(path, q)))

CommandMeaning(c, s) ==
    LET arg(k) == c.parts[k].of
        v == s.values
        below == arg(Len(c.parts))
    IN  CASE c.name = "ECHO" -> [s EXCEPT !.shown = Append(@, Expand(v, arg(1)))]
          [] c.name = "ASSIGN" /\ Len(c.parts) = 2 ->
               IF Expand(v, arg(2)) = <<>> THEN s ELSE [s EXCEPT !.values = WithText(@, arg(1), Expand(v, arg(2)))]
          [] c.name = "ASSIGN" /\ Len(c.parts) = 1 -> [s EXCEPT !.values = Deleted(@, {arg(1)})]
          [] c.name \notin {"ECHO", "ASSIGN"} /\ Last(c.parts).type # "{" -> s
          [] c.name = "IF" /\ Holds(v, arg(1)[1]) -> LineMeaning(arg(2), s)
          [] c.name = "IF" /\ ~Holds(v, arg(1)[1]) -> IF Len(c.parts) = 3 THEN LineMeaning(arg(3), s) ELSE s
          [] c.name = "WHILE" -> IF Holds(v, arg(1)[1]) /\ s.steps > 0 THEN CommandMeaning(c, LineMeaning(arg(2), s)) ELSE s
          [] c.name = "FOR" -> CommandMeaning(Cmd("WHILE", <<Paren(<<arg(1)[2]>>), Brace(arg(2) \o arg(1)[3])>>),
                                         LineMeaning(arg(1)[1], s))
          [] c.name = "FE" ->
               LET words == ExpandAll(v, arg(1)[1])
               IN  IF words = <<>> \/ Len(c.parts) = 2 THEN s ELSE ForEach(s, VarsOf(c), words, below)
          [] c.name = "FEC" -> ForEach(s, <<arg(2)>>, LettersOf(Expand(v, arg(1)[1])), below)
          [] c.name = "FOREACH" ->
               Repeat(below, s, <<arg(2)>>, Rounds(PartsBelow(v, arg(1)), 1))

LineMeaning(line, s) ==
    IF line = <<>> \/ s.steps = 0 THEN s
    ELSE LineMeaning(Tail(line), CommandMeaning(Head(line), [s EXCEPT !.steps = @ - 1]))

\* What a program has shown and assigned when it ends is what its loops, one in another, say
\* (if.c): each looks at its list and its names once, at its condition every time, and gives
\* its words out in groups.
LoopsAsWritten ==
    stack = <<>> =>
        LET end == LineMeaning(program, [values |-> atStart, shown |-> <<>>, steps |-> 100])
        IN  end.steps > 0 /\ end.values = values /\ end.shown = shown

=============================================================================
