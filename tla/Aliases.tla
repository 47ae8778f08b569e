------------------------------ MODULE Aliases ------------------------------
(***************************************************************************)
(* Running aliases: the commands of a body are expanded one by one with    *)
(* the words the alias was given (expand_alias(), arg_number() of alias.c, *)
(* parse_line() of edit.c), and may run other aliases, as commands or as   *)
(* functions in what is expanded.                                          *)
(*                                                                         *)
(* A body is a sequence of commands, a command a name and the words after  *)
(* it: plain ones, $n-m, and calls of a function.  "echo" stands for every *)
(* command that runs no alias; what variables hold is Expressions'.        *)
(***************************************************************************)
EXTENDS Integers, Sequences, FiniteSetsExt, SequencesExt

CONSTANTS
    AliasNames,        \* the aliases
    AliasTables,       \* what they are, a set of functions from the names to bodies
    Given,             \* what a user gives an alias, a set of sequences of words
    AliasLimits,       \* values of MAX_RECURSIONS
    MaxAliasFrames     \* bound: aliases running in one another

LastArg == 8000
MaxWords == 3                          \* of a command in the bodies given
All == -1                              \* no number after the "-"

\* A word as it is written.
Plain(w) == [what |-> "plain", word |-> w, lower |-> 0, upper |-> 0]
Ref(l, u) == [what |-> "ref", word |-> "", lower |-> l, upper |-> u]
Call(f) == [what |-> "call", word |-> f, lower |-> 0, upper |-> 0]
Command(name, words) == [name |-> name, words |-> words]

ASSUME AliasesAssumption ==
    /\ AliasLimits \subseteq Nat /\ MaxAliasFrames \in Nat
    /\ \A t \in AliasTables : DOMAIN t = AliasNames

VARIABLES
    table,             \* alias_list[COMMAND_ALIAS]: the bodies
    marked,             \* mark: how often each is counted as running
    limit,             \* MAX_RECURSIONS
    running,           \* the calls of parse_line() for aliases, the innermost last
    results,           \* function_stack: what the functions that run return
    split,             \* arg_number()'s arg_list: the words it split last
    evalArgs,          \* eval_args: it has to split again
    took,              \* the last $n-m: what it was taken from, and what it was
    sent               \* the last command that ran no alias: what it came to

aliasesVars == <<table, marked, limit, running, results, split, evalArgs, took, sent>>

\* A call runs one command after another; the one at "at" is "busy",
\* and its "todo" is not expanded yet.
Started == [alias |-> "", args |-> <<>>, at |-> 0, flag |-> FALSE, busy |-> FALSE,
            todo |-> <<>>, done |-> <<>>, function |-> FALSE]

AliasesTypeOK ==
    /\ DOMAIN table = AliasNames
    /\ marked \in [AliasNames -> Nat]
    /\ limit \in AliasLimits
    /\ \A i \in DOMAIN running : running[i].alias \in AliasNames
                                 /\ running[i].at \in 0 .. Len(table[running[i].alias])
    /\ Len(running) <= MaxAliasFrames
    /\ Len(results) = Cardinality({i \in DOMAIN running : running[i].function})
    /\ evalArgs \in BOOLEAN

NothingTaken == [args |-> <<>>, lower |-> 0, upper |-> 0, got |-> <<>>]
NothingSent == [alias |-> "", at |-> 0, args |-> <<>>, words |-> <<>>]

AliasesInit ==
    /\ table \in AliasTables /\ limit \in AliasLimits
    /\ marked = [a \in AliasNames |-> 0]
    /\ running = <<>> /\ results = <<>>
    /\ split = <<>> /\ evalArgs = TRUE
    /\ took = NothingTaken /\ sent = NothingSent

----------------------------------------------------------------------------
(* Expanding the words of a command.                                       *)

Top == running[Len(running)]
WithTop(f) == [running EXCEPT ![Len(running)] = f]

\* arg_number(), of words that were split: several are cut out of what the alias was given,
\* at the places where the words that were split stood.
Taken(lower, upper, list, args) ==
    LET size == Len(list)
        lo == IF lower = LastArg THEN size - 1 ELSE lower
        hi == IF upper = LastArg THEN size - 1 ELSE upper
        full == hi >= size \/ hi < 0
        last == IF full THEN size - 1 ELSE hi
        first == Max({0, Min({lo, size - 1})}) IN
    IF size = 0 \/ last < lo THEN <<>>
    ELSE IF ~full /\ first = last THEN <<list[first + 1]>>
    ELSE SubSeq(args, first + 1, Min({last + 1, Len(args)}))

ArgNumber(word) ==
    LET list == IF evalArgs THEN Top.args ELSE split
        got == Taken(word.lower, word.upper, list, Top.args) IN
    /\ split' = list /\ evalArgs' = FALSE
    /\ took' = [args |-> Top.args, lower |-> word.lower, upper |-> word.upper, got |-> got]
    /\ running' = WithTop([Top EXCEPT !.todo = Tail(@), !.done = @ \o got, !.flag = TRUE])

\* mark_alias(): one more, and forgotten once there are too many.
MarkAlias(a) ==
    LET most == IF limit > 1 THEN limit ELSE 1 IN
    marked' = [marked EXCEPT ![a] = IF @ + 1 > most THEN 0 ELSE @ + 1]
MayRun(a) == marked[a] + 1 <= (IF limit > 1 THEN limit ELSE 1)

Room == Len(running) < MaxAliasFrames

\* execute_alias(), of the innermost call or of what a user types.
ExecuteAlias(a, args, calls, function) ==
    /\ MarkAlias(a)
    /\ running' = IF MayRun(a)
                  THEN Append(calls, [Started EXCEPT !.alias = a, !.args = args, !.function = function])
                  ELSE calls

\* A word that is as it is written.
PlainWord ==
    /\ running # <<>> /\ Top.todo # <<>> /\ Head(Top.todo).what = "plain"
    /\ running' = WithTop([Top EXCEPT !.todo = Tail(@), !.done = Append(@, Head(Top.todo).word)])
    /\ UNCHANGED <<table, marked, limit, results, split, evalArgs, took, sent>>

\* alias_special_char(): $ and a number, or two.
RefWord ==
    /\ running # <<>> /\ Top.todo # <<>> /\ Head(Top.todo).what = "ref"
    /\ ArgNumber(Head(Top.todo))
    /\ UNCHANGED <<table, marked, limit, results, sent>>

\* call_function(), up to parse_command(): a function is an alias.  It is given $0 of the call.
\* One that may not run, or does not exist, returns at once.
CallWord ==
    /\ running # <<>> /\ Top.todo # <<>> /\ Head(Top.todo).what = "call" /\ Room
    /\ LET given == Taken(0, 0, Top.args, Top.args) IN
       /\ ExecuteAlias(Head(Top.todo).word, given,
                       WithTop([Top EXCEPT !.todo = Tail(@), !.flag = TRUE]), TRUE)
       /\ split' = Top.args
    /\ results' = IF MayRun(Head(Top.todo).word) THEN Append(results, <<>>) ELSE results
    /\ evalArgs' = ~MayRun(Head(Top.todo).word)
    /\ UNCHANGED <<table, limit, took, sent>>

----------------------------------------------------------------------------
(* The commands of a body.                                                 *)

\* parse_line(), expand_alias(): the next command of the body, to be expanded.
NextCommand ==
    /\ running # <<>> /\ ~Top.busy
    /\ Top.at < Len(table[Top.alias])
    /\ running' = WithTop([Top EXCEPT !.at = @ + 1, !.busy = TRUE,
                                      !.todo = table[Top.alias][Top.at + 1].words])
    /\ evalArgs' = TRUE
    /\ UNCHANGED <<table, marked, limit, results, split, took, sent>>

\* What was given is put behind the last command, if no command of the body asked for any.
Appended(f) == f.at = Len(table[f.alias]) /\ ~f.flag

WordsOf(f) == f.done \o (IF Appended(f) THEN f.args ELSE <<>>)
CommandDone(f) == [f EXCEPT !.done = <<>>, !.busy = FALSE]

\* A command with no words left to expand: parse_command().
Expanded(name) ==
    /\ running # <<>> /\ Top.busy /\ Top.todo = <<>>
    /\ table[Top.alias][Top.at].name = name

Echo ==
    /\ Expanded("echo")
    /\ sent' = [alias |-> Top.alias, at |-> Top.at, args |-> Top.args, words |-> WordsOf(Top)]
    /\ running' = WithTop(CommandDone(Top))
    /\ UNCHANGED <<table, marked, limit, results, split, evalArgs, took>>

\* "@ function_return =": add_alias().
FunctionReturn ==
    /\ Expanded("return")
    /\ results' = IF results = <<>> THEN results ELSE [results EXCEPT ![Len(results)] = WordsOf(Top)]
    /\ running' = WithTop(CommandDone(Top))
    /\ UNCHANGED <<table, marked, limit, split, evalArgs, took, sent>>

RunAlias(a) ==
    /\ Expanded(a) /\ Room
    /\ ExecuteAlias(a, WordsOf(Top), WithTop(CommandDone(Top)), FALSE)
    /\ UNCHANGED <<table, limit, results, split, evalArgs, took, sent>>

Ended == running # <<>> /\ ~Top.busy /\ Top.at = Len(table[Top.alias])

\* The end of an alias: the mark is taken off.
AliasEnds ==
    /\ Ended /\ ~Top.function
    /\ running' = Front(running)
    /\ marked' = [marked EXCEPT ![Top.alias] = 0]
    /\ UNCHANGED <<table, limit, results, split, evalArgs, took, sent>>

\* What call_function() leaves behind: the words have to be split again.
AfterCallNot(e) == e                      \* Mutant: those of the function are kept
AfterCall(e) == TRUE

FunctionEnds ==
    /\ Ended /\ Top.function
    /\ LET outer == Front(running)
           f == outer[Len(outer)] IN
       running' = [outer EXCEPT ![Len(outer)] = [f EXCEPT !.done = @ \o results[Len(results)]]]
    /\ marked' = [marked EXCEPT ![Top.alias] = 0]
    /\ results' = Front(results)
    /\ evalArgs' = AfterCall(evalArgs)
    /\ UNCHANGED <<table, limit, split, took, sent>>

\* A user runs an alias.
TypeAlias(a, args) ==
    /\ running = <<>>
    /\ ExecuteAlias(a, args, <<>>, FALSE)
    /\ UNCHANGED <<table, limit, results, split, evalArgs, took, sent>>

AliasesNext ==
    \/ PlainWord \/ RefWord \/ CallWord
    \/ NextCommand
    \/ Echo \/ FunctionReturn
    \/ \E a \in AliasNames : RunAlias(a)
    \/ AliasEnds \/ FunctionEnds
    \/ \E a \in AliasNames, args \in Given : TypeAlias(a, args)

AliasesSpec == AliasesInit /\ [][AliasesNext]_aliasesVars

----------------------------------------------------------------------------
(* Properties.                                                             *)

\* What $n-m means: of the words given, those from n to m, without m from n on, and the last.
Meant(lower, upper, args) ==
    LET i == Max({0, IF lower = LastArg THEN Len(args) - 1 ELSE lower})
        j == IF upper = LastArg THEN Len(args) - 1 ELSE IF upper = All THEN Len(args) - 1 ELSE upper IN
    SubSeq(args, i + 1, Min({j + 1, Len(args)}))

\* Whatever other aliases and functions run in between with words of their own, $n-m is what
\* this alias was given (arg_number()'s static list, eval_args; help/alias/special).
TakesItsOwn == took.got = Meant(took.lower, took.upper, took.args)

\* What an alias is given is put behind its last command if the body asks for none of it, and
\* only then (parse_line()'s args_flag; help/alias/alias).
Asks(body, k) ==
    \E i \in 1 .. k : \E j \in DOMAIN body[i].words : body[i].words[j].what # "plain"
GivenOnce ==
    sent # NothingSent =>
       LET body == table[sent.alias]
           words == body[sent.at].words IN
       ~Asks(<<body[sent.at]>>, 1) =>
          sent.words = [j \in DOMAIN words |-> words[j].word]
                       \o (IF sent.at = Len(body) /\ ~Asks(body, Len(body)) THEN sent.args ELSE <<>>)

\* How often a body runs an alias.
Uses(body, a) ==
    Cardinality({i \in DOMAIN body : body[i].name = a})
    + Cardinality({ij \in (DOMAIN body) \X (1 .. MaxWords) :
                     /\ ij[2] \in DOMAIN body[ij[1]].words
                     /\ body[ij[1]].words[ij[2]].what = "call"
                     /\ body[ij[1]].words[ij[2]].word = a})
Depth(a) == Cardinality({i \in DOMAIN running : running[i].alias = a})
Most == IF limit > 1 THEN limit ELSE 1

\* "This will limit the number of times that a particular alias can call itself recursively"
\* (help/set/max_recursions:9).  It does as long as no body runs an alias more than once.
RecursionLimited == \A a \in AliasNames : Depth(a) <= Most
RecursionLimitedIfOnce ==
    (\A a, b \in AliasNames : Uses(table[b], a) <= 1
        /\ (Uses(table[b], a) = 1 => \A c \in AliasNames \ {b} : Uses(table[c], a) = 0))
       => RecursionLimited

\* An alias gets its own words, once, however others run inside it and however deep (alias.c).
AliasesHold == TakesItsOwn /\ GivenOnce /\ RecursionLimitedIfOnce
=============================================================================
