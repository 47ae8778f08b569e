----------------------------- MODULE MCPartsUser -----------------------------
(* What the user types, and the commands it becomes: the input line, the    *)
(* keys, hooks, aliases, expressions, queues, scripts, variables and loops, *)
(* each on its small instances.  They share nothing here: the initial state *)
(* chooses the part that a behaviour is of, and what the others have stays  *)
(* as it begins.                                                            *)
EXTENDS InputLine, Hooks, Keys, Aliases, Expressions, Queues, Loading, Settings, Loops

VARIABLE part

userVars == <<part, inputVars, hooksVars, keysVars, aliasesVars, expressionsVars, queuesVars,
              loadingVars, settingsVars, loopsVars>>

----------------------------------------------------------------------------
(* The input line: editing; two questions under a line; the history, walked *)
(* and searched while it fills up, is full, and is made shorter.            *)

NoInput == [functions |-> {}, glyphs |-> {}, room |-> 0, questions |-> {}, sizes |-> {}]
Sending == [NoInput EXCEPT !.functions = {"SELF_INSERT", "SEND_LINE"}, !.glyphs = {"x"}, !.room = 2]
InputSettingsAll ==
    {NoInput,
     [NoInput EXCEPT !.functions = Edits \cup Kills \cup
                          {"SELF_INSERT", "YANK_FROM_CUTBUFFER", "TRANSPOSE_CHARACTERS", "TOGGLE_INSERT_MODE"},
                     !.glyphs = {"x", " "}, !.room = 3],
     [Sending EXCEPT !.functions = @ \cup {"BACKSPACE", "QUOTE_CHARACTER", "META1_CHARACTER", "META4_CHARACTER"},
                     !.questions = {"line", "key"}],
     [Sending EXCEPT !.functions = @ \cup {"BACKWARD_HISTORY", "FORWARD_HISTORY"}, !.sizes = {1, 2}],
     [Sending EXCEPT !.functions = @ \cup {"ERASE_LINE"}, !.glyphs = {"x", "!"}, !.sizes = {1, 3}],
     [Sending EXCEPT !.functions = @ \cup {"BACKWARD_HISTORY"}, !.glyphs = {"x", "!"},
                     !.sizes = {0, 1, 2}]}
InputIdle == inputEnv = NoInput /\ InputInit

----------------------------------------------------------------------------
(* Hooks: three of one list, of two serial numbers; two of which some are   *)
(* for a server, or turned off; two lists that must not run in themselves.  *)

SomeHooks == [lists |-> {"MSG"}, serials |-> {0, 1}, servers |-> {AnyServer}, nots |-> {FALSE}, hooks |-> 3]
NoHooks == [SomeHooks EXCEPT !.hooks = 0]
HookSettingsAll ==
    {NoHooks, SomeHooks,
     [SomeHooks EXCEPT !.serials = {0}, !.servers = {AnyServer, 1, Exclusive + 1},
                       !.nots = {FALSE, TRUE}, !.hooks = 2],
     [SomeHooks EXCEPT !.lists = {"WINDOW", "numeric"}, !.hooks = 2]}
HooksIdle == hookEnv = NoHooks /\ HooksInit

----------------------------------------------------------------------------
(* Keys: prefixes and meta keys that lead into each other's maps; sticky    *)
(* ones, digraphs and the eighth bit; what SAVE writes.                     *)

AKey(k) == [meta |-> 0, keys |-> <<k>>]
TwoKeys(l, k) == [meta |-> 0, keys |-> <<l, k>>]
MetaKey(m, k) == [meta |-> m, keys |-> <<k>>]
NoKeys == [names |-> {}, words |-> {}, typed |-> {}, sequences |-> {}, called |-> {}, binds |-> 0,
           eightBit |-> FALSE, saves |-> FALSE, asks |-> FALSE]
KeySettingsAll ==
    {NoKeys,
     [NoKeys EXCEPT !.names = {AKey("i"), AKey("^X"), AKey("accent"), TwoKeys("^X", "i"), TwoKeys("i", "i"),
                               MetaKey(1, "i"), MetaKey(4, "i")},
                    !.words = {"META1", "META4", "OTHER", "ambiguous"}, !.typed = {"^X", "^[", "i"},
                    !.sequences = {<<"^X", "i">>}, !.binds = 2],
     [NoKeys EXCEPT !.names = {AKey("accent"), TwoKeys("^X", "SPACE"), MetaKey(4, "["), AKey("^X")},
                    !.words = {"META4", "META5", "DIGRAPH", "TYPE_TEXT"},
                    !.typed = {"^X", "^Z", "^Q", "accent", "["}, !.called = {"META3"}, !.binds = 2,
                    !.eightBit = TRUE, !.asks = TRUE],
     [NoKeys EXCEPT !.names = {AKey("i"), AKey("^X"), MetaKey(1, "i"), TwoKeys("^X", "i"), MetaKey(2, "^@"),
                               TwoKeys("^[", "^@"), AKey("SPACE"), TwoKeys("i", "i")},
                    !.words = {"META1", "SELF_INSERT", "TYPE_TEXT"}, !.binds = 3, !.saves = TRUE]}
KeysIdle == keysEnv = NoKeys /\ KeysInit

----------------------------------------------------------------------------
(* Aliases: two, of one or two commands, that call themselves and each      *)
(* other as commands and as functions.                                      *)

AliasNamesAll == {"x", "y"}
XCommands ==
    {Command("echo", <<Plain("w")>>), Command("echo", <<Ref(0, All)>>),
     Command("echo", <<Ref(1, 1), Call("y"), Ref(LastArg, LastArg)>>),
     Command("y", <<Ref(1, All), Plain("w")>>), Command("x", <<Ref(1, 2)>>),
     Command("return", <<Call("y"), Ref(0, 0)>>), Command("y", <<>>)}
XBodies == {<<c>> : c \in XCommands} \cup {<<c, d>> : c \in XCommands, d \in XCommands}
Returns == Command("return", <<Ref(All, 1)>>)
YCommands ==
    {Command("echo", <<Ref(0, 0)>>), Returns, Command("x", <<Ref(1, All)>>), Command("y", <<Plain("w")>>)}
YBodies == {<<c>> : c \in YCommands} \cup {<<Returns, c>> : c \in YCommands}
AliasTablesAll == {[a \in AliasNamesAll |-> IF a = "x" THEN b ELSE c] : b \in XBodies, c \in YBodies}
GivenAll == {<<"p">>, <<"p", "q", "r">>}
AnyTable == CHOOSE t \in AliasTablesAll : TRUE
AliasesIdle == table = AnyTable /\ limit = 1 /\ AliasesInit

----------------------------------------------------------------------------
(* Expressions of two operators, every one with every one, and assignments. *)

Leaves == {Leaf("2"), Leaf("0"), Leaf("A"), Leaf("B")}
CommonOps == {"+", "-", "*", "##", "&&", "||", "==", "<"}
AllOps == CommonOps \cup {"/", "%", "^^", "!=", ">=", ","}
TreesOf(ops, left, right) == {<<op, l, r>> : op \in ops, l \in left, r \in right}
StepsOf(of) == {<<"!", l>> : l \in of} \cup {<<"=", x, l>> : x \in Names, l \in of}
             \cup {<<f, "A">> : f \in {"++x", "x++", "x--"}}
Inner == TreesOf(CommonOps, Leaves, {Leaf("A"), Leaf("2")}) \cup StepsOf({Leaf("0"), Leaf("A")})
TreesAll == TreesOf(AllOps, Leaves, Leaves) \cup Inner \cup StepsOf(Inner)
            \cup TreesOf(AllOps, Inner, {Leaf("3")}) \cup TreesOf(AllOps, {Leaf("A")}, Inner)
NoneAndOne == [A |-> Number(0), B |-> Number(1)]
InitialAll == {NoneAndOne, [NoneAndOne EXCEPT !.A = Number(2)]}
ExpressionsIdle == holding = NoneAndOne /\ ExpressionsInit

----------------------------------------------------------------------------
(* Queues: two, whose commands add to the other or to their own, run, flush *)
(* or shorten it.                                                           *)

Adding(name, c) == Queueing(name, {}, 0, <<c>>)
Only(name, options, number) == Queueing(name, options, number, <<>>)
QueueCommands ==
    {Adding("a", Speak), Adding("a", Adding("a", Speak)), Adding("b", Only("a", {"DO"}, 0)),
     Adding("b", Only("a", {"FLUSH"}, 0)), Adding("a", Only("b", {"DELETE"}, 1)),
     Only("a", {"DO"}, 0), Only("b", {"DO", "NO_FLUSH"}, 0), Only("b", {"DO", "FLUSH"}, 0),
     Only("a", {"DELETE"}, 2), Only("a", {"DELETE", "LIST"}, 1), Queueing("a", {"FLUSH"}, 0, <<Speak>>)}
QueueSettingsAll == {{}, QueueCommands}
QueuedCommandsAll == QueueCommands \cup {c.what[1] : c \in {d \in QueueCommands : d.what # <<>>}}
QueuesIdle == typing = {} /\ QueuesInit

----------------------------------------------------------------------------
(* Scripts of up to four lines of up to two words, braces and semicolons,   *)
(* with comments, lines that go on, and others that they load.              *)

ScriptWords == {"x", "{", "}", ";"}
ScriptLines ==
    {<<>>, <<"#">>, <<"#", "\\">>, <<"x", "\\">>, <<"{", "\\">>} \cup {<<t>> : t \in ScriptWords}
    \cup ({<<t, u>> : t, u \in ScriptWords} \ {<<"x", "x">>})
LoadsItself == Script(<<<<"}", "sub", ";", "x">>, <<"{">>>>)
Scripts(main, sub) == [main |-> main, sub |-> sub]
LoadTablesAll ==
    {Scripts(Script(l), LoadsItself) : l \in UNION {[1 .. n -> ScriptLines] : n \in 1 .. 2}}
    \cup {Scripts(Script(<<<<"x", "}", "sub">>, <<"x">>, l>>), NoScript("directory")) : l \in ScriptLines}
    \cup {Scripts(Script(<<<<"sub">>, l, <<"}">>>>), LoadsItself) : l \in ScriptLines}
    \cup {Scripts(Script(<<<<"x", "{">>, l, <<"}">>, m>>), LoadsItself) : l, m \in ScriptLines}
LoadCommandsAll ==
    [main |-> [name |-> "main", args |-> FALSE], margs |-> [name |-> "main", args |-> TRUE],
     sub |-> [name |-> "sub", args |-> TRUE], none |-> [name |-> "none", args |-> TRUE]]
AnyScripts == CHOOSE t \in LoadTablesAll : TRUE
LoadingIdle == files = AnyScripts /\ LoadingInit

----------------------------------------------------------------------------
(* Variables: of each type, two whose names begin with another's, one that  *)
(* is not saved; set to what they are, in another case, and to nonsense.    *)

Var(name, type, initial, isNotified) ==
    [name |-> name, type |-> type, initial |-> initial, notified |-> isNotified]
IrcVariableAll ==
    <<Var(<<"CLOCK">>, "BOOL", "ON", TRUE), Var(<<"CLOCK", "_ALARM">>, "STR", NoText, TRUE),
      Var(<<"DISPLAY">>, "BOOL", "ON", FALSE), Var(<<"LASTLOG">>, "INT", "1", TRUE),
      Var(<<"LASTLOG", "_LEVEL">>, "STR", "all", TRUE)>>
SetTo(name, t) == [dash |-> FALSE, name |-> name, text |-> t]
Unset(name) == [dash |-> TRUE, name |-> name, text |-> NoText]
SetLinesAll ==
    {SetTo(<<"CLOCK">>, t) : t \in {"TOGGLE", "x"}} \cup {SetTo(<<"LASTLOG">>, t) : t \in {"0", "-1"}}
    \cup {SetTo(<<"LASTLOG", "_LEVEL">>, t) : t \in {"ALL", "all", "x", NoText}}
    \cup {SetTo(<<"CLOCK", "_ALARM">>, "x"), SetTo(<<"DISPLAY">>, "OFF"), SetTo(<<>>, "x")}
    \cup {Unset(<<"CLOCK", "_ALARM">>), Unset(<<"LASTLOG">>), Unset(<<"LASTLOG", "_LEVEL">>)}
GlobalFilesAll ==
    {<<>>, <<SetTo(<<"CLOCK">>, "OFF")>>, <<SetTo(<<"LASTLOG">>, "1")>>,
     <<SetTo(<<"LASTLOG", "_LEVEL">>, "all")>>, <<SetTo(<<"LASTLOG", "_LEVEL">>, "x")>>}
NumberOfAll == [t \in {"-1", "0", "1"} |-> CASE t = "0" -> 0 [] t = "1" -> 1 [] OTHER -> -1]
SetTexts == {"x", "all", "ALL", "ON", "OFF", "0", "1", NoText}
FoldedAll == [t \in SetTexts |-> IF t = "ALL" THEN "all" ELSE t]
SettingsIdle == globalFile = <<>> /\ SettingsInit

----------------------------------------------------------------------------
(* Loops: each with one or two commands in it, and each in each other, over *)
(* lists and a structure of two levels, which the commands change, with all *)
(* variables set, with none, and with the one that names refer to unset.    *)

I == <<"i">>
J == <<"j">>
Show(words) == Cmd("ECHO", <<Word(words)>>)
Let(x, words) == Cmd("ASSIGN", <<Word(x), Word(words)>>)
Delete(x) == Cmd("ASSIGN", <<Word(x)>>)
SimpleCommands == {Show(<<"$i", "$j">>), Let(J, <<"$i">>), Delete(I), Delete(<<"s", "2">>), Let(<<"s", "3">>, <<"a">>)}
FeOver(words, xs, body) == Cmd("FE", <<Paren(<<words>>)>> \o [k \in DOMAIN xs |-> Word(xs[k])] \o <<Brace(body)>>)
NextJ == Cmd("IF", <<Paren(<<IsNot(J, <<"1">>)>>), Brace(<<Let(J, <<"1">>)>>), Brace(<<Let(J, <<"2">>)>>)>>)
LoopsAround(body) ==
    {FeOver(<<"a", "b", "c">>, <<I, J>>, body), FeOver(<<"$j", "b">>, <<I>>, body), FeOver(<<"$j">>, <<I>>, body),
     Cmd("FEC", <<Paren(<<<<"bc">>>>), Word(I), Word(J), Brace(body)>>),
     Cmd("FEC", <<Paren(<<<<"$i">>>>), Word(J), Brace(body)>>), FeOver(<<"a", "b">>, <<>>, body),
     Cmd("FOREACH", <<Word(<<"s">>), Word(I), Brace(body)>>),
     Cmd("FOREACH", <<Word(<<"s", "$i">>), Word(J), Brace(body)>>),
     Cmd("WHILE", <<Paren(<<Test(<<"$i">>)>>), Brace(body)>>),
     Cmd("IF", <<Paren(<<Test(<<"$j">>)>>), Brace(body)>>),
     Cmd("IF", <<Paren(<<Test(<<"$i">>)>>), Brace(<<>>), Brace(body)>>),
     Cmd("FOR", <<Paren(<<<<Let(J, <<"0">>)>>, IsNot(J, <<"2">>), <<NextJ>>>>), Brace(body)>>)}
SimpleBodies == {<<c>> : c \in SimpleCommands} \cup {<<c, d>> : c, d \in SimpleCommands}
InnerLoops == UNION {LoopsAround(<<c>>) : c \in SimpleCommands}
ProgramsAll ==
    {<<c>> : c \in UNION {LoopsAround(b) : b \in SimpleBodies}}
    \cup {<<c, Show(<<"$i", "$j">>)>> : c \in UNION {LoopsAround(<<d, Show(<<"$i">>)>>) : d \in InnerLoops}}
    \cup {<<>>, <<Cmd("FOR", <<Paren(<<<<"a">>>>)>>)>>}
VarNamesAll == <<I, J, <<"s", "1">>, <<"s", "1", "x">>, <<"s", "1", "y">>, <<"s", "2">>, <<"s", "3">>>>
NothingAssigned == [x \in {} |-> <<>>]
InitialValuesAll ==
    {NothingAssigned,
     [x \in {I, J, <<"s", "1", "x">>, <<"s", "1", "y">>, <<"s", "2">>} |->
         CASE x = I -> <<"1">> [] x = J -> <<"$i">> [] OTHER -> <<"b">>],
     [x \in {J, <<"s", "1", "x">>, <<"s", "2">>} |-> <<"b">>]}
LettersAll ==
    [w \in {"a", "b", "c", "bc", "0", "1", "2", "3", "x", "y", " ", "$i", "$j"} |->
        CASE w = "bc" -> <<"b", "c">> [] w = "$i" -> <<"$", "i">> [] w = "$j" -> <<"$", "j">> [] OTHER -> <<w>>]
RefersToAll == [w \in {"$i", "$j"} |-> IF w = "$i" THEN I ELSE J]
LoopsIdle == program = <<>> /\ atStart = NothingAssigned /\ LoopsInit

----------------------------------------------------------------------------

Others(p) ==
    /\ part = p
    /\ p # "input" => InputIdle
    /\ p # "hooks" => HooksIdle
    /\ p # "keys" => KeysIdle
    /\ p # "aliases" => AliasesIdle
    /\ p # "expressions" => ExpressionsIdle
    /\ p # "queues" => QueuesIdle
    /\ p # "loading" => LoadingIdle
    /\ p # "settings" => SettingsIdle
    /\ p # "loops" => LoopsIdle

UserInit ==
    \/ Others("input") /\ InputInit
    \/ Others("hooks") /\ HooksInit
    \/ Others("keys") /\ KeysInit
    \/ Others("aliases") /\ AliasesInit
    \/ Others("expressions") /\ ExpressionsInit
    \/ Others("queues") /\ QueuesInit
    \/ Others("loading") /\ LoadingInit
    \/ Others("settings") /\ SettingsInit
    \/ Others("loops") /\ LoopsInit

UserNext ==
    /\ UNCHANGED part
    /\ \/ /\ part = "input" /\ InputNext
          /\ UNCHANGED <<hooksVars, keysVars, aliasesVars, expressionsVars, queuesVars, loadingVars,
                         settingsVars, loopsVars>>
       \/ /\ part = "hooks" /\ HooksNext
          /\ UNCHANGED <<inputVars, keysVars, aliasesVars, expressionsVars, queuesVars, loadingVars,
                         settingsVars, loopsVars>>
       \/ /\ part = "keys" /\ KeysNext
          /\ UNCHANGED <<inputVars, hooksVars, aliasesVars, expressionsVars, queuesVars, loadingVars,
                         settingsVars, loopsVars>>
       \/ /\ part = "aliases" /\ AliasesNext
          /\ UNCHANGED <<inputVars, hooksVars, keysVars, expressionsVars, queuesVars, loadingVars,
                         settingsVars, loopsVars>>
       \/ /\ part = "expressions" /\ ExpressionsNext
          /\ UNCHANGED <<inputVars, hooksVars, keysVars, aliasesVars, queuesVars, loadingVars,
                         settingsVars, loopsVars>>
       \/ /\ part = "queues" /\ QueuesNext
          /\ UNCHANGED <<inputVars, hooksVars, keysVars, aliasesVars, expressionsVars, loadingVars,
                         settingsVars, loopsVars>>
       \/ /\ part = "loading" /\ LoadingNext
          /\ UNCHANGED <<inputVars, hooksVars, keysVars, aliasesVars, expressionsVars, queuesVars,
                         settingsVars, loopsVars>>
       \/ /\ part = "settings" /\ SettingsNext
          /\ UNCHANGED <<inputVars, hooksVars, keysVars, aliasesVars, expressionsVars, queuesVars, loadingVars,
                         loopsVars>>
       \/ /\ part = "loops" /\ LoopsNext
          /\ UNCHANGED <<inputVars, hooksVars, keysVars, aliasesVars, expressionsVars, queuesVars, loadingVars,
                         settingsVars>>

UserSpec == UserInit /\ [][UserNext]_userVars

\* Every variable of every part has its type.
UserTypeOK ==
    /\ InputTypeOK /\ HooksTypeOK /\ KeysTypeOK /\ AliasesTypeOK
    /\ ExpressionsTypeOK /\ QueuesTypeOK /\ LoadingTypeOK /\ SettingsTypeOK /\ LoopsTypeOK

\* What is kept across SAVE and a new start is what was set: key bindings (keys.c, edit.c) as well
\* as variables (vars.c), whose followers have been told of each value.
SettingsHold == BindingsHold /\ SettingsKept

\* A script does what it says: its lines are the commands that are run (load_a_file(), edit.c), and
\* its loops run their lines as often as they should (if.c).
ScriptsHold == LoadedAsWritten /\ LoopsAsWritten

=============================================================================
