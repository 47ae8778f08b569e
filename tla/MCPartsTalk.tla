----------------------------- MODULE MCPartsTalk -----------------------------
(* DCC between two clients, the command WHO, and long lines on the screen.   *)
(* They share nothing: the initial state chooses the part that a behaviour   *)
(* is of, and what the others have stays as it begins.                       *)
EXTENDS Dcc, Who, Splits

CONSTANTS x, y

VARIABLE part

TalkVars == <<part, dccVars, whoVars, splitsVars>>

----------------------------------------------------------------------------
(* WHO: four people in two channels, and one command of each kind.         *)

Flag(switch) == [switch |-> switch, arg |-> NULL]
With(switch, arg) == [switch |-> switch, arg |-> arg]
Named(arg) == With("", arg)
Of(name, nick, host, channel) ==
    [name |-> name, nick |-> nick, hosts |-> host, servers |-> "x", realname |-> "x", channel |-> channel]

WhoPeople ==
    {[of |-> Of("a", "a", "h", "#c"), status |-> <<"H", "*", "@">>],
     [of |-> Of("b", "a", "i", "#c"), status |-> <<"G">>],
     [of |-> Of("b", "b", "h", "#d"), status |-> <<"H", "@">>],
     [of |-> Of("a", "c", "h", "#d"), status |-> <<"G", "*">>]}

WhoCommands ==
    {<<>>, <<Flag("operators")>>, <<Flag("here"), With("nick", "a"), With("hosts", "h")>>,
     <<With("name", "a"), Named("#c")>>, <<Flag("chops"), Named("*")>>,
     <<Flag("away"), Flag("nick")>>, <<Flag("lusers"), Flag("unknown")>>,
     <<Flag("lusers"), With("realname", "*")>>, <<With("servers", "x"), Flag("away")>>,
     <<With("file", "friends")>>, <<With("file", "none")>>, <<Flag("here"), Flag("file")>>}

AskingUser ==
    [commands |-> WhoCommands, people |-> WhoPeople, listed |-> {"a"}, current |-> "#d", careful |-> TRUE]

\* A user without a channel who asks again before the list has ended.
ImpatientUser ==
    [AskingUser EXCEPT !.commands = {<<Flag("chops"), Named("*")>>, <<With("nick", "b")>>,
                                     <<Flag("here"), With("file", "friends")>>},
                       !.current = NULL, !.careful = FALSE]

TalkWho == {AskingUser, ImpatientUser}

----------------------------------------------------------------------------
(* Splits: words and blanks, and with them each kind of byte that takes no *)
(* column, two of them, or several at once.                                *)

Narrow5 ==
    [letters |-> {"a", " "}, columns |-> 5, tab |-> 4, continued |-> <<"+">>, indents |-> FALSE,
     beepMax |-> 1, tabMax |-> 0]

TalkSplits ==
    {Narrow5,
     [Narrow5 EXCEPT !.letters = {"a"}, !.columns = 1, !.continued = <<>>],
     [Narrow5 EXCEPT !.letters = {"a", " ", "TAB"}, !.continued = <<>>],
     [Narrow5 EXCEPT !.letters = {"a", " ", "W"}, !.columns = 9, !.indents = TRUE],
     [Narrow5 EXCEPT !.letters = {"a", " ", "BOLD_TOG", "ALL_OFF"}, !.columns = 3],
     [Narrow5 EXCEPT !.letters = {"a", " ", "^C4,2", "UND_TOG"}, !.columns = 3],
     [Narrow5 EXCEPT !.letters = {"a", "REV_TOG", "^C", "^C4"}, !.columns = 3],
     [Narrow5 EXCEPT !.letters = {"a", " ", "W", "e'"}, !.columns = 4, !.continued = <<"W">>],
     [Narrow5 EXCEPT !.letters = {"a", "TAB", "BELL", "^A"}, !.tabMax = 1]}

----------------------------------------------------------------------------
TalkInit ==
    /\ DccInit /\ WhoInit /\ SplitsInit
    /\ part \in {"dcc", "who", "splits"}
    /\ part # "dcc" => size = 0
    /\ part # "who" => whoEnv = AskingUser
    /\ part # "splits" => splitEnv = Narrow5

TalkNext ==
    /\ UNCHANGED part
    /\ \/ part = "dcc" /\ DccNext /\ UNCHANGED <<whoVars, splitsVars>>
       \/ part = "who" /\ WhoNext /\ UNCHANGED <<dccVars, splitsVars>>
       \/ part = "splits" /\ SplitsNext /\ UNCHANGED <<dccVars, whoVars>>

TalkSpec == TalkInit /\ [][TalkNext]_TalkVars

\* Every variable of the three parts has its type.
TalkTypeOK == DccTypeOK /\ WhoTypeOK /\ SplitsTypeOK

\* AsGiven (Splits: each letter is shown as the toggles and colours before it say, on whatever
\* line it comes to be), with the types of what is behind it.
ShownAsGiven == TalkTypeOK /\ AsGiven

=============================================================================
