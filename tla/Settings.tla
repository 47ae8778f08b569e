------------------------------ MODULE Settings ------------------------------
(***************************************************************************)
(* The variables of vars.c: /SET, what the system's "global" script and    *)
(* the user's own set in them, /SAVE (edit.c), and the next start of the   *)
(* client, which loads both files again.                                   *)
(*                                                                         *)
(* A name is the sequence of its parts, so that it can be abbreviated.     *)
(***************************************************************************)
EXTENDS Naturals, FiniteSets, SequencesExt

CONSTANTS
    IrcVariable,       \* the table, a sequence of [name, type, initial, notified]
    SetLines,          \* what the user may type after /SET
    GlobalFiles,       \* what the global script may be
    NumberOf,          \* the texts that are numbers, a function to Int
    Folded,            \* texts in lower case, a function
    MaxSets            \* bound: /SET and /SAVE between two starts

NoText == "<EMPTY>"
OnOff == {"ON", "OFF", "TOGGLE"}

\* A line says SET name text; without a text it shows, and with a dash before the name it unsets.
SetLine == [dash: BOOLEAN, name: Seq(STRING), text: STRING]

\* check_variable_order(): the names are sorted, so that those a name begins come right after it.
InOrderOf(t) ==
    \A i, j \in DOMAIN t : IsPrefix(t[i].name, t[j].name) =>
        i <= j /\ \A k \in i .. j : IsPrefix(t[i].name, t[k].name)

ASSUME SettingsAssumption == InOrderOf(IrcVariable) /\ MaxSets \in Nat

Vars == DOMAIN IrcVariable

VARIABLES
    setting,           \* integer or string of each, and its VIF_CHANGED and VIF_GLOBAL
    notified,          \* what its function was called with last
    startup,           \* "global", "ircrc", or "done" once the user types
    script,            \* the lines still to be read of the file that is loaded
    globalFile, ircrc, \* the two files
    saveAll,           \* save_do_all
    saveSets,          \* SFLAG_SET is in save_which
    confirming,        \* questions of SAVE that are not answered
    sets,              \* /SET and /SAVE typed since the start
    told,              \* strings that were told another text, in this start
    promised           \* what SAVE has written and the next start owes the user

settingsVars == <<setting, notified, startup, script, globalFile, ircrc, saveAll, saveSets, confirming,
                  sets, told, promised>>

\* irc_variable[] as compiled in
Initials ==
    [i \in Vars |-> [value |-> IrcVariable[i].initial, changed |-> FALSE, global |-> FALSE]]
Nothing == [i \in {} |-> NoText]

SettingsTypeOK ==
    /\ \A i \in Vars :
          /\ setting[i].changed \in BOOLEAN /\ setting[i].global \in BOOLEAN
          /\ IrcVariable[i].type = "BOOL" => setting[i].value \in {"ON", "OFF"}
          /\ IrcVariable[i].type = "INT" => setting[i].value \in DOMAIN NumberOf
    /\ startup \in {"global", "ircrc", "done"} /\ saveAll \in BOOLEAN /\ saveSets \in BOOLEAN
    /\ confirming \in 0 .. MaxSets /\ sets \in 0 .. MaxSets
    /\ told \subseteq Vars /\ DOMAIN promised \subseteq Vars

SettingsInit ==
    /\ setting = Initials /\ notified = [i \in Vars |-> IrcVariable[i].initial]
    /\ globalFile \in GlobalFiles /\ ircrc = <<>>
    /\ startup = "global" /\ script = globalFile
    /\ saveAll = FALSE /\ saveSets = FALSE /\ confirming = 0 /\ sets = 0
    /\ told = {} /\ promised = Nothing

----------------------------------------------------------------------------
(* /SET                                                                    *)

\* find_variable(): the first whose name begins like this, and those right after it.
Found(name) ==
    LET begin == {i \in Vars : IsPrefix(name, IrcVariable[i].name)}
        first == CHOOSE i \in begin : \A j \in begin : i <= j
    IN  IF begin = {} THEN {}
        ELSE IF IrcVariable[first].name = name THEN {first}
        ELSE {i \in begin : first .. i \subseteq begin}

\* do_boolean()
Boolean(text, value) ==
    IF text # "TOGGLE" THEN text ELSE IF value = "ON" THEN "OFF" ELSE "ON"

Differ(s, t) == Folded[s] # Folded[t]

\* Mutant: a string is marked as a number is, when it is another than before, by the flag alone.
MarkedUnlessGlobal(v, value) == [v EXCEPT !.value = value, !.changed = ~v.global /\ (@ \/ v.value # value)]

Marked(v, value) == [v EXCEPT !.value = value, !.changed = @ \/ v.value # value]

\* A string is compared without case, and only while it has no flag at all: "!flags & CHANGED".
StringMarked(v, text) ==
    [v EXCEPT !.value = text,
              !.changed = @ \/ (~v.global /\ (v.value = NoText \/ Differ(v.value, text)))]

\* set_var_value(): the variable after "SET name text", itself when the text is refused or none.
SetVarValue(i, line) ==
    LET v == setting[i]
        type == IrcVariable[i].type
        new == IF type = "BOOL" /\ line.text \in OnOff THEN Marked(v, Boolean(line.text, v.value))
               ELSE IF type = "INT" /\ line.text \in DOMAIN NumberOf /\ NumberOf[line.text] >= 0
               THEN Marked(v, line.text)
               ELSE StringMarked(v, line.text)
        accepted == line.text # NoText /\ CASE type = "BOOL" -> line.text \in OnOff
                                            [] type = "INT" -> line.text \in DOMAIN NumberOf /\ NumberOf[line.text] >= 0
                                            [] type = "STR" -> TRUE
    IN  IF type = "STR" /\ line.dash THEN [v EXCEPT !.value = NoText]
        ELSE IF ~line.dash /\ accepted THEN [new EXCEPT !.global = @ \/ startup = "global"]
        ELSE v

\* Whether its function is called.
Takes(i, line) ==
    IF IrcVariable[i].type = "STR" THEN line.dash \/ line.text # NoText
    ELSE SetVarValue(i, line) # setting[i] \/ SetVarValue(i, line).value = line.text

\* set_variable(): more than one, or none, is only said so.
SetVariable(line) ==
    LET found == Found(line.name)
    IN  IF Cardinality(found) # 1 THEN UNCHANGED <<setting, notified, told>>
        ELSE LET i == CHOOSE i \in found : TRUE
                 v == SetVarValue(i, line)
             IN  /\ setting' = [setting EXCEPT ![i] = v]
                 /\ notified' = IF Takes(i, line) /\ ~(line.dash /\ IrcVariable[i].type # "STR")
                                THEN [notified EXCEPT ![i] = v.value] ELSE notified
                 /\ told' = IF v.value # NoText /\ (setting[i].value = NoText \/ Differ(v.value, setting[i].value))
                            THEN told \cup {i} ELSE told

TypeSet ==
    /\ startup = "done" /\ sets < MaxSets
    /\ \E line \in SetLines : SetVariable(line)
    /\ sets' = sets + 1
    /\ UNCHANGED <<startup, script, globalFile, ircrc, saveAll, saveSets, confirming, promised>>

----------------------------------------------------------------------------
(* /SAVE                                                                   *)

NotSaved == {<<"DISPLAY">>, <<"CLIENT_INFORMATION">>}

LineOf(i) == [dash |-> setting[i].value = NoText, name |-> IrcVariable[i].name, text |-> setting[i].value]

SavedVariables(all) ==
    SelectSeq([i \in Vars |-> i],
              LAMBDA i : setting[i].changed /\ (all \/ ~setting[i].global) /\ IrcVariable[i].name \notin NotSaved)

\* What the user may count on.  Not on what the global script has set too, unless by SAVE -ALL and
\* it is no string; nor on a string that was only ever unset, or told in another case.
Promised(all) ==
    {i \in Vars : /\ IrcVariable[i].name \notin NotSaved
                  /\ setting[i].global => all /\ IrcVariable[i].type # "STR"
                  /\ IrcVariable[i].type = "STR" => i \in told \/ setting[i].value = IrcVariable[i].initial}

\* really_save(), save_variables(): the file is written anew, with or without the variables.
ReallySave(all, variables) ==
    /\ ircrc' = IF variables THEN [k \in DOMAIN SavedVariables(all) |-> LineOf(SavedVariables(all)[k])] ELSE <<>>
    /\ promised' = IF variables THEN [i \in Promised(all) |-> setting[i].value] ELSE Nothing

\* save_settings(): with -SET, or no such argument, of the variables; with -ALL, of all.  An
\* unknown argument ends it.  Unless it is forced, the user is asked first.
SaveSettings(variables, all, known, force) ==
    /\ startup = "done" /\ sets < MaxSets /\ sets' = sets + 1
    /\ saveAll' = all /\ saveSets' = variables
    /\ IF known /\ force THEN ReallySave(all, variables) ELSE UNCHANGED <<ircrc, promised>>
    /\ confirming' = IF known /\ ~force THEN confirming + 1 ELSE confirming
    /\ UNCHANGED <<setting, notified, startup, script, globalFile, told>>

\* The answer is for what was asked for last, whichever question it answers.  Nothing is written
\* after a no, nor when there is no such file to write.
Confirm ==
    /\ confirming > 0 /\ confirming' = confirming - 1
    /\ \/ ReallySave(saveAll, saveSets)
       \/ UNCHANGED <<ircrc, promised>>
    /\ UNCHANGED <<setting, notified, startup, script, globalFile, saveAll, saveSets, sets, told>>

----------------------------------------------------------------------------
(* A new start of the client: load_global(), then load_ircrc() (irc.c).    *)

Restart ==
    /\ startup = "done"
    /\ setting' = Initials /\ notified' = [i \in Vars |-> IrcVariable[i].initial]
    /\ startup' = "global" /\ script' = globalFile
    /\ saveAll' = FALSE /\ saveSets' = FALSE /\ confirming' = 0 /\ sets' = 0 /\ told' = {}
    /\ UNCHANGED <<globalFile, ircrc, promised>>

LoadLine ==
    /\ script # <<>> /\ script' = Tail(script)
    /\ SetVariable(Head(script))
    /\ UNCHANGED <<startup, globalFile, ircrc, saveAll, saveSets, confirming, sets, promised>>

FileRead ==
    /\ startup # "done" /\ script = <<>>
    /\ IF startup = "global" THEN startup' = "ircrc" /\ script' = ircrc
       ELSE startup' = "done" /\ UNCHANGED script
    /\ UNCHANGED <<setting, notified, globalFile, ircrc, saveAll, saveSets, confirming, sets, told, promised>>

SettingsNext ==
    \/ TypeSet \/ Confirm \/ Restart \/ LoadLine \/ FileRead
    \/ \E variables, all, known, force \in BOOLEAN : SaveSettings(variables, all, known, force)

SettingsSpec == SettingsInit /\ [][SettingsNext]_settingsVars

----------------------------------------------------------------------------
(* What is right of it.                                                    *)

\* "This will save all of the settings of IRCII to a file ... in a format such that they can be
\* loaded" (help/save:11): the client that starts has in its variables what was in them when
\* they were saved, with the exceptions of Promised.
SavedIsLoaded ==
    startup = "done" /\ sets = 0 => \A i \in DOMAIN promised : setting[i].value = promised[i]

\* What follows a variable (the size of the history, the log file, the encoding) has been told its
\* value, unset or not.
FollowersKnow ==
    \A i \in Vars : IrcVariable[i].notified => notified[i] = setting[i].value

\* Variables survive SAVE and a new start, and those who follow one miss nothing (vars.c).
SettingsKept == SavedIsLoaded /\ FollowersKnow

=============================================================================
