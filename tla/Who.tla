--------------------------------- MODULE Who ---------------------------------
(***************************************************************************)
(* The command WHO (edit.c who(), whoreply_check(); parse.c whoreply()).   *)
(* The server is asked for those that match one word.  What the switches   *)
(* say is kept in the entry of the server, and each reply is looked at     *)
(* with it when it comes, among the lines of other servers.                *)
(***************************************************************************)
EXTENDS Naturals, Sequences, FiniteSets

CONSTANTS
    WhoServers,        \* servers
    MaxRequests,       \* bound: requests on their way to a server
    WhoSettings        \* what kinds of run there are, a subset of WhoSetting

NULL == "NULL"
PatternFields == {"name", "nick", "hosts", "servers", "realname"}   \* switches that take a pattern
Flags == {"operators", "lusers", "chops", "here", "away"}
Switches == PatternFields \cup Flags \cup {"file"}

\* A word of the command: a switch, with its argument if that is there, or what to ask for.
Word == [switch: Switches \cup {"", "unknown"}, arg: STRING]

Person == [PatternFields \cup {"channel"} -> STRING]

\* Here or gone, an operator or not, and one of the channel or not.
Marks == UNION {{<<h>>, <<h, "*">>, <<h, "@">>, <<h, "*", "@">>} : h \in {"H", "G"}}
Reply == [of: Person, status: Marks]

\* What is to be typed as the help says: each switch once, and what to ask for behind them.
WellFormed(words) ==
    /\ \A i, j \in DOMAIN words : i < j => words[i].switch # words[j].switch
    /\ \A i \in DOMAIN words : words[i].switch = "" => i = Len(words) /\ words[i].arg # NULL

WhoSetting ==
    [commands: SUBSET {words \in Seq(Word) : WellFormed(words)},
     people: SUBSET Reply,         \* those a server knows, as it says in its replies
     listed: SUBSET STRING,        \* what is in the file "friends", the only one there is
     current: STRING,              \* the channel of the window, or NULL
     careful: BOOLEAN]             \* a user who waits for the end of a list, and see Sensible

\* -FILE without other switches, and -REALNAME (of which the help says nothing) with a "*".
Sensible(words) ==
    /\ \A i, j \in DOMAIN words : words[i].switch = "file" => words[j].switch \in {"file", ""}
    /\ \A i \in DOMAIN words : words[i].switch = "realname" => words[i].arg \in {"*", NULL}

ASSUME WhoAssumption == MaxRequests \in Nat /\ WhoSettings \subseteq WhoSetting

VARIABLES
    whoInfo,           \* who_info of each entry
    requests,          \* what each server was asked and has not answered to the end
    whoEnv             \* the setting of this run, never changed

whoVars == <<whoInfo, requests, whoEnv>>

\* who_mask, and who_name, who_nick, who_host, who_server and who_real.
WhoInfo == [mask: SUBSET Switches, pattern: [PatternFields -> STRING], file: STRING]

\* alloc_who_info()
NoInfo == [mask |-> {}, pattern |-> [f \in PatternFields |-> NULL], file |-> NULL]

\* words as typed; who is still to come in replies, who came, and of those the ones that were shown.
Request == [words: Seq(Word), due: SUBSET Reply, came: SUBSET Reply, shown: SUBSET Reply]

WhoTypeOK ==
    /\ whoInfo \in [WhoServers -> WhoInfo]
    /\ requests \in [WhoServers -> Seq(Request)]
    /\ whoEnv \in WhoSettings

WhoInit ==
    /\ whoInfo = [s \in WhoServers |-> NoInfo]
    /\ requests = [s \in WhoServers |-> <<>>]
    /\ whoEnv \in WhoSettings

\* wild_match(), with "*" for all patterns that are not plain words.
Match(pattern, word) == pattern \in {"*", word}

----------------------------------------------------------------------------
(* who(): its loop over the words, as far as it comes.                     *)

TakesArgument == PatternFields \cup {"file"}
Missing(word) == word.switch \in TakesArgument /\ word.arg = NULL

\* What it refuses: an unknown switch, one without its argument, and the current channel where there is none.
Refused(e, word) ==
    \/ word.switch = "unknown" \/ Missing(word)
    \/ word.switch = "" /\ word.arg = "*" /\ e.current = NULL

\* The words it comes to, and of those the ones that it takes.
ComesTo(e, words) == {i \in DOMAIN words : \A j \in 1 .. i - 1 : ~Refused(e, words[j])}
TakenWords(e, words) == {i \in ComesTo(e, words) : ~Refused(e, words[i])}

\* who_mask and the patterns, from nothing; the bit of -FILE is set before its argument is looked for.
Parsed(e, words) ==
    LET taken == TakenWords(e, words)
        of(f) == {i \in taken : words[i].switch = f}
        last(set) == CHOOSE i \in set : \A j \in set : j <= i
    IN  [mask |-> {words[i].switch : i \in {j \in taken : words[j].switch # ""}}
                    \cup {f \in {"file"} : \E i \in ComesTo(e, words) : words[i].switch = f},
         pattern |-> [f \in PatternFields |-> IF of(f) = {} THEN NULL ELSE words[last(of(f))].arg],
         file |-> IF of("file") = {} THEN NULL ELSE words[last(of("file"))].arg]

\* channel: the last pattern or name in the command; everybody, if only operators are wanted.
AskedFor(e, words) ==
    LET names == {i \in DOMAIN words : words[i].switch \in PatternFields \cup {""}}
        last == CHOOSE i \in names : \A j \in names : j <= i
    IN  IF names = {} THEN (IF \E i \in DOMAIN words : words[i].switch = "operators" THEN "*" ELSE NULL)
        ELSE IF words[last].switch = "" /\ words[last].arg = "*" THEN e.current
        ELSE words[last].arg

\* The answer of a server: those with a word that matches, and with " o" the operators of them.
Answer(e, name, onlyOperators) ==
    {r \in e.people :
        /\ name = NULL \/ \E f \in DOMAIN r.of : Match(name, r.of[f])
        /\ onlyOperators => \E i \in DOMAIN r.status : r.status[i] = "*"}

Who(s) ==
    /\ whoEnv.careful => requests[s] = <<>>
    /\ \E words \in whoEnv.commands :
          /\ whoEnv.careful => Sensible(words)
          /\ LET info == Parsed(whoEnv, words)
                 answer == Answer(whoEnv, AskedFor(whoEnv, words), "operators" \in info.mask)
             IN  /\ whoInfo' = [whoInfo EXCEPT ![s] = info]
                 /\ requests' =
                       IF words = <<>> \/ TakenWords(whoEnv, words) # DOMAIN words THEN requests
                       ELSE [requests EXCEPT ![s] =
                               Append(@, [words |-> words, due |-> answer, came |-> {}, shown |-> {}])]
    /\ UNCHANGED whoEnv

----------------------------------------------------------------------------
(* The lines of a server.                                                  *)

\* Mutant: the marks are looked for one place further.
MarkAtNext(status, i) == IF i + 1 \in DOMAIN status THEN status[i + 1] ELSE ""

MarkAt(status, i) == IF i \in DOMAIN status THEN status[i] ELSE ""

\* whoreply_check(): with -FILE, whoever is in the file.  The hop count is before the real name,
\* so that no plain word matches that.
WhoreplyCheck(e, info, r) ==
    LET has(switch) == switch \in info.mask
        matches(f) == has(f) => IF f = "realname" THEN info.pattern[f] = "*"
                                ELSE Match(info.pattern[f], r.of[f])
        ok == /\ has("here") => MarkAt(r.status, 1) = "H"
              /\ has("away") => MarkAt(r.status, 1) = "G"
              /\ has("operators") => MarkAt(r.status, 2) = "*"
              /\ has("lusers") => MarkAt(r.status, 2) # "*"
              /\ has("chops") => "@" \in {MarkAt(r.status, 2), MarkAt(r.status, 3)}
              /\ \A f \in PatternFields : matches(f)
    IN  IF has("file")
        THEN info.file = "friends" /\ \E line \in e.listed : Match(line, r.of["nick"])
        ELSE ok

\* whoreply(): one of those that are due, in any order.
Replied(e, info, asked, r) ==
    [asked EXCEPT !.due = @ \ {r}, !.came = @ \cup {r},
                  !.shown = IF WhoreplyCheck(e, info, r) THEN @ \cup {r} ELSE @]

Whoreply(s) ==
    /\ requests[s] # <<>>
    /\ \E r \in Head(requests[s]).due :
          requests' = [requests EXCEPT ![s] = <<Replied(whoEnv, whoInfo[s], Head(@), r)>> \o Tail(@)]
    /\ UNCHANGED <<whoInfo, whoEnv>>

\* 315: nothing is done but to show it.
EndOfWho(s) ==
    /\ requests[s] # <<>> /\ Head(requests[s]).due = {}
    /\ requests' = [requests EXCEPT ![s] = Tail(@)]
    /\ UNCHANGED <<whoInfo, whoEnv>>

\* The connection is lost with what was asked; the entry stays (close_server()).
LostWho(s) ==
    /\ requests[s] # <<>>
    /\ requests' = [requests EXCEPT ![s] = <<>>]
    /\ UNCHANGED <<whoInfo, whoEnv>>

WhoNext ==
    \E s \in WhoServers :
        \/ Len(requests[s]) < MaxRequests /\ Who(s)
        \/ Whoreply(s) \/ EndOfWho(s) \/ LostWho(s)

WhoSpec == WhoInit /\ [][WhoNext]_whoVars

----------------------------------------------------------------------------
(* What is right of it.                                                    *)

\* Whether somebody is what one word of a command says.
Fits(e, word, r) ==
    LET operator == \E i \in DOMAIN r.status : r.status[i] = "*" IN
    CASE word.switch \in PatternFields -> Match(word.arg, r.of[word.switch])
      [] word.switch = "file" -> word.arg = "friends" /\ \E line \in e.listed : Match(line, r.of["nick"])
      [] word.switch = "operators" -> operator
      [] word.switch = "lusers" -> ~operator
      [] word.switch = "chops" -> \E i \in DOMAIN r.status : r.status[i] = "@"
      [] word.switch = "here" -> r.status[1] = "H"
      [] word.switch = "away" -> r.status[1] = "G"
      [] OTHER -> \E f \in DOMAIN r.of : Match(IF word.arg = "*" THEN e.current ELSE word.arg, r.of[f])

Wanted(e, words, r) == \A i \in DOMAIN words : Fits(e, words[i], r)

\* "switches are also recognized and used to limit the listing" (help/who:21): each reply to a
\* request is shown if and only if all words of that request are true of it, and the server was
\* asked for everybody of whom they are.  For a user who waits for the end of the list: the
\* switches of a second request are looked at for the rest of the first.
WhoAsAsked ==
    whoEnv.careful => \A s \in WhoServers : requests[s] # <<>> =>
        LET asked == Head(requests[s]) IN
        /\ asked.shown = {r \in asked.came : Wanted(whoEnv, asked.words, r)}
        /\ \A r \in whoEnv.people : Wanted(whoEnv, asked.words, r) => r \in asked.came \cup asked.due

=============================================================================
