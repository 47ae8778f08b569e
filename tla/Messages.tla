------------------------------ MODULE Messages ------------------------------
(***************************************************************************)
(* What the handlers of parse.c, notice.c and ctcp.c do with a message:    *)
(* who it is from and of what level it is, for the window to show it in    *)
(* (who_from, who_level) and for the lastlog (msg_level); the CTCPs in it; *)
(* and the answers.  Each handler is one action, made of the calls it      *)
(* makes, on every path.                                                   *)
(*                                                                         *)
(* A message is the pieces between its CTCP delimiters.  Whether somebody  *)
(* is ignored (Ignores), floods (Floods) or has to be asked for (Whois),   *)
(* and what hooks say (Hooks), is any of what it can be.                   *)
(***************************************************************************)
EXTENDS Naturals, Sequences, FiniteSets, SequencesExt

CONSTANTS
    MaxPieces,         \* bound: pieces of a message
    MessageSettings    \* what kinds of run there are, a subset of MessageSetting

Crap == "CRAP"                       \* LOG_CRAP, the level of everything that has none
Targets == {"me", "channel", "elsewhere", "group"}
CtcpNames == {"PING", "ACTION", "UTC", "odd"}
Pieces == CtcpNames \cup {"", "text"}
IgnoreWords == {"no", "IGNORED", "DONT_IGNORE"}
FloodWays == {"none", "detected", "suspended", "elapsed"}

MessageSetting == [kinds: SUBSET STRING, pieces: SUBSET Pieces, lengths: SUBSET (1 .. MaxPieces), ignores: SUBSET IgnoreWords,
                   oneOnly: BOOLEAN]

ASSUME MessagesAssumption ==
    /\ MaxPieces \in Nat \ {0}
    /\ MessageSettings \subseteq MessageSetting

VARIABLES
    whoLevel,          \* who_level
    whoSaved,          \* mfstack: what save_message_from() saved
    msgLevel,          \* msg_level of lastlog.c
    outcome,           \* what became of the message handled last
    messageEnv         \* the setting of this run, never changed

messagesVars == <<whoLevel, whoSaved, msgLevel, outcome, messageEnv>>

Nothing == [kind |-> "none", pieces |-> <<"">>, text |-> <<"">>, ignored |-> FALSE,
            shown |-> {}, sent |-> {}]

MessagesTypeOK ==
    /\ whoLevel \in STRING /\ msgLevel \in STRING
    /\ whoSaved \in Seq(STRING)
    /\ outcome.sent \subseteq [during: {"CTCP", "CTCP_REPLY", "message"}, as: {"PRIVMSG", "NOTICE"}]
    /\ outcome.shown \subseteq [what: STRING, who: STRING, level: STRING]
    /\ messageEnv \in MessageSettings

MessagesInit ==
    /\ whoLevel = Crap /\ whoSaved = <<>> /\ msgLevel = Crap
    /\ outcome = Nothing
    /\ messageEnv \in MessageSettings

----------------------------------------------------------------------------
(* The calls.  A handler starts from Begin, and ends with Became.          *)

\* Whether there is something in CTCP_Reply_Buffer is part of what they work on.
Begin == [who |-> whoLevel, saved |-> whoSaved, level |-> msgLevel, shown |-> {}, sent |-> {}, reply |-> FALSE]

Save(s) == [s EXCEPT !.saved = Append(@, s.who)]
From(s, level) == [s EXCEPT !.who = level]
Logged(s, level) == [s EXCEPT !.level = level]
Restore(s) == [s EXCEPT !.who = IF s.saved = <<>> THEN Crap ELSE Last(s.saved),
                        !.saved = IF s.saved = <<>> THEN <<>> ELSE Front(s.saved)]
Show(s, what, ifShown) ==
    [s EXCEPT !.shown = @ \cup (IF ifShown THEN {[what |-> what, who |-> s.who, level |-> s.level]} ELSE {})]
Send(s, during, as) == [s EXCEPT !.sent = @ \cup {[during |-> during, as |-> as]}]

Became(s, kind, pieces, text, ignored) ==
    /\ whoLevel' = s.who /\ whoSaved' = s.saved /\ msgLevel' = s.level
    /\ outcome' = [kind |-> kind, pieces |-> pieces, text |-> text, ignored |-> ignored,
                   shown |-> s.shown, sent |-> s.sent]
    /\ UNCHANGED messageEnv

----------------------------------------------------------------------------
(* CTCPs.                                                                  *)

\* Those whose function answers (send_ctcp_reply() collects it): PING stands for VERSION, TIME and the others.
Answers == {"PING"}

\* Those whose function gives no answer to send (CTCP_NOREPLY), and what is put in their place.
NoReply == {"UTC"}
InPlace(ctcp) == IF ctcp = "UTC" THEN <<"date">> ELSE <<>>

\* do_atmosphere()
Action(s, ifShown) ==
    Restore(Logged(Show(From(Logged(Save(s), "ACTION"), "ACTION"), "ACTION", ifShown), s.level))

\* CTCP typed in a hook: an answer while a request is handled, refused while an answer is.
TypedInHook(s, inCtcp, types) ==
    IF ~types \/ inCtcp = -1 THEN s
    ELSE Send(s, IF inCtcp = 1 THEN "CTCP" ELSE "message", IF inCtcp = 1 THEN "NOTICE" ELSE "PRIVMSG")

Verbose(s, ifShown) ==
    Restore(Logged(Show(From(Logged(Save(s), "CTCP"), "CTCP"), "CTCP", ifShown), s.level))

\* One CTCP of a message: its function, unless it was meant for everybody; and the hook.
RunCtcp(s, ctcp, to, ifShown, types) ==
    LET may == to \notin {"group", "elsewhere"}
        done == IF ~may THEN s
                ELSE IF ctcp = "ACTION" THEN Action(s, ifShown)
                ELSE IF ctcp \in Answers THEN [s EXCEPT !.reply = TRUE] ELSE s
    IN  Verbose(TypedInHook(done, 1, types), ifShown /\ ctcp # "ACTION")

Joined(pieces) == [i \in 1 .. 2 * Len(pieces) - 1 |-> IF i % 2 = 1 THEN pieces[(i + 1) \div 2] ELSE "|"]

TooMany(r) == r.messages > 3

\* The loop of do_ctcp(): when the sender's CTCPs are ignored it goes on with the same string,
\* which by then ends where the CTCP began.
CtcpStep(r, ignored, to, ifShown, types) ==
    IF Len(r.str) = 1 \/ TooMany(r) THEN r
    ELSE IF Len(r.str) = 2
    THEN [r EXCEPT !.text = @ \o <<r.str[1], "|">>, !.str = <<r.str[2]>>]
    ELSE IF ignored
    THEN [r EXCEPT !.text = Append(@, r.str[1]), !.messages = @ + 1, !.str = <<r.str[1]>>]
    ELSE [s |-> RunCtcp(r.s, r.str[2], to, ifShown, types),
          text |-> Append(r.text, r.str[1])
                     \o (IF to \in {"group", "elsewhere"} THEN <<>> ELSE InPlace(r.str[2])),
          messages |-> r.messages + 1,
          str |-> SubSeq(r.str, 3, Len(r.str))]

\* What was collected is sent in one, or held back when it is too much (Floods).  That this
\* begins or is over is said in the windows of CTCPs, if VERBOSE_CTCP is on; the level for the
\* lastlog stays that of the message.
Replied(s, flood, ifShown) ==
    LET noticed == IF flood \notin {"detected", "elapsed"} THEN s
                   ELSE Restore(Show(From(Save(s), "CTCP"), "CTCP flood", ifShown))
        answered == IF flood \in {"detected", "suspended"} THEN noticed ELSE Send(noticed, "CTCP", "NOTICE")
    IN  IF s.reply THEN [answered EXCEPT !.reply = FALSE] ELSE s

DoCtcp(s, pieces, ignored, to, flood, ifShown, types) ==
    LET run[i \in 0 .. MaxPieces] ==
            IF i = 0 THEN [s |-> s, text |-> <<>>, messages |-> 0, str |-> pieces]
            ELSE CtcpStep(run[i - 1], ignored, to, ifShown, types)
        end == run[MaxPieces]
    IN  [s |-> Replied(end.s, flood, ifShown), text |-> end.text \o Joined(end.str)]

\* Mutant: the functions that answer are run too.
AnswersToo == NoReply \cup Answers

\* Those that are run when they come in an answer.
RunInAnswers == NoReply

\* do_notice_ctcp(), do_new_notice_ctcp(): one only, when NO_CTCP_FLOOD is on.
NoticeStep(r, ifShown, types) ==
    IF Len(r.str) = 1 \/ (messageEnv.oneOnly /\ r.messages = 1) THEN r
    ELSE IF Len(r.str) = 2
    THEN [r EXCEPT !.text = @ \o <<r.str[1], "|">>, !.str = <<r.str[2]>>, !.messages = 1]
    ELSE LET ctcp == r.str[2]
             ran == IF ctcp \in RunInAnswers \ NoReply THEN Send(r.s, "CTCP_REPLY", "NOTICE") ELSE r.s
             typed == TypedInHook(ran, -1, types)
         IN  [s |-> IF ctcp \in NoReply THEN typed ELSE Verbose(typed, ifShown),
              text |-> Append(r.text, r.str[1]) \o (IF ctcp \in RunInAnswers THEN InPlace(ctcp) ELSE <<>>),
              messages |-> 1,
              str |-> SubSeq(r.str, 3, Len(r.str))]

DoNoticeCtcp(s, pieces, ifShown, types) ==
    LET run[i \in 0 .. MaxPieces] ==
            IF i = 0 THEN [s |-> s, text |-> <<>>, messages |-> 0, str |-> pieces]
            ELSE NoticeStep(run[i - 1], ifShown, types)
        end == run[MaxPieces]
    IN  [s |-> end.s, text |-> end.text \o Joined(end.str)]

Empty(text) == \A i \in DOMAIN text : text[i] = ""

----------------------------------------------------------------------------
(* The handlers.                                                           *)

Messages == UNION {[1 .. n -> messageEnv.pieces] : n \in messageEnv.lengths}

MessageMayArrive(kind) == kind \in messageEnv.kinds /\ outcome = Nothing

\* Back in the loop of irc_io(), to the next line.
HandledWhole ==
    /\ outcome # Nothing /\ outcome' = Nothing
    /\ UNCHANGED <<whoLevel, whoSaved, msgLevel, messageEnv>>

LogTypeOf(to) == CASE to = "me" -> "MSG" [] to = "group" -> "WALL" [] OTHER -> "PUBLIC"

\* p_privmsg()
PPrivmsg ==
    /\ MessageMayArrive("PRIVMSG")
    /\ \E to \in Targets, pieces \in Messages, flag \in messageEnv.ignores, ctcpFlag \in messageEnv.ignores,
          flood \in FloodWays, queued \in BOOLEAN, ifShown \in BOOLEAN, types \in BOOLEAN :
          LET s == From(Save(Begin), LogTypeOf(to))
              c == DoCtcp(Logged(s, LogTypeOf(to)), pieces, ctcpFlag = "IGNORED", to, flood, ifShown, types)
              hooked == TypedInHook(c.s, 0, types)
          IN  IF flag = "IGNORED"
              THEN Became(Restore(IF to = "me" /\ types THEN Send(s, "message", "NOTICE") ELSE s),
                          "PRIVMSG", pieces, pieces, TRUE)
              ELSE IF Empty(c.text)
              THEN Became(Restore(c.s), "PRIVMSG", pieces, c.text, ctcpFlag = "IGNORED")
              ELSE Became(Restore(Logged(IF queued THEN c.s ELSE Show(hooked, LogTypeOf(to), ifShown),
                                         Begin.level)),
                          "PRIVMSG", pieces, c.text, ctcpFlag = "IGNORED")

\* parse_notice(), of a notice that somebody sent.
ParseNotice ==
    /\ MessageMayArrive("NOTICE")
    /\ \E pieces \in Messages, flag \in messageEnv.ignores, queued \in BOOLEAN, flooding \in BOOLEAN,
          ifShown \in BOOLEAN, types \in BOOLEAN :
          LET s == From(Save(Begin), "NOTICE")
              c == DoNoticeCtcp(s, pieces, ifShown, types)
              logged == Logged(c.s, "NOTICE")
          IN  IF flag = "IGNORED" \/ queued
              THEN Became(Restore(s), "NOTICE", pieces, pieces, TRUE)
              ELSE IF Empty(c.text) THEN Became(Restore(c.s), "NOTICE", pieces, c.text, FALSE)
              ELSE IF flooding THEN Became(Restore(logged), "NOTICE", pieces, c.text, FALSE)
              ELSE Became(Restore(Logged(Show(TypedInHook(logged, 0, types), "NOTICE", ifShown), c.s.level)),
                          "NOTICE", pieces, c.text, FALSE)

\* A note that a server delivers (parse_note()).
ParseNote ==
    /\ MessageMayArrive("NOTE")
    /\ \E ignored \in BOOLEAN, ifShown \in BOOLEAN :
          LET s == From(Save(Begin), "NOTICE") IN
          Became(Restore(IF ignored THEN s ELSE Logged(Show(Logged(s, "NOTES"), "NOTES", ifShown), s.level)),
                 "NOTE", <<"">>, <<"">>, ignored)

\* parse_server_notice(); nothing of the message of the day when that is suppressed.
ParseServerNotice ==
    /\ MessageMayArrive("SNOTE")
    /\ \E level \in {"SNOTE", "OPNOTE"}, suppressed \in BOOLEAN, ifShown \in BOOLEAN :
          LET s == From(Save(Begin), "NOTICE")
              t == Logged(From(Save(s), level), level)
          IN  Became(Restore(IF suppressed THEN s
                             ELSE Restore(Logged(Show(t, level, ifShown), Begin.level))),
                     "SNOTE", <<"">>, <<"">>, FALSE)

\* p_wall()
PWall ==
    /\ MessageMayArrive("WALL")
    /\ \E flag \in messageEnv.ignores, queued \in BOOLEAN, ifShown \in BOOLEAN :
          LET s == From(Save(Begin), "WALL") IN
          Became(Restore(IF flag = "IGNORED" \/ queued THEN s
                         ELSE Logged(Show(Logged(s, "WALL"), "WALL", ifShown), Begin.level)),
                 "WALL", <<"">>, <<"">>, FALSE)

\* p_wallops()
PWallops ==
    /\ MessageMayArrive("WALLOPS")
    /\ \E ifShown \in BOOLEAN :
          LET s == From(Save(Logged(Begin, "WALLOP")), "WALLOP") IN
          Became(Restore(Logged(Show(s, "WALLOP", ifShown), Begin.level)),
                 "WALLOPS", <<"">>, <<"">>, FALSE)

\* p_topic(), p_invite(): of no level of their own.
PTopic ==
    /\ MessageMayArrive("TOPIC")
    /\ \E flag \in messageEnv.ignores, ifShown \in BOOLEAN :
          Became(IF flag = "IGNORED" THEN Begin ELSE Restore(Show(From(Save(Begin), Crap), Crap, ifShown)),
                 "TOPIC", <<"">>, <<"">>, FALSE)

\* p_quit(): on each channel, and then once.
PQuit ==
    /\ MessageMayArrive("QUIT")
    /\ \E flag \in messageEnv.ignores, onChannels \in BOOLEAN, ifShown \in BOOLEAN :
          LET s == Save(Begin)
              t == IF onChannels THEN From(s, Crap) ELSE s
          IN  Became(Restore(From(IF flag = "IGNORED" THEN s ELSE Show(t, Crap, onChannels /\ ifShown), "CURRENT")),
                     "QUIT", <<"">>, <<"">>, FALSE)

\* numbered_command(): a numeric with a case of its own, or any other, which a hook may take
\* (`goto done`, past the level for the lastlog).  For a channel, what was saved is restored
\* for the hook, and once more at the end, when nothing is left to restore but CRAP.
NumberedCommand ==
    /\ MessageMayArrive("NUMERIC")
    /\ \E other \in BOOLEAN, ofChannel \in BOOLEAN, taken \in BOOLEAN, as \in {Crap, "CURRENT"}, ifShown \in BOOLEAN :
          LET s == From(Save(Logged(Begin, Crap)), Crap)
              hooked == IF other /\ ofChannel THEN Restore(From(s, Crap)) ELSE s
              shown == Restore(Show(From(Save(hooked), as), as, ifShown))
          IN  Became(Restore(IF ~taken THEN Logged(shown, Begin.level)
                             ELSE IF other THEN hooked ELSE Logged(hooked, Begin.level)),
                     "NUMERIC", <<"">>, <<"">>, FALSE)

MessagesNext ==
    \/ PPrivmsg \/ ParseNotice \/ ParseNote \/ ParseServerNotice
    \/ PWall \/ PWallops \/ PTopic \/ PQuit \/ NumberedCommand
    \/ HandledWhole

MessagesSpec == MessagesInit /\ [][MessagesNext]_messagesVars

----------------------------------------------------------------------------
(* What is right of it.                                                    *)

\* "If you call this routine, you *must* call restore_message_from()" (window.c:1404): on
\* every path of every handler, through the CTCPs in it, what was saved is taken back; where
\* numbered_command() takes it back twice there is nothing else to take, since all handlers are
\* called from irc_io().  And what has a level of its own is shown in the windows of that level
\* and logged at it, whatever came before it in the same message, with two exceptions: notes
\* are shown as NOTICE, and the line that says that CTCPs flood, shown as CTCP, is logged at
\* the level of the message that held them (ctcp.c:710, without set_lastlog_msg_level()).
ShownAs(what) == CASE what = "NOTES" -> "NOTICE" [] what = "CTCP flood" -> "CTCP" [] OTHER -> what
LoggedAs(what) == IF what = "CTCP flood" THEN {"MSG", "WALL", "PUBLIC"} ELSE {what}
MessagesInPlace ==
    /\ whoSaved = <<>> /\ whoLevel = Crap
    /\ \A shown \in outcome.shown :
          /\ shown.who = ShownAs(shown.what)
          /\ shown.what \notin {Crap, "CURRENT"} => shown.level \in LoggedAs(shown.what)

\* Two clients never go on answering each other: what is sent for a CTCP is a NOTICE, and
\* nothing is sent for one that came in a NOTICE, by hooks neither.
NoAnswerToAnswers ==
    \A sent \in outcome.sent : sent.during # "message" => sent.during = "CTCP" /\ sent.as = "NOTICE"

Solid(text) == SelectSeq(text, LAMBDA piece : piece # "")

\* "Any such messages are removed from the original str" (ctcp.c:544): up to four pairs of
\* delimiters, from the left, go with what is between them; the rest is left as it was.
TextWithoutCtcps ==
    LET pieces == outcome.pieces
        pairs == (Len(pieces) - 1) \div 2
        k == IF outcome.kind = "NOTICE" /\ messageEnv.oneOnly THEN (IF pairs > 1 THEN 1 ELSE pairs)
             ELSE IF pairs > 4 /\ outcome.kind = "PRIVMSG" THEN 4 ELSE pairs
        left[i \in 0 .. k] == IF i = 0 THEN <<>> ELSE Append(left[i - 1], pieces[2 * i - 1])
        plain == \A i \in DOMAIN pieces : pieces[i] # "UTC"
    IN  ~outcome.ignored /\ plain =>
            Solid(outcome.text) = Solid(left[k] \o Joined(SubSeq(pieces, 2 * k + 1, Len(pieces))))

\* A message and what is taken out of it are each handled as what they are (parse.c, ctcp.c,
\* notice.c).
MessagesHold == MessagesInPlace /\ NoAnswerToAnswers /\ TextWithoutCtcps

\* SET LASTLOG_LEVEL: "CRAP  Anything not covered by the above categories"
\* (help/set/lastlog_level:37): what has no level of its own is logged as that.  The code
\* leaves the level as it was for a message that held CTCPs only, and for a flooding notice.
CrapIsCrap == \A shown \in outcome.shown : shown.what = Crap => shown.level = Crap

=============================================================================
