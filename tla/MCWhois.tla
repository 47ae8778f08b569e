------------------------------ MODULE MCWhois ------------------------------
(* Whois for two people, whose order in the notify list is their order here, *)
(* and the settings the runs look at.                                        *)
EXTENDS Whois

CONSTANTS a, b

MCAlphabet == <<a, b>>

\* A server that knows everything; nobody comes or goes, nothing breaks.
Calm == [asks |-> {"message", "userhost", "ison_now", "WHOIS"}, most |-> 3,
         ends |-> TRUE, knows |-> {"ISON", "USERHOST"}, distinct |-> FALSE,
         primary |-> TRUE, handler |-> "noisy",
         restless |-> FALSE, breaks |-> TRUE, disturbed |-> FALSE]

\* The same with every kind of request.
Modern == [Calm EXCEPT !.asks = AllQuestions \ {"whois_notify", "quote USERHOST"},
                       !.restless = TRUE]

\* A server without 318.
Ancient == [Modern EXCEPT !.asks = {"message", "ison_now", "WHOIS"}, !.ends = FALSE,
                          !.breaks = FALSE]

\* A server other than the primary one, and nobody asked about twice at a time.
Second == [Modern EXCEPT !.asks = {"message", "userhost", "ison_now"},
                         !.most = 4, !.distinct = TRUE, !.primary = FALSE]

\* A server that knows neither ISON nor USERHOST, and a client that cleans
\* the queue when another server is closed.
Ignorant == [Modern EXCEPT !.asks = AllQuestions, !.most = 2, !.knows = {},
                           !.disturbed = TRUE]

Everything == {Modern, Ancient, Second, Ignorant, [Modern EXCEPT !.most = 2,
               !.handler = "old", !.disturbed = TRUE]}
OnlyCalm == {Calm}
=============================================================================
