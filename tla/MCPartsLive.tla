----------------------------- MODULE MCPartsLive -----------------------------
(* What must happen in the end, for the WHOIS queue, DCC, /TIMER and the     *)
(* lines of a server.  They share nothing: the initial state chooses the     *)
(* part that a behaviour is of, and what the others have stays as it begins, *)
(* where nothing of theirs is fair.                                          *)
EXTENDS MCWhois, Dcc, Timers, Streams

CONSTANTS x, y

VARIABLE part

LiveVars == <<part, vars, dccVars, timersVars, streamsVars>>

\* Lines that come whole or by the character, behind a proxy or with TLS.
Greeting == [proxy |-> FALSE, tls |-> FALSE, greets |-> TRUE, cuts |-> 3, record |-> 9, careful |-> TRUE,
             closes |-> FALSE, lines |-> 2]
LiveStreams ==
    {Greeting, [Greeting EXCEPT !.proxy = TRUE, !.lines = 3],
     [Greeting EXCEPT !.tls = TRUE, !.record = 6, !.cuts = 1]}

\* The client of the other parts sets no timers, and their servers' connections are closed.
TimersIdle ==
    /\ timerLoop = "gone" /\ now = 0 /\ looked = 0 /\ deadline = 0
    /\ pendingTimers = <<>> /\ currentExecTimer = NoTimer
    /\ nextTimer = 1 /\ lastTimer = [what |-> "nothing", id |-> 0]
StreamsIdle ==
    /\ stage = "closed" /\ streamEnv = Greeting
    /\ wire = <<>> /\ socket = <<>> /\ tlsRest = <<>> /\ myio = <<>> /\ partial = <<>> /\ parsed = <<>>
    /\ written = 0 /\ ended = TRUE /\ connection = MaxConnections

LiveInit ==
    /\ Init /\ DccInit
    /\ part \in {"whois", "dcc", "timers", "streams"}
    /\ part # "whois" => online = {}
    /\ part # "dcc" => size = 0
    /\ IF part = "timers" THEN TimersInit ELSE TimersIdle
    /\ IF part = "streams" THEN StreamsInit ELSE StreamsIdle

LiveNext ==
    /\ UNCHANGED part
    /\ \/ part = "whois" /\ Next /\ UNCHANGED <<dccVars, timersVars, streamsVars>>
       \/ part = "dcc" /\ DccNext /\ UNCHANGED <<vars, timersVars, streamsVars>>
       \/ part = "timers" /\ TimersNext /\ UNCHANGED <<vars, dccVars, streamsVars>>
       \/ part = "streams" /\ StreamsNext /\ UNCHANGED <<vars, dccVars, timersVars>>

LiveSpec ==
    /\ LiveInit /\ [][LiveNext]_LiveVars
    /\ WhoisFairness /\ DccFairness /\ TimersFairness /\ StreamsFairness

=============================================================================
