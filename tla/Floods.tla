------------------------------- MODULE Floods -------------------------------
(***************************************************************************)
(* Protection against floods: the table of flood.c, that tells whether     *)
(* somebody's messages come too fast, and the limit on CTCP replies at the *)
(* end of do_ctcp() (ctcp.c), which is kept for each server; one is here.  *)
(*                                                                         *)
(* What came and what was sent is remembered, to say what is right of it.  *)
(***************************************************************************)
EXTENDS Naturals, Sequences, FiniteSets

CONSTANTS
    MaxNow,            \* bound: seconds
    MaxArrivals,       \* bound: messages and CTCP requests of one run
    FloodSettings      \* what kinds of run there are, a subset of FloodSetting

FloodNicks == {"a", "b", "c"}
FloodTypes == {"MSG", "PUBLIC"}

FloodSetting == [nicks: SUBSET FloodNicks, users: SUBSET (0 .. 3), after: Nat, rate: Nat,
                 bytes: SUBSET (Nat \ {0}), backlogs: SUBSET Nat, size: Nat, suspend: Nat,
                 noFloods: SUBSET BOOLEAN]

ASSUME FloodsAssumption ==
    /\ MaxNow \in Nat \ {0} /\ MaxArrivals \in Nat
    /\ FloodSettings \subseteq FloodSetting

VARIABLES
    now,               \* time(NULL); 0 is never
    flood,             \* the table: who is watched, none for a slot not used
    floodUsers, pos,   \* users, pos: its size, and the slot taken last
    limit,             \* ctcp_flood of a server
    backlogSeconds,    \* CTCP_REPLY_BACKLOG_SECONDS
    noFlood,           \* NO_CTCP_FLOOD
    came,              \* the messages that came, and what check_flooding() said of each
    requests,          \* the CTCP requests that came, and whether they were replied to
    changed,           \* the backlog was resized, or the limit switched, in this run
    floodEnv           \* the setting of this run, never changed

floodsVars == <<now, flood, floodUsers, pos, limit, backlogSeconds, noFlood, came, requests,
                changed, floodEnv>>

NobodyFlooding == [nick |-> "", type |-> "", cnt |-> 0, start |-> 0]
Flooding == [nick: FloodNicks \cup {""}, type: FloodTypes \cup {""}, cnt: Nat, start: 0 .. MaxNow]
CtcpFlood == [last: 0 .. MaxNow, flooded: 0 .. MaxNow, sizes: Seq(Nat)]

FloodsTypeOK ==
    /\ now \in 1 .. MaxNow
    /\ floodUsers \in 0 .. 3 /\ flood \in Seq(Flooding) /\ pos \in Nat
    /\ limit \in CtcpFlood
    /\ backlogSeconds \in Nat /\ noFlood \in BOOLEAN /\ changed \in BOOLEAN
    /\ Len(came) + Len(requests) <= MaxArrivals
    /\ floodEnv \in FloodSettings

\* ctcp_new_flood()
NewFlood(size) == [last |-> 0, flooded |-> 0, sizes |-> [i \in 1 .. size |-> 0]]

FloodsInit ==
    /\ now = 1
    /\ flood = <<>> /\ floodUsers = 0 /\ pos = 0
    /\ floodEnv \in FloodSettings
    /\ backlogSeconds \in floodEnv.backlogs \ {0} /\ noFlood \in floodEnv.noFloods
    /\ limit = NewFlood(backlogSeconds)
    /\ came = <<>> /\ requests = <<>> /\ changed = FALSE

Second ==
    /\ now < MaxNow /\ now' = now + 1
    /\ UNCHANGED <<flood, floodUsers, pos, limit, backlogSeconds, noFlood, came, requests, changed, floodEnv>>

MayArrive == Len(came) + Len(requests) < MaxArrivals

----------------------------------------------------------------------------
(* flood.c                                                                 *)

\* The table when FLOOD_USERS is users: a new one whenever it was changed.
TableOf(users) ==
    IF users = floodUsers THEN flood ELSE [i \in 1 .. users |-> NobodyFlooding]

SlotsOf(table, nick, type) == {i \in DOMAIN table : table[i].nick = nick /\ table[i].type = type}

\* Mutant: whoever takes over a slot goes on with the count of who had it.
TakenOverCounting(slot, nick, type) == [slot EXCEPT !.nick = nick, !.type = type, !.cnt = @ + 1]

\* Somebody not watched yet takes over a slot.
TakenOver(slot, nick, type) == [nick |-> nick, type |-> type, cnt |-> 1, start |-> now]

\* More than FLOOD_AFTER, and faster than FLOOD_RATE in a second.
TooFast(slot) ==
    LET diff == now - slot.start IN
    /\ slot.cnt > floodEnv.after
    /\ diff = 0 \/ slot.cnt \div diff > floodEnv.rate

\* Counted once more; the count starts again when it was slow.
Counted(slot) ==
    LET more == [slot EXCEPT !.cnt = @ + 1] IN
    IF more.cnt > floodEnv.after /\ ~TooFast(more)
    THEN [more EXCEPT !.cnt = 1, !.start = now] ELSE more

CheckFlooding(nick, type, users) ==
    LET table == TableOf(users)
        slots == SlotsOf(table, nick, type)
        at == CHOOSE i \in slots : \A j \in slots : i <= j
        said(flooding) == came' = Append(came, [nick |-> nick, type |-> type, at |-> now,
                                                flooding |-> flooding])
    IN
    /\ floodUsers' = users
    /\ IF users = 0
       THEN UNCHANGED <<flood, pos>> /\ said(FALSE)
       ELSE IF slots = {}
       THEN /\ pos' = (pos + 1) % users
            /\ flood' = [table EXCEPT ![pos' + 1] = TakenOver(@, nick, type)]
            /\ said(FALSE)
       ELSE /\ flood' = [table EXCEPT ![at] = Counted(@)]
            /\ said(TooFast([table[at] EXCEPT !.cnt = @ + 1]))
            /\ UNCHANGED pos

\* A message; FLOOD_USERS may have been set since the last.
MessageArrives ==
    /\ MayArrive
    /\ \E nick \in floodEnv.nicks, type \in FloodTypes, users \in floodEnv.users :
          CheckFlooding(nick, type, users)
    /\ UNCHANGED <<now, limit, backlogSeconds, noFlood, requests, changed, floodEnv>>

----------------------------------------------------------------------------
(* Replies to CTCP requests.                                               *)

TotalOf(s, n) == IF n = 0 \/ Len(s) = 0 THEN 0
                 ELSE LET sum[i \in 0 .. Len(s)] == IF i = 0 THEN 0 ELSE sum[i - 1] + s[i]
                      IN sum[IF n < Len(s) THEN n ELSE Len(s)]

\* The bytes of each of the last seconds, the present one first, with a reply of these bytes.
Sizes(sizes, delta, bytes) ==
    [i \in DOMAIN sizes |->
        (IF i > delta THEN sizes[i - delta] ELSE 0) + (IF i = 1 THEN bytes ELSE 0)]

\* As much was asked for in the last seconds as the limit is.
Flooded(sizes) == TotalOf(sizes, backlogSeconds) >= floodEnv.size

\* The end of do_ctcp(), when there is something to reply.
Reply(bytes) ==
    LET delta == IF limit.last = 0 THEN 0 ELSE now - limit.last
        sizes == Sizes(limit.sizes, delta, bytes)
        flooded == IF Flooded(sizes) THEN now ELSE limit.flooded
        noReply == flooded # 0 /\ now <= flooded + floodEnv.suspend
        sends == ~noFlood \/ ~noReply
    IN
    /\ limit' = [last |-> now, flooded |-> IF sends THEN 0 ELSE flooded, sizes |-> sizes]
    /\ requests' = Append(requests, [at |-> now, bytes |-> bytes, sent |-> sends])

RequestArrives ==
    /\ MayArrive
    /\ \E bytes \in floodEnv.bytes : Reply(bytes)
    /\ UNCHANGED <<now, flood, floodUsers, pos, backlogSeconds, noFlood, came, changed, floodEnv>>

\* ctcp_reply_backlog_change(), and ctcp_refresh_flood() of every server.
SetBacklogSeconds ==
    /\ \E seconds \in floodEnv.backlogs \ {backlogSeconds} :
          LET size == IF seconds = 0 THEN 1 ELSE seconds IN
          /\ backlogSeconds' = seconds
          /\ limit' = [limit EXCEPT !.sizes =
                          [i \in 1 .. size |-> IF i <= Len(limit.sizes) THEN limit.sizes[i] ELSE 0]]
    /\ changed' = TRUE
    /\ UNCHANGED <<now, flood, floodUsers, pos, noFlood, came, requests, floodEnv>>

SetNoCtcpFlood ==
    /\ \E on \in floodEnv.noFloods \ {noFlood} : noFlood' = on
    /\ changed' = TRUE
    /\ UNCHANGED <<now, flood, floodUsers, pos, limit, backlogSeconds, came, requests, floodEnv>>

FloodsNext == Second \/ MessageArrives \/ RequestArrives \/ SetBacklogSeconds \/ SetNoCtcpFlood

FloodsSpec == FloodsInit /\ [][FloodsNext]_floodsVars

----------------------------------------------------------------------------
(* What is right of it.                                                    *)

\* "If messages from a user outpace FLOOD_RATE for FLOOD_AFTER number of messages, ON FLOOD
\* is activated" (help/set/flood_rate:11): of whom it is activated, that many messages of the
\* same type really came, and came that fast, whoever's slot of the table theirs was before.
FloodIsFlood ==
    \A m \in DOMAIN came :
        LET same(from) == {k \in 1 .. m : came[k].nick = came[m].nick /\ came[k].type = came[m].type
                                          /\ came[k].at >= from}
        IN  came[m].flooding =>
               \E from \in 1 .. came[m].at :
                   /\ Cardinality(same(from)) > floodEnv.after
                   /\ Cardinality(same(from)) > floodEnv.rate * (came[m].at - from)

Bytes(ks) == LET n == Len(requests)
                 sum[i \in 0 .. n] == IF i = 0 THEN 0
                                      ELSE sum[i - 1] + (IF i \in ks THEN requests[i].bytes ELSE 0)
             IN sum[n]

\* "Each time you are requested to send more than CTCP_REPLY_FLOOD_SIZE bytes in
\* CTCP_REPLY_BACKLOG_SECONDS no ctcp replies will be done for CTCP_REPLY_IGNORE_SECONDS.
\* This is a sliding window" (help/set/ctcp_reply_flood_size): while the limit is on, and its
\* length is not changed, a reply is sent if and only if no time near enough was asked for so
\* much, wherever the boundaries of the seconds are and whether or not it was replied to.
RepliesAreLimited ==
    \A k \in DOMAIN requests :
        LET window(j) == {i \in 1 .. j : requests[i].at + backlogSeconds > requests[j].at}
            over(j) == Bytes(window(j)) >= floodEnv.size
        IN  noFlood /\ ~changed =>
              (requests[k].sent <=>
                  \A j \in 1 .. k : over(j) => requests[k].at > requests[j].at + floodEnv.suspend)

\* Both limits count what came, and only that: the slots and rings they count in are used again
\* for other users and other seconds (flood.c, ctcp.c).
FloodsCounted == FloodIsFlood /\ RepliesAreLimited

=============================================================================
