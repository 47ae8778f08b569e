------------------------------- MODULE MCParts -------------------------------
(* The small components, each on its small instances.  They share nothing:  *)
(* the initial state chooses the part that a behaviour is of, and what the  *)
(* others have stays as it begins.                                          *)
EXTENDS Paging, Exec

VARIABLE part

vars == <<part, pagingVars, execVars>>

PagingSettingsAll == PagingSetting

\* One process that writes anything; two that end in any order; pids used again.
ExecSettingsAll ==
    {[starts |-> 1, pieces |-> 2, kinds |-> Piece, limits |-> {0, 1}, fails |-> TRUE, reuse |-> FALSE],
     [starts |-> 1, pieces |-> 3, kinds |-> Piece, limits |-> {1}, fails |-> FALSE, reuse |-> FALSE],
     [starts |-> 2, pieces |-> 1, kinds |-> {"line"}, limits |-> {0}, fails |-> FALSE, reuse |-> FALSE],
     [starts |-> 2, pieces |-> 0, kinds |-> {}, limits |-> {0}, fails |-> FALSE, reuse |-> TRUE],
     [starts |-> 0, pieces |-> 0, kinds |-> {}, limits |-> {0}, fails |-> FALSE, reuse |-> FALSE]}

PagingIdle ==
    /\ pagingEnv = [careful |-> FALSE, elsewhere |-> FALSE]
    /\ ~win.holdMode /\ holdModeMax = 0 /\ lastlogMax = 1
ExecIdle == execEnv.starts = 0

Init ==
    /\ PagingInit /\ ExecInit
    /\ \/ part = "paging" /\ ExecIdle
       \/ part = "exec" /\ PagingIdle /\ ~ExecIdle

Next ==
    /\ UNCHANGED part
    /\ \/ part = "paging" /\ PagingNext /\ UNCHANGED execVars
       \/ part = "exec" /\ ExecNext /\ UNCHANGED pagingVars

Spec == Init /\ [][Next]_vars

=============================================================================
