----------------------------- MODULE MCWindows ------------------------------
(* The windows of a screen on small instances: what each setting allows is  *)
(* tried with as many windows as TLC can afford.                            *)
EXTENDS Windows

Plain == [heights |-> {12}, grows |-> {}, moves |-> {}, doubles |-> {}, numbers |-> {},
          stacks |-> FALSE, biggest |-> FALSE, panes |-> 3, careful |-> TRUE]

\* Three windows that are moved and resized; stacked, on a terminal with room for two; numbered.
\* Two windows with status lines of every kind, on a terminal that changes its size; one that
\* shrinks below what its windows need.
Careful ==
    {[Plain EXCEPT !.grows = {1, -1}, !.moves = {1}],
     [Plain EXCEPT !.heights = {7}, !.stacks = TRUE, !.moves = {-1}],
     [Plain EXCEPT !.heights = {7}, !.numbers = {2, 4}],
     [Plain EXCEPT !.heights = {12, 9}, !.doubles = {1, 0, -1}, !.biggest = TRUE, !.panes = 2],
     [Plain EXCEPT !.heights = {12, 3}, !.panes = 2]}

\* What tells states apart: not the place a hidden window had, which is set anew when it is
\* shown and which nothing looks at before.
Seen ==
    <<[screen EXCEPT !.pane = [p \in Slots |-> IF IsHidden(screen, p) THEN [@[p] EXCEPT !.top = 0, !.bottom = 0, !.size = 0]
                                               ELSE @[p]]],
      local, windowEnv>>

Careless == {[Plain EXCEPT !.heights = {7}, !.careful = FALSE]}

=============================================================================
