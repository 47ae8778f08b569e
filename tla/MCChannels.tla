----------------------------- MODULE MCChannels -----------------------------
(* Channels.tla on small instances; each setting is a run of its own. *)
EXTENDS Channels

PlainSettings ==
    {[split |-> s, leaves |-> l, loses |-> o, impatient |-> FALSE] : s, l, o \in BOOLEAN}

\* The impatient user needs nothing else to go wrong.
AllSettings ==
    PlainSettings
    \cup {[split |-> FALSE, leaves |-> FALSE, loses |-> FALSE, impatient |-> TRUE]}

=============================================================================
