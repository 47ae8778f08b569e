-------------------------------- MODULE Alarms --------------------------------
(***************************************************************************)
(* What /TIMER promises: a command that is put off runs once and not       *)
(* before its time, the earliest first and those of one time in the order  *)
(* they were given, unless it is taken back before it runs.  How they are  *)
(* kept, and when the program looks at them, is for Timers.                *)
(***************************************************************************)
EXTENDS Naturals

VARIABLES
    clock,             \* the time
    armed,             \* what is put off: a set of [id, due]
    fresh,             \* the id of the next one
    last               \* what happened last to any of them: [what, id]

alarmVars == <<clock, armed, fresh, last>>

Before(a, b) == a.due < b.due \/ (a.due = b.due /\ a.id < b.id)

AlarmsInit == clock \in Nat /\ armed = {} /\ fresh = 1 /\ last = [what |-> "nothing", id |-> 0]

Advance == clock < clock' /\ UNCHANGED <<armed, fresh, last>>

Arm ==
    /\ \E a \in armed' : a.id = fresh /\ clock <= a.due /\ armed' = armed \cup {a}
    /\ last' = [what |-> "armed", id |-> fresh]
    /\ fresh' = fresh + 1
    /\ UNCHANGED clock

Cancel ==
    /\ \E a \in armed :
          /\ armed' = armed \ {a}
          /\ last' = [what |-> "taken", id |-> a.id]
    /\ UNCHANGED <<clock, fresh>>

Fire ==
    /\ \E a \in armed :
          /\ a.due <= clock
          /\ \A b \in armed \ {a} : Before(a, b)
          /\ armed' = armed \ {a}
          /\ last' = [what |-> "fired", id |-> a.id]
    /\ UNCHANGED <<clock, fresh>>

AlarmsNext == Advance \/ Arm \/ Cancel \/ Fire

AlarmsSpec == AlarmsInit /\ [][AlarmsNext]_alarmVars

=============================================================================
