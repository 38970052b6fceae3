---------------------------- MODULE TrafficGate ----------------------------
(***************************************************************************)
(* What start_() and stop_() promise main(), without threads or mutexes:   *)
(* a switch that is off admits no packet, and of what was admitted before  *)
(* it was turned off at most one packet is still to come.                   *)
(***************************************************************************)
EXTENDS Integers

CONSTANT Switches

VARIABLES on,     \* started and not stopped
          owed,   \* packets admitted and not created yet
          late    \* packets created since the switch was turned off
vars == <<on, owed, late>>

Init ==
    /\ on = [s \in Switches |-> FALSE]
    /\ owed = [s \in Switches |-> 0]
    /\ late = [s \in Switches |-> 0]

Start(s) ==
    /\ ~on[s]
    /\ on' = [on EXCEPT ![s] = TRUE]
    /\ late' = [late EXCEPT ![s] = 0]
    /\ UNCHANGED owed

Stop(s) ==
    /\ on[s]
    /\ on' = [on EXCEPT ![s] = FALSE]
    /\ UNCHANGED <<owed, late>>

Admit(s) ==
    /\ on[s] /\ owed[s] = 0
    /\ owed' = [owed EXCEPT ![s] = 1]
    /\ UNCHANGED <<on, late>>

Create(s) ==
    /\ owed[s] = 1
    /\ owed' = [owed EXCEPT ![s] = 0]
    /\ late' = [late EXCEPT ![s] = IF on[s] THEN @ ELSE @ + 1]
    /\ UNCHANGED on

GiveUp(s) ==
    /\ owed[s] = 1
    /\ owed' = [owed EXCEPT ![s] = 0]
    /\ UNCHANGED <<on, late>>

Next == \E s \in Switches : Start(s) \/ Stop(s) \/ Admit(s) \/ Create(s) \/ GiveUp(s)

Spec == Init /\ [][Next]_vars
=============================================================================
