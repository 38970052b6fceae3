------------------------------ MODULE Topology ------------------------------
(***************************************************************************)
(* The topology matrix (class topology, topology.hpp) as pure operators:    *)
(* cell [a, b] is the port of switch a that leads to switch b, 0 if none.   *)
(***************************************************************************)
EXTENDS Integers, FiniteSetsExt

CONSTANTS MAX_SWITCH_COUNT,   \* the matrix has rows 0 .. MAX_SWITCH_COUNT - 1
          MaxPort             \* ports are numbered from 1

ASSUME TopologyAssumption ==
    /\ MAX_SWITCH_COUNT \in Nat \ {0}
    /\ MaxPort \in Nat \ {0}

Ids == 0..(MAX_SWITCH_COUNT - 1)
Ports == 1..MaxPort

\* A line of the file, "ls:lp=rs:rp".
Link == [ls : Ids \ {0}, lp : Ports, rs : Ids \ {0}, rp : Ports]

Matrix == [Ids \X Ids -> 0..MaxPort]

clear == [c \in Ids \X Ids |-> 0]

\* Mutant: only the left switch learns its port.
SetLeftConnection(switches, l) == [switches EXCEPT ![<<l.ls, l.rs>>] = l.lp]

SetConnections(switches, l) ==
    [switches EXCEPT ![<<l.ls, l.rs>>] = l.lp, ![<<l.rs, l.ls>>] = l.rp]

None == [switch |-> 0, port |-> 0]

(* The first switch in the row of s that the port leads to. *)
GetConnection(switches, s, port) ==
    LET found == {i \in Ids : switches[<<s, i>>] = port}
    IN  IF found = {} THEN None
        ELSE [switch |-> Min(found), port |-> switches[<<Min(found), s>>]]
=============================================================================
