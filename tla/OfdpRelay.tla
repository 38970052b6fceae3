----------------------------- MODULE OfdpRelay -----------------------------
(***************************************************************************)
(* Topology discovery: main loads topology.ini into the matrix before any   *)
(* switch exists; later the controller probes a port of a switch with an    *)
(* OFDP packet-out, and the communication thread of that switch answers     *)
(* with the packet-in that the neighbour would send (process_packet,        *)
(* packets.hpp).                                                            *)
(***************************************************************************)
EXTENDS Topology, Sequences

CONSTANT MaxLines    \* bound: lines of topology.ini

ASSUME RelayAssumption == MaxLines \in Nat

VARIABLES
    loading,         \* main is in LoadFromFile
    file,            \* the lines loaded so far
    switches,        \* the matrix
    connected,       \* switches connected to the controller
    learned          \* what the controller saw: probed switch and port, and the
                     \* connection and in_port of the packet-in that came back
vars == <<loading, file, switches, connected, learned>>

Switch == Ids \ {0}

PortsOf(l) == {<<l.ls, l.lp>>, <<l.rs, l.rp>>}
PortsUsed == UNION {PortsOf(file[k]) : k \in DOMAIN file}

Init ==
    /\ loading = TRUE
    /\ file = << >>
    /\ switches = clear
    /\ connected = {}
    /\ learned = {}

(* One line.  Every port is used once in a file and no line joins two       *)
(* different ports of one switch (environment); a line without "=" is read   *)
(* as its own right side (find() returns npos, which passes the test > 0).    *)
LoadLine(l) ==
    /\ loading /\ Len(file) < MaxLines
    /\ PortsOf(l) \cap PortsUsed = {}
    /\ l.ls = l.rs => l.lp = l.rp
    /\ file' = Append(file, l)
    /\ switches' = SetConnections(switches, l)
    /\ UNCHANGED <<loading, connected, learned>>

EndOfFile ==
    /\ loading
    /\ loading' = FALSE
    /\ UNCHANGED <<file, switches, connected, learned>>

Connect(s) ==
    /\ ~loading /\ s \notin connected
    /\ connected' = connected \cup {s}
    /\ UNCHANGED <<loading, file, switches, learned>>

(* The last argument of packet_sender(buf, size, 1). *)
RelaySwitch(remote) == 1

\* Mutant: a probe of a port without a neighbour is answered, too.
Always(remote) == TRUE

HasNeighbour(remote) == remote.switch # 0 /\ remote.port # 0

(* OFPT_PACKET_OUT with an OFDP packet for a port of s; port 0 stands for a   *)
(* packet-out without an output action.                                       *)
ProcessPacketOut(s, port) ==
    LET remote == GetConnection(switches, s, port)
        via    == RelaySwitch(remote)
    IN  /\ s \in connected
        /\ learned' =
             IF HasNeighbour(remote) /\ via \in connected
             THEN learned \cup {[switch |-> s, port |-> port,
                                 via |-> via, in_port |-> remote.port]}
             ELSE learned
        /\ UNCHANGED <<loading, file, switches, connected>>

Next == \/ \E l \in Link : LoadLine(l)
        \/ EndOfFile
        \/ \E s \in Switch : Connect(s) \/ \E p \in 0..MaxPort : ProcessPacketOut(s, p)

Spec == Init /\ [][Next]_vars

-----------------------------------------------------------------------------
(* Types of all variables. *)
TypeOK ==
    /\ loading \in BOOLEAN
    /\ file \in Seq(Link)
    /\ switches \in Matrix
    /\ connected \subseteq Switch
    /\ learned \subseteq [switch : Switch, port : Ports, via : Switch, in_port : Ports]

\* Of several lines that join the same two switches the last one counts.
InForce(k) ==
    \A m \in DOMAIN file : m > k =>
        {file[m].ls, file[m].rs} # {file[k].ls, file[k].rs}

(* A lookup finds the other end of the line that names the port, from both    *)
(* ends, and nothing for a port no line in force names: a later line never    *)
(* damages one between other switches.                                        *)
LookupFollowsFile ==
    \A s \in Switch, p \in Ports :
        LET ends == {[switch |-> file[k].rs, port |-> file[k].rp] :
                        k \in {m \in DOMAIN file : InForce(m) /\ file[m].ls = s /\ file[m].lp = p}}
                    \cup
                    {[switch |-> file[k].ls, port |-> file[k].lp] :
                        k \in {m \in DOMAIN file : InForce(m) /\ file[m].rs = s /\ file[m].rp = p}}
        IN  IF ends = {} THEN GetConnection(switches, s, p) = None
            ELSE ends = {GetConnection(switches, s, p)}
=============================================================================
