-------------------------- MODULE OfdpRelayProofs --------------------------
(***************************************************************************)
(* Theorems about Topology and OfdpRelay for any number of switches, ports  *)
(* and lines: types, and that lookups in the matrix follow the file it was  *)
(* loaded from.                                                             *)
(***************************************************************************)
EXTENDS OfdpRelay, WellFoundedInduction, TLAPS

\* A line between switches a and b, from either side.
Joins(l, a, b) == (l.ls = a /\ l.rs = b) \/ (l.ls = b /\ l.rs = a)

\* The port by which line l leaves switch a for b is p.
Leads(l, a, b, p) ==
    (l.ls = a /\ l.rs = b /\ l.lp = p) \/ (l.rs = a /\ l.ls = b /\ l.rp = p)

\* What is known of a file: each port occurs in one line only.
FileInv ==
    /\ file \in Seq(Link) /\ switches \in Matrix
    /\ \A k, m \in DOMAIN file : k # m => PortsOf(file[k]) \cap PortsOf(file[m]) = {}
    /\ \A k \in DOMAIN file : file[k].ls = file[k].rs => file[k].lp = file[k].rp

(* The matrix holds the lines in force, from both ends, and nothing else.  *)
MatrixInv ==
    /\ \A k \in DOMAIN file : InForce(k) =>
         /\ switches[<<file[k].ls, file[k].rs>>] = file[k].lp
         /\ switches[<<file[k].rs, file[k].ls>>] = file[k].rp
    /\ \A a, b \in Ids : switches[<<a, b>>] # 0 =>
         \E k \in DOMAIN file : InForce(k) /\ Leads(file[k], a, b, switches[<<a, b>>])

RelayInv == FileInv /\ MatrixInv

-----------------------------------------------------------------------------
LEMMA LinkType ==
    ASSUME NEW l \in Link
    PROVE  l.ls \in Ids /\ l.rs \in Ids /\ l.lp \in Ports /\ l.rp \in Ports
  BY DEF Link

LEMMA PortType == 0 \notin Ports /\ Ports \subseteq 0..MaxPort /\ 0 \in 0..MaxPort
  BY TopologyAssumption DEF Ports

LEMMA RelayInit == Init => RelayInv
<1> SUFFICES ASSUME Init PROVE RelayInv
  OBVIOUS
<1>1. file = << >> /\ switches = [c \in Ids \X Ids |-> 0]
  BY DEF Init, clear
<1>2. switches \in Matrix /\ \A a, b \in Ids : switches[<<a, b>>] = 0
  BY <1>1, PortType DEF Matrix
<1> QED
  BY <1>1, <1>2 DEF RelayInv, FileInv, MatrixInv

\* One more line in the file.
LEMMA FileStep == ASSUME FileInv, NEW l \in Link, LoadLine(l) PROVE FileInv'
<1> DEFINE n == Len(file)
<1>1. /\ n \in Nat /\ DOMAIN file = 1..n /\ DOMAIN file' = 1..(n + 1)
      /\ file' \in Seq(Link)
      /\ file'[n + 1] = l /\ \A k \in 1..n : file'[k] = file[k]
  BY DEF LoadLine, FileInv
<1>2. switches' \in Matrix
  BY LinkType, PortType DEF LoadLine, SetConnections, FileInv, Matrix
<1>3. \A k \in 1..n : PortsOf(l) \cap PortsOf(file[k]) = {}
  BY <1>1 DEF LoadLine, PortsUsed
<1>4. l.ls = l.rs => l.lp = l.rp
  BY DEF LoadLine
<1> HIDE DEF n
<1>5. \A k \in 1..(n + 1) : k = n + 1 \/ k \in 1..n
  BY <1>1
<1>6. \A k, m \in 1..(n + 1) : k # m => PortsOf(file'[k]) \cap PortsOf(file'[m]) = {}
  BY <1>1, <1>3, <1>5 DEF FileInv
<1>7. \A k \in 1..(n + 1) : file'[k].ls = file'[k].rs => file'[k].lp = file'[k].rp
  BY <1>1, <1>4, <1>5 DEF FileInv
<1>8. \A k, m \in DOMAIN file' : k # m => (PortsOf(file[k]) \cap PortsOf(file[m]))' = {}
  BY <1>1, <1>6 DEF PortsOf
<1> QED
  BY <1>1, <1>2, <1>7, <1>8 DEF FileInv

LEMMA MatrixStep ==
    ASSUME FileInv, MatrixInv, NEW l \in Link, LoadLine(l)
    PROVE  MatrixInv'
<1>0. PICK n \in Nat : n = Len(file)
  BY DEF FileInv
<1>1. /\ DOMAIN file = 1..n /\ DOMAIN file' = 1..(n + 1)
      /\ file'[n + 1] = l /\ \A k \in 1..n : file'[k] = file[k] /\ file[k] \in Link
  BY <1>0 DEF LoadLine, FileInv
<1>2. l.ls \in Ids /\ l.rs \in Ids /\ (l.ls = l.rs => l.lp = l.rp)
  BY LinkType DEF LoadLine
<1>3. /\ switches'[<<l.ls, l.rs>>] = l.lp /\ switches'[<<l.rs, l.ls>>] = l.rp
      /\ \A a, b \in Ids : ~Joins(l, a, b) => switches'[<<a, b>>] = switches[<<a, b>>]
  BY <1>2 DEF LoadLine, SetConnections, FileInv, Matrix, Joins
\* The new line is in force; of the others those between other switches.
<1>4. InForce(n + 1)'
  BY <1>1 DEF InForce
<1>5. ASSUME NEW k \in 1..n
      PROVE  InForce(k)' <=> InForce(k) /\ ~Joins(l, file[k].ls, file[k].rs)
  <2>1. {l.ls, l.rs} # {file[k].ls, file[k].rs} <=> ~Joins(l, file[k].ls, file[k].rs)
    BY DEF Joins
  <2>2. \A m \in 1..(n + 1) : m = n + 1 \/ m \in 1..n
    BY <1>1
  <2>3. n + 1 > k /\ n + 1 \in 1..(n + 1) /\ 1..n \subseteq 1..(n + 1)
    BY <1>1
  <2>4. InForce(k)' <=> \A m \in 1..(n + 1) : m > k =>
                           {file'[m].ls, file'[m].rs} # {file[k].ls, file[k].rs}
    BY <1>1 DEF InForce
  <2>5. InForce(k) <=> \A m \in 1..n : m > k =>
                           {file[m].ls, file[m].rs} # {file[k].ls, file[k].rs}
    BY <1>1 DEF InForce
  <2> QED
    BY <1>1, <2>1, <2>2, <2>3, <2>4, <2>5
<1>6. ASSUME NEW k \in 1..(n + 1), InForce(k)'
      PROVE  /\ switches'[<<file'[k].ls, file'[k].rs>>] = file'[k].lp
             /\ switches'[<<file'[k].rs, file'[k].ls>>] = file'[k].rp
  <2>1. CASE k = n + 1
    BY <1>1, <1>3, <2>1
  <2>2. CASE k \in 1..n
    <3>1. InForce(k) /\ ~Joins(l, file[k].ls, file[k].rs) /\ file'[k] = file[k]
      BY <1>1, <1>5, <1>6, <2>2
    <3>2. ~Joins(l, file[k].rs, file[k].ls)
      BY <3>1 DEF Joins
    <3>3. file[k].ls \in Ids /\ file[k].rs \in Ids
      BY <1>1, <2>2, LinkType
    <3> QED
      BY <1>1, <1>3, <2>2, <3>1, <3>2, <3>3 DEF MatrixInv
  <2> QED
    BY <1>1, <2>1, <2>2
<1>7. ASSUME NEW a \in Ids, NEW b \in Ids, switches'[<<a, b>>] # 0
      PROVE  \E k \in 1..(n + 1) : InForce(k)' /\ Leads(file'[k], a, b, switches'[<<a, b>>])
  <2>1. CASE Joins(l, a, b)
    <3>1. Leads(l, a, b, switches'[<<a, b>>])
      BY <1>3, <2>1 DEF Joins, Leads
    <3>2. n + 1 \in 1..(n + 1)
      BY <1>1
    <3> QED
      BY <1>1, <1>4, <3>1, <3>2
  <2>2. CASE ~Joins(l, a, b)
    <3>1. switches'[<<a, b>>] = switches[<<a, b>>]
      BY <1>3, <2>2
    <3>2. PICK k \in 1..n : InForce(k) /\ Leads(file[k], a, b, switches[<<a, b>>])
      BY <1>1, <1>7, <3>1 DEF MatrixInv
    <3>3. ~Joins(l, file[k].ls, file[k].rs)
      BY <2>2, <3>2 DEF Joins, Leads
    <3>4. InForce(k)' /\ file'[k] = file[k] /\ k \in 1..(n + 1)
      BY <1>1, <1>5, <3>2, <3>3
    <3> QED
      BY <3>1, <3>2, <3>4
  <2> QED
    BY <2>1, <2>2
<1>8. \A k \in DOMAIN file' : InForce(k)' =>
        /\ switches'[<<file'[k].ls, file'[k].rs>>] = file'[k].lp
        /\ switches'[<<file'[k].rs, file'[k].ls>>] = file'[k].rp
  BY <1>1, <1>6
<1>9. \A a, b \in Ids : switches'[<<a, b>>] # 0 =>
        \E k \in DOMAIN file' : InForce(k)' /\ Leads(file'[k], a, b, switches'[<<a, b>>])
  BY <1>1, <1>7
<1> QED
  BY <1>8, <1>9 DEF MatrixInv, Leads

LEMMA RelayStep == RelayInv /\ [Next]_vars => RelayInv'
<1> SUFFICES ASSUME RelayInv, [Next]_vars PROVE RelayInv'
  OBVIOUS
<1>1. ASSUME NEW l \in Link, LoadLine(l)
      PROVE  RelayInv'
  BY <1>1, FileStep, MatrixStep DEF RelayInv
<1>2. ASSUME UNCHANGED <<file, switches>>
      PROVE  RelayInv'
  BY <1>2 DEF RelayInv, FileInv, MatrixInv, InForce
<1> QED
  BY <1>1, <1>2 DEF Next, EndOfFile, Connect, ProcessPacketOut, vars

-----------------------------------------------------------------------------
(* One lookup.  A line in force that names port p of s is the only line that  *)
(* does, so its cell is the only one of the row with p in it.                 *)
LEMMA LookupOfLine ==
    ASSUME RelayInv, NEW s \in Switch, NEW p \in Ports, NEW k \in DOMAIN file, InForce(k),
           NEW t \in Ids, NEW q \in Ports,
           \/ file[k].ls = s /\ file[k].lp = p /\ file[k].rs = t /\ file[k].rp = q
           \/ file[k].rs = s /\ file[k].rp = p /\ file[k].ls = t /\ file[k].lp = q
    PROVE  GetConnection(switches, s, p) = [switch |-> t, port |-> q]
<1> DEFINE found == {i \in Ids : switches[<<s, i>>] = p}
<1>1. s \in Ids /\ p # 0
  BY PortType DEF Switch
<1>2. switches[<<s, t>>] = p /\ switches[<<t, s>>] = q
  BY DEF RelayInv, MatrixInv
<1>3. ASSUME NEW i \in Ids, switches[<<s, i>>] = p
      PROVE  i = t
  <2>1. PICK m \in DOMAIN file : Leads(file[m], s, i, p)
    BY <1>1, <1>3 DEF RelayInv, MatrixInv
  <2>2. <<s, p>> \in PortsOf(file[m]) /\ <<s, p>> \in PortsOf(file[k])
    BY <2>1 DEF Leads, PortsOf
  <2>3. m = k
    BY <2>2 DEF RelayInv, FileInv
  <2> QED
    BY <2>1, <2>3 DEF Leads
<1>4. found = {t}
  BY <1>2, <1>3
<1>5. Min(found) = t
  <2>1. t \in Nat
    BY TopologyAssumption DEF Ids
  <2> HIDE DEF found
  <2> QED
    BY <1>4, <2>1 DEF Min
<1> HIDE DEF found
<1>6. GetConnection(switches, s, p) =
        IF found = {} THEN None ELSE [switch |-> Min(found), port |-> switches[<<Min(found), s>>]]
  BY DEF GetConnection, found
<1> QED
  BY <1>2, <1>4, <1>5, <1>6

LEMMA LookupOfNoLine ==
    ASSUME RelayInv, NEW s \in Switch, NEW p \in Ports,
           \A k \in DOMAIN file : InForce(k) => /\ ~(file[k].ls = s /\ file[k].lp = p)
                                                /\ ~(file[k].rs = s /\ file[k].rp = p)
    PROVE  GetConnection(switches, s, p) = None
<1>1. s \in Ids /\ p # 0
  BY PortType DEF Switch
<1>2. \A i \in Ids : switches[<<s, i>>] # p
  BY <1>1 DEF RelayInv, MatrixInv, Leads
<1> QED
  BY <1>2 DEF GetConnection

LEMMA LookupInv == RelayInv => LookupFollowsFile
<1> SUFFICES ASSUME RelayInv, NEW s \in Switch, NEW p \in Ports
             PROVE  LET ends == {[switch |-> file[k].rs, port |-> file[k].rp] :
                                   k \in {m \in DOMAIN file : InForce(m) /\ file[m].ls = s /\ file[m].lp = p}}
                                \cup
                                {[switch |-> file[k].ls, port |-> file[k].lp] :
                                   k \in {m \in DOMAIN file : InForce(m) /\ file[m].rs = s /\ file[m].rp = p}}
                    IN  IF ends = {} THEN GetConnection(switches, s, p) = None
                        ELSE ends = {GetConnection(switches, s, p)}
  BY DEF LookupFollowsFile
<1> DEFINE right == {m \in DOMAIN file : InForce(m) /\ file[m].ls = s /\ file[m].lp = p}
           left  == {m \in DOMAIN file : InForce(m) /\ file[m].rs = s /\ file[m].rp = p}
           ends  == {[switch |-> file[k].rs, port |-> file[k].rp] : k \in right}
                    \cup {[switch |-> file[k].ls, port |-> file[k].lp] : k \in left}
<1>1. \A k \in DOMAIN file : /\ file[k].ls \in Ids /\ file[k].rs \in Ids
                             /\ file[k].lp \in Ports /\ file[k].rp \in Ports
  BY LinkType DEF RelayInv, FileInv
<1>2. ASSUME NEW e \in ends
      PROVE  e = GetConnection(switches, s, p)
  <2>1. CASE \E k \in right : e = [switch |-> file[k].rs, port |-> file[k].rp]
    BY <1>1, <2>1, LookupOfLine
  <2>2. CASE \E k \in left : e = [switch |-> file[k].ls, port |-> file[k].lp]
    BY <1>1, <2>2, LookupOfLine
  <2> QED
    BY <2>1, <2>2
<1>3. ends = {} => GetConnection(switches, s, p) = None
  <2>1. ends = {} => right = {} /\ left = {}
    OBVIOUS
  <2> QED
    BY <2>1, LookupOfNoLine
<1> HIDE DEF ends
<1>4. IF ends = {} THEN GetConnection(switches, s, p) = None
      ELSE ends = {GetConnection(switches, s, p)}
  BY <1>2, <1>3
<1> QED
  BY <1>4 DEF ends

(* A lookup finds the other end of the line that names the port, from either  *)
(* end, however many lines have been entered since and however they overwrite *)
(* each other's cells.                                                        *)
THEOREM LookupsAreRight == Spec => []LookupFollowsFile
  BY RelayInit, RelayStep, LookupInv, PTL DEF Spec

-----------------------------------------------------------------------------
(* The types.  A lookup of port 0 finds the first empty cell of the row, that *)
(* of switch 0, which is no switch.                                           *)
LEMMA ColumnOfNoSwitch ==
    ASSUME RelayInv, NEW s \in Switch
    PROVE  GetConnection(switches, s, 0).switch = 0
<1> DEFINE found == {i \in Ids : switches[<<s, i>>] = 0}
<1>1. s \in Ids /\ 0 \in Ids
  BY TopologyAssumption DEF Switch, Ids
<1>2. \A k \in DOMAIN file : file[k].ls # 0 /\ file[k].rs # 0
  <2>1. \A k \in DOMAIN file : file[k] \in Link
    BY DEF RelayInv, FileInv
  <2>2. ASSUME NEW l \in Link PROVE l.ls # 0 /\ l.rs # 0
    BY DEF Link
  <2> QED
    BY <2>1, <2>2
<1>3. switches[<<s, 0>>] = 0
  BY <1>1, <1>2 DEF RelayInv, MatrixInv, Leads
<1>4. 0 \in found /\ \A i \in found : 0 <= i /\ i \in Nat
  BY <1>1, <1>3, TopologyAssumption DEF Ids
<1> HIDE DEF found
<1>5. Min(found) = 0
  BY <1>4 DEF Min
<1>6. found # {} /\ GetConnection(switches, s, 0) =
        IF found = {} THEN None ELSE [switch |-> Min(found), port |-> switches[<<Min(found), s>>]]
  BY <1>4 DEF GetConnection, found
<1> QED
  BY <1>5, <1>6

\* A nonempty set of numbers has a least one, so that Min() is what it says.
Below == {pair \in Nat \X Nat : pair[1] < pair[2]}

LEMMA SmallestOf ==
    ASSUME NEW S, S \subseteq Nat, S # {}
    PROVE  \E m \in S : \A i \in S : m <= i
<1>1. IsWellFoundedOn(Below, Nat)
  BY NatLessThanWellFounded DEF OpToRel, Below
<1>2. PICK m \in S : \A i \in S : ~(<<i, m>> \in Below)
  BY <1>1, WFMin
<1>3. ASSUME NEW i \in S
      PROVE  m <= i
  <2>1. m \in Nat /\ i \in Nat /\ <<i, m>> \in Nat \X Nat
    OBVIOUS
  <2>2. <<i, m>>[1] = i /\ <<i, m>>[2] = m
    OBVIOUS
  <2>3. ~(i < m)
    BY <1>2, <2>1, <2>2 DEF Below
  <2> QED
    BY <2>1, <2>3
<1> QED
  BY <1>3

LEMMA PortOfNeighbour ==
    ASSUME RelayInv, NEW s \in Switch, NEW p \in 0..MaxPort,
           HasNeighbour(GetConnection(switches, s, p))
    PROVE  GetConnection(switches, s, p).port \in Ports
<1> DEFINE found == {i \in Ids : switches[<<s, i>>] = p}
<1>1. s \in Ids /\ found \subseteq Nat /\ found \subseteq Ids
  BY TopologyAssumption DEF Switch, Ids
<1>2. GetConnection(switches, s, p) =
        IF found = {} THEN None ELSE [switch |-> Min(found), port |-> switches[<<Min(found), s>>]]
  BY DEF GetConnection
<1> HIDE DEF found
<1>3. found # {}
  BY <1>2 DEF HasNeighbour, None
<1>4. Min(found) \in found
  <2>1. PICK m \in found : \A i \in found : m <= i
    <3>1. \E m \in found : \A i \in found : m <= i
      BY <1>1, <1>3, SmallestOf
    <3> QED
      BY <3>1
  <2> QED
    BY <2>1 DEF Min
<1>5. switches[<<Min(found), s>>] \in 0..MaxPort
  BY <1>1, <1>4 DEF RelayInv, FileInv, Matrix
<1> QED
  BY <1>2, <1>3, <1>5, TopologyAssumption DEF HasNeighbour, Ports

LEMMA TypeInit == Init => TypeOK
<1>1. ASSUME Init PROVE switches \in Matrix
  BY <1>1, PortType DEF Init, clear, Matrix
<1> QED
  BY <1>1 DEF Init, TypeOK

LEMMA TypeStep == TypeOK /\ RelayInv /\ [Next]_vars => TypeOK'
<1> SUFFICES ASSUME TypeOK, RelayInv, [Next]_vars PROVE TypeOK'
  OBVIOUS
<1>0. file' \in Seq(Link) /\ switches' \in Matrix
  BY RelayStep DEF RelayInv, FileInv
<1>1. CASE UNCHANGED vars
  BY <1>1 DEF vars, TypeOK
<1>2. ASSUME NEW l \in Link, LoadLine(l)
      PROVE  TypeOK'
  BY <1>0, <1>2 DEF LoadLine, TypeOK
<1>3. CASE EndOfFile
  BY <1>0, <1>3 DEF EndOfFile, TypeOK
<1>4. ASSUME NEW s \in Switch, Connect(s)
      PROVE  TypeOK'
  BY <1>0, <1>4 DEF Connect, TypeOK
<1>5. ASSUME NEW s \in Switch, NEW p \in 0..MaxPort, ProcessPacketOut(s, p)
      PROVE  TypeOK'
  <2> DEFINE remote == GetConnection(switches, s, p)
             answer == [switch |-> s, port |-> p, via |-> 1, in_port |-> remote.port]
  <2>1. UNCHANGED <<loading, file, switches, connected>>
    BY <1>5 DEF ProcessPacketOut
  <2>2. \/ learned' = learned
        \/ learned' = learned \cup {answer} /\ HasNeighbour(remote) /\ 1 \in connected
    BY <1>5 DEF ProcessPacketOut, RelaySwitch
  <2>3. ASSUME HasNeighbour(remote), 1 \in connected
        PROVE  answer \in [switch : Switch, port : Ports, via : Switch, in_port : Ports]
    <3>1. p # 0
      BY <2>3, ColumnOfNoSwitch DEF HasNeighbour
    <3>2. p \in Ports
      BY <3>1, TopologyAssumption DEF Ports
    <3>3. remote.port \in Ports
      BY <2>3, PortOfNeighbour
    <3>4. 1 \in Switch
      BY <2>3 DEF TypeOK
    <3> HIDE DEF remote
    <3> QED
      BY <3>2, <3>3, <3>4
  <2> HIDE DEF answer
  <2> QED
    BY <2>1, <2>2, <2>3 DEF TypeOK
<1> QED
  BY <1>1, <1>2, <1>3, <1>4, <1>5 DEF Next

(* Types of all variables: a packet-in that comes back names a port, and so   *)
(* did its probe; a packet-out without an output action is never answered.    *)
THEOREM TypeCorrect == Spec => []TypeOK
  BY RelayInit, RelayStep, TypeInit, TypeStep, PTL DEF Spec
=============================================================================
