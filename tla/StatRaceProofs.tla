--------------------------- MODULE StatRaceProofs ---------------------------
(***************************************************************************)
(* Theorems about StatRace for every size of the ring, length of a delta   *)
(* and number of packets: types, that the ring of time stamps survives the *)
(* two threads, and that the totals and the rates do while only one of     *)
(* them is among the deltas.                                               *)
(***************************************************************************)
EXTENDS StatRace, FiniteSetTheorems, TLAPS

LEMMA ThreadsAre == /\ Threads = {"batch", "com"}
                    /\ \A t : t \in Threads <=> t = "batch" \/ t = "com"
BY DEF Threads

LEMMA PlacesOfCalls ==
    ASSUME TypeOK, NEW t \in Threads, NEW from, NEW to, Step(t, from, to)
    PROVE  /\ pc[t] = from /\ pc'[t] = to
           /\ \A u \in Threads : u # t => pc'[u] = pc[u]
BY DEF Step, TypeOK

LEMMA NextSlotInRing == ASSUME TypeOK PROVE NextSlot \in Slots
<1>1. count["batch"] \in Nat
  BY ThreadsAre DEF TypeOK
<1> QED
  BY <1>1, RaceAssumption DEF RaceAssumption, NextSlot, Slots

LEMMA SlotOfPacket == ASSUME NEW p \in Packet PROVE p.id - 1 \in Slots
BY RaceAssumption DEF RaceAssumption, Packet, Slots

-----------------------------------------------------------------------------
(* The ring.  A packet waits in its slot from Stamp on, while it is created, *)
(* on the wire, and handled up to ClearStamp; two that wait are never in the *)
(* same slot, since each is recognised by the stamp there.                   *)
Creating == pc["batch"] \notin {"idle", "stamp"}
Answering == pc["com"] \in {"rtt", "clear"}

Waits(p) == sent_packets_timestamp2[p.id - 1] = p.at /\ p.at > 0

Stamped == {i \in Slots : sent_packets_timestamp2[i] # 0}

RingInv ==
    underruns = 0 =>
        /\ \A p \in wire : Waits(p)
        /\ Creating => Waits(packet["batch"]) /\ packet["batch"] \notin wire
        /\ Answering => Waits(packet["com"]) /\ packet["com"] \notin wire
        /\ Creating /\ Answering => packet["batch"] # packet["com"]
        /\ pc["batch"] = "stamp" => sent_packets_timestamp2[NextSlot] = 0
        /\ pc["com"] = "clear" => reg["com"] = packet["com"].at
        /\ count["batch"] = count["com"] + Cardinality(Stamped)

(* The deltas, while only one thread is among them.  Due(k) packets of k     *)
(* have been counted; one thread adds the current delta to the sum, so that  *)
(* between its store and its reset the current delta is in both.             *)
Due(k) == count[k] - (IF pc[k] \in DeltaPlaces \cup {"test"} THEN 1 ELSE 0)

LoadPlace(k) == IF k = "com" THEN "load_com" ELSE "load_batch"
StorePlace(k) == IF k = "com" THEN "store_com" ELSE "store_batch"
ZeroPlace(k) == IF k = "com" THEN "zero_com" ELSE "zero_batch"

Adding(k) == \E t \in Threads : pc[t] = ZeroPlace(k)

TotalsInv ==
    ~clash =>
        /\ ~(InDeltas("batch") /\ InDeltas("com"))
        /\ \A k \in Threads :
             /\ Adding(k) => PPS_delta_sum[k] = Due(k)
             /\ ~Adding(k) => PPS_delta_sum[k] + PPS_cur_delta[k] = Due(k)
             /\ pc[k] = "counted" => reg[k] = PPS_cur_delta[k] + 1
             /\ \A t \in Threads :
                  pc[t] = StorePlace(k) => reg[t] = PPS_delta_sum[k] + PPS_cur_delta[k]

RatesInv ==
    ~clash =>
        /\ ~(InDeltas("batch") /\ InDeltas("com"))
        /\ (\A t \in Threads : pc[t] \notin {"stop", "store_stop"})
             => tsCur_delta_STOP = tsCur_delta_START + Delta_t
        /\ \A t \in Threads : pc[t] = "store_stop" => reg[t] = tsCur_delta_START + Delta_t

-----------------------------------------------------------------------------
LEMMA TypeInit == Init => TypeOK
<1> SUFFICES ASSUME Init PROVE TypeOK
  OBVIOUS
<1>1. [id |-> 1, at |-> 0] \in Packet
  BY RaceAssumption DEF RaceAssumption, Packet
<1>2. packet \in [Threads -> Packet]
  BY <1>1 DEF Init
<1>3. /\ now \in Nat \ {0} /\ tsCur_delta_START \in Nat /\ tsCur_delta_STOP \in Nat
      /\ underruns \in Nat /\ clash \in BOOLEAN
  <2>1. /\ now = 1 /\ tsCur_delta_START = now /\ tsCur_delta_STOP = now + Delta_t
        /\ underruns = 0
    BY DEF Init
  <2>2. clash \in BOOLEAN
    BY DEF Init
  <2>3. now \in Nat \ {0} /\ underruns \in Nat
    BY <2>1
  <2> QED
    BY <2>1, <2>2, <2>3, RaceAssumption DEF RaceAssumption
<1>4. /\ sent_packets_timestamp2 \in [Slots -> Nat]
      /\ count \in [Threads -> Nat] /\ reg \in [Threads -> Nat]
      /\ PPS_cur_delta \in [Threads -> Nat] /\ PPS_delta_sum \in [Threads -> Nat]
      /\ pc \in [Threads -> RingPlaces \cup DeltaPlaces]
  BY DEF Init, RingPlaces
<1>5. wire \subseteq Packet
  BY DEF Init
<1> QED
  BY <1>2, <1>3, <1>4, <1>5 DEF TypeOK

LEMMA TypeStep == TypeOK /\ [Next]_vars => TypeOK'
<1> SUFFICES ASSUME TypeOK, [Next]_vars PROVE TypeOK'
  OBVIOUS
<1> USE RaceAssumption DEF RaceAssumption
<1>1. CASE UNCHANGED vars
  BY <1>1 DEF TypeOK, vars, ring, delta, sums
<1> SUFFICES ASSUME Call \/ Tick, clash' = (clash \/ \A t \in Threads : InDeltas(t)')
             PROVE  TypeOK'
  BY <1>1 DEF Next, Done
<1>2. clash' \in BOOLEAN
  BY DEF TypeOK
<1>3. ASSUME NEW t \in Threads, NEW from, NEW to \in RingPlaces \cup DeltaPlaces,
             Step(t, from, to)
      PROVE  pc' \in [Threads -> RingPlaces \cup DeltaPlaces]
  BY <1>3 DEF Step, TypeOK
<1>4. ASSUME NEW t \in Threads, NEW v \in Nat, Load(t, v)
      PROVE  reg' \in [Threads -> Nat]
  BY <1>4 DEF Load, TypeOK
<1>5. "batch" \in Threads /\ "com" \in Threads
  BY ThreadsAre
<1>6. CASE SendPacketID
  <2>1. pc' \in [Threads -> RingPlaces \cup DeltaPlaces]
    BY <1>3, <1>5, <1>6 DEF SendPacketID, RingPlaces
  <2>2. underruns' \in Nat
    BY <1>6 DEF SendPacketID, TypeOK
  <2> QED
    BY <1>2, <1>6, <2>1, <2>2 DEF SendPacketID, TypeOK, delta, sums
<1>7. CASE Stamp
  <2>1. pc' \in [Threads -> RingPlaces \cup DeltaPlaces]
    BY <1>3, <1>5, <1>7 DEF Stamp, RingPlaces
  <2>2. [id |-> NextSlot + 1, at |-> now] \in Packet
    BY NextSlotInRing DEF TypeOK, Packet, Slots
  <2>3. packet' \in [Threads -> Packet]
    BY <1>7, <2>2 DEF Stamp, TypeOK
  <2>4. sent_packets_timestamp2' \in [Slots -> Nat]
    BY <1>7 DEF Stamp, TypeOK
  <2>5. count' \in [Threads -> Nat]
    <3>1. \A t \in Threads : count[t] \in Nat /\ count[t] + 1 \in Nat
      BY DEF TypeOK
    <3> QED
      BY <1>7, <3>1 DEF Stamp, TypeOK
  <2> QED
    BY <1>2, <1>7, <2>1, <2>3, <2>4, <2>5 DEF Stamp, TypeOK, delta, sums
<1>8. ASSUME NEW p \in wire, ReceivePacketID(p)
      PROVE  TypeOK'
  <2>1. pc' \in [Threads -> RingPlaces \cup DeltaPlaces]
    BY <1>3, <1>5, <1>8 DEF ReceivePacketID, RingPlaces
  <2>2. packet' \in [Threads -> Packet] /\ wire' \subseteq Packet
    BY <1>8 DEF ReceivePacketID, TypeOK
  <2> QED
    BY <1>2, <1>8, <2>1, <2>2 DEF ReceivePacketID, TypeOK, delta, sums
<1>9. CASE RoundTrip
  <2>1. pc' \in [Threads -> RingPlaces \cup DeltaPlaces]
    BY <1>3, <1>5, <1>9 DEF RoundTrip, RingPlaces
  <2>2. sent_packets_timestamp2[packet["com"].id - 1] \in Nat
    BY <1>5, SlotOfPacket DEF TypeOK
  <2>3. reg' \in [Threads -> Nat]
    BY <1>4, <1>5, <1>9, <2>2 DEF RoundTrip
  <2> QED
    BY <1>2, <1>9, <2>1, <2>3 DEF RoundTrip, TypeOK, ring, delta, sums
<1>10. CASE ClearStamp
  <2>1. pc' \in [Threads -> RingPlaces \cup DeltaPlaces]
    BY <1>3, <1>5, <1>10 DEF ClearStamp, RingPlaces
  <2>2. sent_packets_timestamp2' \in [Slots -> Nat]
    BY <1>10 DEF ClearStamp, TypeOK
  <2>3. count' \in [Threads -> Nat]
    <3>1. \A t \in Threads : count[t] \in Nat /\ count[t] + 1 \in Nat
      BY DEF TypeOK
    <3> QED
      BY <1>10, <3>1 DEF ClearStamp, TypeOK
  <2> QED
    BY <1>2, <1>10, <2>1, <2>2, <2>3 DEF ClearStamp, TypeOK, delta, sums
<1>11. ASSUME NEW t \in Threads, Test(t)
       PROVE  TypeOK'
  <2>1. pc' \in [Threads -> RingPlaces \cup DeltaPlaces]
    BY <1>3, <1>11 DEF Test, DeltaPlaces
  <2> QED
    BY <1>2, <1>11, <2>1 DEF Test, TypeOK, ring, delta, sums
<1>12. ASSUME NEW t \in Threads, NEW k \in Threads, NEW load, NEW store \in DeltaPlaces,
              NEW zero \in DeltaPlaces, NEW next \in DeltaPlaces,
              AddRate(t, k, load, store, zero, next), UNCHANGED <<now, ring, delta>>
       PROVE  TypeOK'
  <2>1. pc' \in [Threads -> RingPlaces \cup DeltaPlaces]
    BY <1>3, <1>12 DEF AddRate
  <2>2. reg' \in [Threads -> Nat]
    BY <1>4, <1>12 DEF AddRate, TypeOK
  <2>3. PPS_cur_delta' \in [Threads -> Nat] /\ PPS_delta_sum' \in [Threads -> Nat]
    BY <1>12 DEF AddRate, TypeOK, sums
  <2> QED
    BY <1>2, <1>12, <2>1, <2>2, <2>3 DEF TypeOK, ring, delta
<1>13. ASSUME NEW t \in Threads, SaveDelta(t)
       PROVE  TypeOK'
  <2>1. CASE Step(t, "push_back", "start") /\ UNCHANGED <<sums, reg>>
    <3>1. pc' \in [Threads -> RingPlaces \cup DeltaPlaces]
      BY <1>3, <2>1 DEF DeltaPlaces
    <3> QED
      BY <1>2, <1>13, <2>1, <3>1 DEF SaveDelta, TypeOK, ring, delta, sums
  <2> QED
    BY <1>5, <1>12, <1>13, <2>1 DEF SaveDelta, DeltaPlaces
<1>14. ASSUME NEW t \in Threads, NextDelta(t)
       PROVE  TypeOK'
  <2>1. pc' \in [Threads -> RingPlaces \cup DeltaPlaces]
    BY <1>3, <1>14 DEF NextDelta, DeltaPlaces, RingPlaces
  <2>2. reg' \in [Threads -> Nat]
    BY <1>4, <1>14 DEF NextDelta, TypeOK
  <2>3. tsCur_delta_START' \in Nat /\ tsCur_delta_STOP' \in Nat
    BY <1>14 DEF NextDelta, TypeOK, delta
  <2> QED
    BY <1>2, <1>14, <2>1, <2>2, <2>3 DEF NextDelta, TypeOK, ring, sums
<1>15. ASSUME NEW t \in Threads, CountPacket(t)
       PROVE  TypeOK'
  <2>1. pc' \in [Threads -> RingPlaces \cup DeltaPlaces]
    BY <1>3, <1>15 DEF CountPacket, DeltaPlaces
  <2>2. reg' \in [Threads -> Nat]
    BY <1>4, <1>15 DEF CountPacket, TypeOK
  <2> QED
    BY <1>2, <1>15, <2>1, <2>2 DEF CountPacket, TypeOK, ring, delta, sums
<1>16. ASSUME NEW t \in Threads, Return(t)
       PROVE  TypeOK'
  <2>1. pc' \in [Threads -> RingPlaces \cup DeltaPlaces]
    BY <1>3, <1>16 DEF Return, RingPlaces
  <2>2. reg' \in [Threads -> Nat] /\ PPS_cur_delta' \in [Threads -> Nat]
    BY <1>4, <1>16 DEF Return, TypeOK
  <2>3. wire' \subseteq Packet
    BY <1>16 DEF Return, TypeOK
  <2> QED
    BY <1>2, <1>16, <2>1, <2>2, <2>3 DEF Return, TypeOK, delta
<1>17. CASE Tick
  BY <1>2, <1>17 DEF Tick, TypeOK, ring, delta, sums
<1> QED
  BY <1>6, <1>7, <1>8, <1>9, <1>10, <1>11, <1>13, <1>14, <1>15, <1>16, <1>17 DEF Call

(* Types of all variables of StatRace, in every reachable state.             *)
THEOREM TypeCorrect == Spec => []TypeOK
BY TypeInit, TypeStep, PTL DEF Spec

-----------------------------------------------------------------------------
(* The ring.                                                                 *)
LEMMA RingInit == Init => RingInv
<1> SUFFICES ASSUME Init PROVE RingInv
  OBVIOUS
<1>1. Stamped = {} /\ pc["batch"] = "idle" /\ pc["com"] = "idle" /\ wire = {}
  BY ThreadsAre DEF Init, Stamped
<1>2. count["batch"] = 0 /\ count["com"] = 0
  BY ThreadsAre DEF Init
<1>3. Cardinality(Stamped) = 0
  BY <1>1, FS_EmptySet
<1> QED
  BY <1>1, <1>2, <1>3 DEF RingInv, Creating, Answering

LEMMA StampedFinite == IsFiniteSet(Stamped) /\ Cardinality(Stamped) \in Nat
<1>1. IsFiniteSet(Slots)
  BY FS_Interval, RaceAssumption DEF RaceAssumption, Slots
<1>2. IsFiniteSet(Stamped)
  BY <1>1, FS_Subset DEF Stamped
<1> QED
  BY <1>2, FS_CardinalityType

\* A step between the places of ChangeDelta() does not touch the ring.
LEMMA AmongDeltas ==
    ASSUME TypeOK, NEW t \in Threads,
           Test(t) \/ SaveDelta(t) \/ NextDelta(t) \/ CountPacket(t)
    PROVE  /\ pc[t] \in DeltaPlaces \cup {"test"} /\ pc'[t] \in DeltaPlaces \cup {"test"}
           /\ \A u \in Threads : u # t => pc'[u] = pc[u] /\ reg'[u] = reg[u]
           /\ UNCHANGED ring
<1>1. ASSUME NEW from \in DeltaPlaces \cup {"test"}, NEW to \in DeltaPlaces \cup {"test"},
             Step(t, from, to), reg' = reg \/ \E v : Load(t, v), UNCHANGED ring
      PROVE  /\ pc[t] \in DeltaPlaces \cup {"test"} /\ pc'[t] \in DeltaPlaces \cup {"test"}
             /\ \A u \in Threads : u # t => pc'[u] = pc[u] /\ reg'[u] = reg[u]
             /\ UNCHANGED ring
  <2>1. \A u \in Threads : u # t => reg'[u] = reg[u]
    BY <1>1 DEF Load, TypeOK
  <2> QED
    BY <1>1, <2>1, PlacesOfCalls
<1>2. CASE Test(t)
  BY <1>1, <1>2 DEF Test, DeltaPlaces
<1>3. ASSUME NEW k \in Threads, NEW load \in DeltaPlaces, NEW store \in DeltaPlaces,
             NEW zero \in DeltaPlaces, NEW next \in DeltaPlaces,
             AddRate(t, k, load, store, zero, next), UNCHANGED ring
      PROVE  /\ pc[t] \in DeltaPlaces \cup {"test"} /\ pc'[t] \in DeltaPlaces \cup {"test"}
             /\ \A u \in Threads : u # t => pc'[u] = pc[u] /\ reg'[u] = reg[u]
             /\ UNCHANGED ring
  BY <1>1, <1>3 DEF AddRate
<1>4. CASE SaveDelta(t)
  <2>1. /\ "load_com" \in DeltaPlaces /\ "store_com" \in DeltaPlaces /\ "zero_com" \in DeltaPlaces
        /\ "load_batch" \in DeltaPlaces /\ "store_batch" \in DeltaPlaces
        /\ "zero_batch" \in DeltaPlaces /\ "push_back" \in DeltaPlaces /\ "start" \in DeltaPlaces
        /\ "com" \in Threads /\ "batch" \in Threads
    BY ThreadsAre DEF DeltaPlaces
  <2>2. UNCHANGED ring
    BY <1>4 DEF SaveDelta
  <2>3. CASE AddRate(t, "com", "load_com", "store_com", "zero_com", "load_batch")
    BY <1>3, <2>1, <2>2, <2>3
  <2>4. CASE AddRate(t, "batch", "load_batch", "store_batch", "zero_batch", "push_back")
    BY <1>3, <2>1, <2>2, <2>4
  <2>5. CASE Step(t, "push_back", "start") /\ UNCHANGED <<sums, reg>>
    BY <1>1, <2>1, <2>2, <2>5
  <2> QED
    BY <1>4, <2>3, <2>4, <2>5 DEF SaveDelta
<1>5. CASE NextDelta(t)
  BY <1>1, <1>5 DEF NextDelta, DeltaPlaces
<1>6. CASE CountPacket(t)
  BY <1>1, <1>6 DEF CountPacket, DeltaPlaces
<1> QED
  BY <1>2, <1>4, <1>5, <1>6

LEMMA RingStep == TypeOK /\ RingInv /\ [Next]_vars => RingInv'
<1> SUFFICES ASSUME TypeOK, RingInv, [Next]_vars, underruns' = 0 PROVE RingInv'
  BY DEF RingInv
<1> USE ThreadsAre
<1>0. NextSlot \in Slots /\ Cardinality(Stamped) \in Nat /\ IsFiniteSet(Stamped)
  BY NextSlotInRing, StampedFinite
<1>1. ASSUME UNCHANGED <<pc, sent_packets_timestamp2, packet, wire, underruns, count, reg>>
      PROVE  RingInv'
  BY <1>1 DEF RingInv, Creating, Answering, Waits, Stamped, NextSlot
<1>2. CASE UNCHANGED vars \/ Tick
  BY <1>1, <1>2 DEF vars, ring, Tick
<1>3. CASE SendPacketID
  <2>1. /\ pc["batch"] = "idle" /\ pc'["batch"] = "stamp" /\ pc'["com"] = pc["com"]
        /\ UNCHANGED <<sent_packets_timestamp2, packet, wire, count, reg>>
    BY <1>3, PlacesOfCalls DEF SendPacketID
  <2>2. underruns = 0 /\ sent_packets_timestamp2[NextSlot] = 0
    BY <1>3, SMT DEF SendPacketID, TypeOK
  <2> QED
    BY <2>1, <2>2 DEF RingInv, Creating, Answering, Waits, Stamped, NextSlot
<1>4. CASE Stamp
  <2> DEFINE p == [id |-> NextSlot + 1, at |-> now]
  <2>1. /\ pc["batch"] = "stamp" /\ pc'["batch"] = "test" /\ pc'["com"] = pc["com"]
        /\ UNCHANGED <<wire, reg, underruns>>
    BY <1>4, PlacesOfCalls DEF Stamp
  <2>2. packet'["batch"] = p /\ packet'["com"] = packet["com"]
    BY <1>4 DEF Stamp, TypeOK
  <2>3. /\ sent_packets_timestamp2' = [sent_packets_timestamp2 EXCEPT ![NextSlot] = now]
        /\ count'["batch"] = count["batch"] + 1 /\ count'["com"] = count["com"]
    BY <1>4 DEF Stamp, TypeOK
  <2>4. sent_packets_timestamp2[NextSlot] = 0
    BY <2>1 DEF RingInv
  <2>5. now > 0 /\ NextSlot \in Nat
    BY <1>0, RaceAssumption DEF TypeOK, Slots
  <2>6. p.id - 1 = NextSlot /\ p.at = now
    BY <2>5
  <2> HIDE DEF p
  <2>7. ASSUME NEW q \in Packet, Waits(q)
        PROVE  Waits(q)' /\ q # p
    <3>1. q.id - 1 \in Slots
      BY SlotOfPacket
    <3>2. q.id - 1 # NextSlot
      BY <2>4, <2>7 DEF Waits
    <3> QED
      BY <2>3, <2>6, <2>7, <3>1, <3>2 DEF Waits, TypeOK
  <2>8. sent_packets_timestamp2'[p.id - 1] = p.at /\ p.at > 0
    BY <1>0, <2>3, <2>5, <2>6 DEF Waits, TypeOK
  <2>9. Stamped' = Stamped \cup {NextSlot} /\ NextSlot \notin Stamped
    BY <1>0, <2>3, <2>4, <2>5 DEF Stamped, TypeOK
  <2>10. Cardinality(Stamped') = Cardinality(Stamped) + 1
    BY <1>0, <2>9, FS_AddElement
  <2>11. \A q \in wire : q \in Packet /\ Waits(q)
    BY <2>1 DEF RingInv, TypeOK
  <2>12. Answering => packet["com"] \in Packet /\ Waits(packet["com"]) /\ packet["com"] \notin wire
    BY <2>1 DEF RingInv, TypeOK
  <2>13. count["batch"] = count["com"] + Cardinality(Stamped)
    BY <2>1 DEF RingInv
  <2>14. pc["com"] = "clear" => reg["com"] = packet["com"].at
    BY <2>1 DEF RingInv
  <2>15. Answering' <=> Answering
    BY <2>1 DEF Answering
  <2>16. (\A q \in wire' : Waits(q)') /\ p \notin wire
    BY <2>1, <2>7, <2>11
  <2>17. Answering' => Waits(packet["com"])' /\ packet'["com"] \notin wire' /\ packet'["com"] # p
    <3>1. Answering' => Waits(packet["com"])' /\ packet["com"] # p
      <4>1. ASSUME Answering PROVE packet["com"].id = packet'["com"].id /\ packet["com"].at = packet'["com"].at
        BY <2>2
      <4> QED
        BY <2>2, <2>7, <2>12, <2>15, <4>1 DEF Waits
    <3> QED
      BY <2>1, <2>2, <2>12, <2>15, <3>1
  <2>18. count'["batch"] = count'["com"] + Cardinality(Stamped')
    <3>1. count["com"] \in Nat
      BY DEF TypeOK
    <3> QED
      BY <1>0, <2>3, <2>10, <2>13, <3>1
  <2>19. Waits(packet["batch"])'
    BY <2>2, <2>8 DEF Waits
  <2> QED
    BY <2>1, <2>2, <2>14, <2>16, <2>17, <2>18, <2>19 DEF RingInv, Creating, Answering
<1>5. ASSUME NEW p \in wire, ReceivePacketID(p)
      PROVE  RingInv'
  <2>1. Waits(p) /\ underruns = 0 /\ p \in Packet
    BY <1>5 DEF RingInv, ReceivePacketID, TypeOK
  <2>2. /\ pc["com"] = "idle" /\ pc'["com"] = "rtt" /\ pc'["batch"] = pc["batch"]
        /\ UNCHANGED <<sent_packets_timestamp2, count, reg>>
    <3>1. sent_packets_timestamp2[p.id - 1] # 0
      BY <2>1 DEF Waits, Packet
    <3> QED
      BY <1>5, <3>1, PlacesOfCalls DEF ReceivePacketID
  <2>3. packet'["com"] = p /\ packet'["batch"] = packet["batch"] /\ wire' = wire \ {p}
    BY <1>5 DEF ReceivePacketID, TypeOK
  <2> QED
    BY <1>5, <2>1, <2>2, <2>3 DEF RingInv, Creating, Answering, Waits, Stamped, NextSlot
<1>6. CASE RoundTrip
  <2>1. /\ pc["com"] = "rtt" /\ pc'["com"] = "clear" /\ pc'["batch"] = pc["batch"]
        /\ UNCHANGED <<sent_packets_timestamp2, count, packet, wire, underruns>>
    BY <1>6, PlacesOfCalls DEF RoundTrip, ring
  <2>2. reg'["com"] = sent_packets_timestamp2[packet["com"].id - 1]
    BY <1>6 DEF RoundTrip, Load, TypeOK
  <2> QED
    BY <2>1, <2>2 DEF RingInv, Creating, Answering, Waits, Stamped, NextSlot
<1>7. CASE ClearStamp
  <2> DEFINE p == packet["com"]
             s == p.id - 1
  <2>1. /\ pc["com"] = "clear" /\ pc'["com"] = "test" /\ pc'["batch"] = pc["batch"]
        /\ UNCHANGED <<packet, wire, underruns>>
    BY <1>7, PlacesOfCalls DEF ClearStamp
  <2>2. /\ sent_packets_timestamp2' = [sent_packets_timestamp2 EXCEPT ![s] = 0]
        /\ count'["com"] = count["com"] + 1 /\ count'["batch"] = count["batch"]
    BY <1>7 DEF ClearStamp, TypeOK
  <2>3. p \in Packet /\ s \in Slots /\ Waits(p)
    BY <2>1, SlotOfPacket DEF RingInv, Answering, TypeOK
  <2>4. ASSUME NEW q \in Packet, Waits(q), q # p
        PROVE  Waits(q)'
    <3>1. q.id - 1 \in Slots /\ q.id \in Nat /\ p.id \in Nat
      BY <2>3, SlotOfPacket DEF Packet
    <3>2. q.id # p.id
      <4>1. SUFFICES ASSUME q.id = p.id PROVE FALSE
        OBVIOUS
      <4>2. q.at = p.at
        BY <2>3, <2>4, <4>1 DEF Waits
      <4>3. q = p
        BY <2>3, <4>1, <4>2 DEF Packet
      <4> QED
        BY <2>4, <4>3
    <3>3. q.id - 1 # s
      BY <3>1, <3>2
    <3> QED
      BY <2>2, <2>4, <3>1, <3>3 DEF Waits, TypeOK
  <2>5. Stamped' = Stamped \ {s} /\ s \in Stamped
    <3>1. sent_packets_timestamp2[s] # 0
      BY <2>3 DEF Waits, Packet
    <3> HIDE DEF s
    <3> QED
      BY <2>2, <2>3, <3>1 DEF Stamped, TypeOK
  <2>6. Cardinality(Stamped') = Cardinality(Stamped) - 1
    BY <1>0, <2>5, FS_RemoveElement
  <2>7. count'["batch"] = count'["com"] + Cardinality(Stamped')
    <3>1. count["com"] \in Nat /\ count["batch"] = count["com"] + Cardinality(Stamped)
      BY <2>1 DEF RingInv, TypeOK
    <3> QED
      BY <1>0, <2>2, <2>6, <3>1
  <2>8. p \notin wire /\ (Creating => packet["batch"] # p)
    BY <2>1 DEF RingInv, Answering
  <2>9. \A q \in wire' : Waits(q)'
    BY <2>1, <2>4, <2>8 DEF RingInv, TypeOK
  <2>10. Creating => Waits(packet["batch"])' /\ packet["batch"] \notin wire
    <3>1. ASSUME Creating
          PROVE  packet["batch"] \in Packet /\ Waits(packet["batch"]) /\ packet["batch"] \notin wire
      BY <2>1, <3>1 DEF RingInv, TypeOK
    <3>2. ASSUME Creating
          PROVE  packet'["batch"] = packet["batch"]
      BY <2>1
    <3> QED
      BY <2>4, <2>8, <3>1, <3>2 DEF Waits
  <2>11. pc["batch"] = "stamp" => sent_packets_timestamp2'[NextSlot'] = 0
    <3>1. ASSUME pc["batch"] = "stamp"
          PROVE  sent_packets_timestamp2[NextSlot] = 0 /\ NextSlot' = NextSlot
      BY <2>1, <2>2, <3>1 DEF RingInv, NextSlot
    <3> QED
      BY <1>0, <2>2, <2>3, <3>1 DEF TypeOK
  <2> QED
    BY <2>1, <2>7, <2>9, <2>10, <2>11 DEF RingInv, Creating, Answering
<1>8. ASSUME NEW t \in Threads, Test(t) \/ SaveDelta(t) \/ NextDelta(t) \/ CountPacket(t)
      PROVE  RingInv'
  <2>1. /\ pc[t] \in DeltaPlaces \cup {"test"} /\ pc'[t] \in DeltaPlaces \cup {"test"}
        /\ \A u \in Threads : u # t => pc'[u] = pc[u] /\ reg'[u] = reg[u]
        /\ UNCHANGED <<sent_packets_timestamp2, count, packet, wire, underruns>>
    BY <1>8, AmongDeltas DEF ring
  <2>2. (Creating' <=> Creating) /\ (Answering' <=> Answering)
    BY <2>1 DEF Creating, Answering, DeltaPlaces
  <2>3. /\ pc'["batch"] = "stamp" => pc["batch"] = "stamp"
        /\ pc'["com"] = "clear" => pc["com"] = "clear" /\ reg'["com"] = reg["com"]
    BY <2>1 DEF DeltaPlaces
  <2>4. Stamped' = Stamped /\ NextSlot' = NextSlot
    BY <2>1 DEF Stamped, NextSlot
  <2> QED
    BY <2>1, <2>2, <2>3, <2>4 DEF RingInv, Waits
<1>9. ASSUME NEW t \in Threads, Return(t)
      PROVE  RingInv'
  <2>1. /\ pc[t] = "counted" /\ pc'[t] = "idle"
        /\ \A u \in Threads : u # t => pc'[u] = pc[u]
        /\ UNCHANGED <<sent_packets_timestamp2, count, packet, underruns>>
        /\ wire' = IF t = "batch" THEN wire \cup {packet[t]} ELSE wire
    BY <1>9, PlacesOfCalls DEF Return
  <2>2. \A u \in Threads : u # t => reg'[u] = reg[u]
    BY <1>9 DEF Return, Load, TypeOK
  <2>3. Stamped' = Stamped /\ NextSlot' = NextSlot
    BY <2>1 DEF Stamped, NextSlot
  <2>4. CASE t = "batch"
    BY <2>1, <2>2, <2>3, <2>4 DEF RingInv, Creating, Answering, Waits
  <2>5. CASE t = "com"
    BY <2>1, <2>2, <2>3, <2>5 DEF RingInv, Creating, Answering, Waits
  <2> QED
    BY <2>4, <2>5
<1> QED
  BY <1>2, <1>3, <1>4, <1>5, <1>6, <1>7, <1>8, <1>9 DEF Next, Call, Done

(* The ring of time stamps needs no lock: unless an under run was reported,  *)
(* both threads together lose no packet and measure from its own stamp.      *)
THEOREM RingIsSafe == Spec => []RingSurvives
<1>1. RingInv => RingSurvives
  BY DEF RingInv, RingSurvives, Answering, Waits, Stamped
<1> QED
  BY <1>1, RingInit, RingStep, TypeCorrect, PTL DEF Spec

-----------------------------------------------------------------------------
(* The deltas.                                                               *)
Middle == {"store_com", "store_batch", "zero_com", "zero_batch", "counted"}

LEMMA DueIsInt == ASSUME TypeOK, NEW k \in Threads PROVE Due(k) \in Int
BY DEF TypeOK, Due

\* The packets due change only when a call returns.
LEMMA DueKept ==
    ASSUME TypeOK, NEW k \in Threads,
           \/ SendPacketID \/ Stamp \/ RoundTrip \/ ClearStamp
           \/ \E p \in wire : ReceivePacketID(p)
           \/ \E t \in Threads : Test(t) \/ SaveDelta(t) \/ NextDelta(t) \/ CountPacket(t)
    PROVE  Due(k)' = Due(k)
<1> USE ThreadsAre
<1>1. count[k] \in Nat
  BY DEF TypeOK
<1>2. CASE SendPacketID
  BY <1>2, PlacesOfCalls DEF SendPacketID, Due, DeltaPlaces
<1>3. CASE Stamp
  <2>1. /\ pc["batch"] = "stamp" /\ pc'["batch"] = "test" /\ pc'["com"] = pc["com"]
        /\ count'["batch"] = count["batch"] + 1 /\ count'["com"] = count["com"]
    BY <1>3, PlacesOfCalls DEF Stamp, TypeOK
  <2> QED
    BY <1>1, <2>1 DEF Due, DeltaPlaces
<1>4. CASE RoundTrip
  BY <1>4, PlacesOfCalls DEF RoundTrip, ring, Due, DeltaPlaces
<1>5. CASE ClearStamp
  <2>1. /\ pc["com"] = "clear" /\ pc'["com"] = "test" /\ pc'["batch"] = pc["batch"]
        /\ count'["com"] = count["com"] + 1 /\ count'["batch"] = count["batch"]
    BY <1>5, PlacesOfCalls DEF ClearStamp, TypeOK
  <2> QED
    BY <1>1, <2>1 DEF Due, DeltaPlaces
<1>6. ASSUME NEW p \in wire, ReceivePacketID(p)
      PROVE  Due(k)' = Due(k)
  <2>1. /\ pc["com"] = "idle" /\ pc'["com"] \in {"idle", "rtt"} /\ pc'["batch"] = pc["batch"]
        /\ count' = count
    BY <1>6, PlacesOfCalls DEF ReceivePacketID
  <2> QED
    BY <2>1 DEF Due, DeltaPlaces
<1>7. ASSUME NEW t \in Threads, Test(t) \/ SaveDelta(t) \/ NextDelta(t) \/ CountPacket(t)
      PROVE  Due(k)' = Due(k)
  BY <1>7, AmongDeltas DEF ring, Due
<1> QED
  BY <1>2, <1>3, <1>4, <1>5, <1>6, <1>7

LEMMA TotalsInit == Init => TotalsInv /\ RatesInv
<1> SUFFICES ASSUME Init PROVE TotalsInv /\ RatesInv
  OBVIOUS
<1>1. /\ \A t \in Threads : pc[t] = "idle" /\ count[t] = 0 /\ PPS_cur_delta[t] = 0
                            /\ PPS_delta_sum[t] = 0
      /\ tsCur_delta_STOP = tsCur_delta_START + Delta_t
  BY DEF Init
<1>2. \A k \in Threads : ~Adding(k) /\ Due(k) = 0
  BY <1>1 DEF Adding, ZeroPlace, Due, DeltaPlaces
<1> QED
  BY <1>1, <1>2, ThreadsAre DEF TotalsInv, RatesInv, InDeltas, DeltaPlaces, StorePlace

LEMMA TotalsStep ==
    ASSUME TypeOK, TotalsInv, Call \/ Tick, ~clash, ~(InDeltas("batch") /\ InDeltas("com"))'
    PROVE  TotalsInv'
<1> USE ThreadsAre
<1>1. /\ ~(InDeltas("batch") /\ InDeltas("com"))
      /\ \A k \in Threads :
           /\ Adding(k) => PPS_delta_sum[k] = Due(k)
           /\ ~Adding(k) => PPS_delta_sum[k] + PPS_cur_delta[k] = Due(k)
           /\ pc[k] = "counted" => reg[k] = PPS_cur_delta[k] + 1
           /\ \A t \in Threads :
                pc[t] = StorePlace(k) => reg[t] = PPS_delta_sum[k] + PPS_cur_delta[k]
  BY DEF TotalsInv
<1>2. \A k \in Threads : PPS_delta_sum[k] \in Nat /\ PPS_cur_delta[k] \in Nat /\ Due(k) \in Int
  BY DueIsInt DEF TypeOK
<1>3. ASSUME UNCHANGED sums, \A k \in Threads : Due(k)' = Due(k),
             \A t \in Threads : pc[t] \in Middle \/ pc'[t] \in Middle
                                => pc'[t] = pc[t] /\ reg'[t] = reg[t]
      PROVE  TotalsInv'
  <2>1. \A k \in Threads : Adding(k)' <=> Adding(k)
    BY <1>3 DEF Adding, ZeroPlace, Middle
  <2> QED
    BY <1>1, <1>3, <2>1 DEF TotalsInv, StorePlace, Middle, sums
<1>4. CASE SendPacketID \/ Stamp \/ RoundTrip \/ ClearStamp \/ \E p \in wire : ReceivePacketID(p)
  <2>1. \A k \in Threads : Due(k)' = Due(k)
    BY <1>4, DueKept
  <2>2. UNCHANGED sums
    BY <1>4 DEF SendPacketID, Stamp, RoundTrip, ClearStamp, ReceivePacketID
  <2>3. \A t \in Threads : pc[t] \in Middle \/ pc'[t] \in Middle
                           => pc'[t] = pc[t] /\ reg'[t] = reg[t]
    <3>1. CASE SendPacketID
      BY <3>1, PlacesOfCalls DEF SendPacketID, Middle
    <3>2. CASE Stamp
      BY <3>2, PlacesOfCalls DEF Stamp, Middle
    <3>3. CASE RoundTrip
      <4>1. reg'["batch"] = reg["batch"]
        BY <3>3 DEF RoundTrip, Load, TypeOK
      <4> QED
        BY <3>3, <4>1, PlacesOfCalls DEF RoundTrip, Middle
    <3>4. CASE ClearStamp
      BY <3>4, PlacesOfCalls DEF ClearStamp, Middle
    <3>5. ASSUME NEW p \in wire, ReceivePacketID(p)
          PROVE  \A t \in Threads : pc[t] \in Middle \/ pc'[t] \in Middle
                                    => pc'[t] = pc[t] /\ reg'[t] = reg[t]
      <4>1. /\ pc["com"] = "idle" /\ pc'["com"] \in {"idle", "rtt"} /\ pc'["batch"] = pc["batch"]
            /\ reg' = reg
        BY <3>5, PlacesOfCalls DEF ReceivePacketID
      <4> QED
        BY <4>1 DEF Middle
    <3> QED
      BY <1>4, <3>1, <3>2, <3>3, <3>4, <3>5
  <2> QED
    BY <1>3, <2>1, <2>2, <2>3
<1>5. ASSUME NEW t \in Threads, Test(t) \/ SaveDelta(t) \/ NextDelta(t) \/ CountPacket(t)
      PROVE  /\ \A k \in Threads : Due(k)' = Due(k)
             /\ \A u \in Threads : u # t => pc'[u] = pc[u] /\ reg'[u] = reg[u]
  BY <1>5, DueKept, AmongDeltas
<1>6. ASSUME NEW t \in Threads, Test(t) \/ NextDelta(t)
      PROVE  TotalsInv'
  <2>1. UNCHANGED sums /\ pc[t] \notin Middle /\ pc'[t] \notin Middle
    BY <1>6, PlacesOfCalls DEF Test, NextDelta, Middle
  <2> QED
    BY <1>3, <1>5, <1>6, <2>1
<1>7. ASSUME NEW t \in Threads, NEW k \in Threads, NEW next \in DeltaPlaces \ Middle,
             NEW load \in DeltaPlaces \ Middle, SaveDelta(t),
             AddRate(t, k, load, StorePlace(k), ZeroPlace(k), next)
      PROVE  TotalsInv'
  <2>1. \A i \in Threads : StorePlace(i) \in DeltaPlaces /\ ZeroPlace(i) \in DeltaPlaces
    BY DEF StorePlace, ZeroPlace, DeltaPlaces
  <2>2. pc[t] \in DeltaPlaces
    BY <1>7, <2>1 DEF AddRate, Step
  <2>3. \A u \in Threads : u # t => pc[u] \notin DeltaPlaces /\ pc'[u] = pc[u]
    BY <1>1, <1>5, <1>7, <2>2 DEF InDeltas
  <2>4. \A i \in Threads : Due(i)' = Due(i)
    BY <1>5, <1>7
  <2>5. \A i \in Threads : /\ (Adding(i) <=> pc[t] = ZeroPlace(i))
                           /\ (Adding(i)' <=> pc'[t] = ZeroPlace(i))
    BY <2>1, <2>3 DEF Adding
  <2>6. \A u \in Threads : u # t => pc'[u] # "counted" /\ \A i \in Threads : pc'[u] # StorePlace(i)
    BY <2>1, <2>3 DEF DeltaPlaces
  <2>7. /\ "counted" \in Middle
        /\ \A i \in Threads :
             /\ StorePlace(i) \in Middle /\ ZeroPlace(i) \in Middle
             /\ StorePlace(i) # "counted" /\ ZeroPlace(i) # "counted"
             /\ \A j \in Threads : StorePlace(i) # ZeroPlace(j)
             /\ \A j \in Threads : i # j => StorePlace(i) # StorePlace(j) /\ ZeroPlace(i) # ZeroPlace(j)
    BY DEF StorePlace, ZeroPlace, Middle
  <2>8. CASE Step(t, load, StorePlace(k)) /\ Load(t, PPS_delta_sum[k] + PPS_cur_delta[k]) /\ UNCHANGED sums
    <3>1. pc[t] = load /\ pc'[t] = StorePlace(k)
      BY <2>8, PlacesOfCalls
    <3>2. reg'[t] = PPS_delta_sum[k] + PPS_cur_delta[k]
      BY <2>8 DEF Load, TypeOK
    <3> QED
      BY <1>1, <2>4, <2>5, <2>6, <2>7, <2>8, <3>1, <3>2 DEF TotalsInv, sums
  <2>9. CASE /\ Step(t, StorePlace(k), ZeroPlace(k))
             /\ PPS_delta_sum' = [PPS_delta_sum EXCEPT ![k] = reg[t]]
             /\ UNCHANGED <<PPS_cur_delta, reg>>
    <3>1. pc[t] = StorePlace(k) /\ pc'[t] = ZeroPlace(k)
      BY <2>9, PlacesOfCalls
    <3>2. /\ PPS_delta_sum'[k] = reg[t]
          /\ \A i \in Threads : i # k => PPS_delta_sum'[i] = PPS_delta_sum[i]
      BY <2>9 DEF TypeOK
    <3>3. ~Adding(k) /\ PPS_delta_sum'[k] = Due(k)
      BY <1>1, <2>5, <2>7, <3>1, <3>2
    <3> QED
      BY <1>1, <2>4, <2>5, <2>6, <2>7, <2>9, <3>1, <3>2, <3>3 DEF TotalsInv
  <2>10. CASE /\ Step(t, ZeroPlace(k), next)
              /\ PPS_cur_delta' = [PPS_cur_delta EXCEPT ![k] = 0]
              /\ UNCHANGED <<PPS_delta_sum, reg>>
    <3>1. pc[t] = ZeroPlace(k) /\ pc'[t] = next
      BY <2>10, PlacesOfCalls
    <3>2. /\ PPS_cur_delta'[k] = 0
          /\ \A i \in Threads : i # k => PPS_cur_delta'[i] = PPS_cur_delta[i]
      BY <2>10 DEF TypeOK
    <3>3. PPS_delta_sum'[k] + PPS_cur_delta'[k] = Due(k)
      BY <1>1, <1>2, <2>5, <2>10, <3>1, <3>2
    <3> QED
      BY <1>1, <2>4, <2>5, <2>6, <2>7, <2>10, <3>1, <3>2, <3>3 DEF TotalsInv
  <2> QED
    BY <1>7, <2>8, <2>9, <2>10 DEF AddRate
<1>8. ASSUME NEW t \in Threads, SaveDelta(t)
      PROVE  TotalsInv'
  <2>1. CASE Step(t, "push_back", "start") /\ UNCHANGED <<sums, reg>>
    <3>1. UNCHANGED sums /\ pc[t] \notin Middle /\ pc'[t] \notin Middle
      BY <2>1, PlacesOfCalls DEF Middle
    <3> QED
      BY <1>3, <1>5, <1>8, <3>1
  <2>2. /\ "com" \in Threads /\ "batch" \in Threads
        /\ "load_com" \in DeltaPlaces \ Middle /\ "load_batch" \in DeltaPlaces \ Middle
        /\ "push_back" \in DeltaPlaces \ Middle
        /\ StorePlace("com") = "store_com" /\ ZeroPlace("com") = "zero_com"
        /\ StorePlace("batch") = "store_batch" /\ ZeroPlace("batch") = "zero_batch"
    BY DEF DeltaPlaces, Middle, StorePlace, ZeroPlace
  <2>3. CASE AddRate(t, "com", "load_com", "store_com", "zero_com", "load_batch")
    BY <1>7, <1>8, <2>2, <2>3
  <2>4. CASE AddRate(t, "batch", "load_batch", "store_batch", "zero_batch", "push_back")
    BY <1>7, <1>8, <2>2, <2>4
  <2> QED
    BY <1>8, <2>1, <2>3, <2>4 DEF SaveDelta
<1>9. ASSUME NEW t \in Threads, CountPacket(t)
      PROVE  TotalsInv'
  <2>1. pc[t] = "count" /\ pc'[t] = "counted" /\ UNCHANGED sums
    BY <1>9, PlacesOfCalls DEF CountPacket
  <2>2. reg'[t] = PPS_cur_delta[t] + 1
    BY <1>9 DEF CountPacket, Load, TypeOK
  <2>3. /\ \A k \in Threads : Due(k)' = Due(k)
        /\ \A u \in Threads : u # t => pc'[u] = pc[u] /\ reg'[u] = reg[u]
    BY <1>5, <1>9
  <2>4. \A k \in Threads : Adding(k)' <=> Adding(k)
    BY <2>1, <2>3 DEF Adding, ZeroPlace
  <2> QED
    BY <1>1, <2>1, <2>2, <2>3, <2>4 DEF TotalsInv, StorePlace, sums
<1>10. ASSUME NEW t \in Threads, Return(t)
       PROVE  TotalsInv'
  <2>1. /\ pc[t] = "counted" /\ pc'[t] = "idle" /\ UNCHANGED <<count, PPS_delta_sum>>
        /\ \A u \in Threads : u # t => pc'[u] = pc[u]
    BY <1>10, PlacesOfCalls DEF Return
  <2>2. /\ PPS_cur_delta'[t] = reg[t]
        /\ \A u \in Threads : u # t => PPS_cur_delta'[u] = PPS_cur_delta[u] /\ reg'[u] = reg[u]
    BY <1>10 DEF Return, Load, TypeOK
  <2>3. Due(t)' = Due(t) + 1 /\ \A u \in Threads : u # t => Due(u)' = Due(u)
    <3>1. count[t] \in Nat
      BY DEF TypeOK
    <3> QED
      BY <2>1, <3>1 DEF Due, DeltaPlaces
  <2>4. \A u \in Threads : u # t => pc[u] \notin DeltaPlaces
    BY <1>1, <2>1 DEF InDeltas, DeltaPlaces
  <2>5. \A k \in Threads : ~Adding(k) /\ ~Adding(k)'
    BY <2>1, <2>4 DEF Adding, ZeroPlace, DeltaPlaces
  <2>6. reg[t] = PPS_cur_delta[t] + 1
    BY <1>1, <2>1
  <2>7. \A k \in Threads : PPS_delta_sum'[k] + PPS_cur_delta'[k] = Due(k)'
    BY <1>1, <1>2, <2>1, <2>2, <2>3, <2>5, <2>6
  <2>8. \A u \in Threads : pc'[u] \notin DeltaPlaces
    BY <2>1, <2>4 DEF DeltaPlaces
  <2> QED
    BY <2>5, <2>7, <2>8 DEF TotalsInv, StorePlace, DeltaPlaces
<1>11. CASE Tick
  <2>1. UNCHANGED <<sums, pc, reg, count>>
    BY <1>11 DEF Tick, ring
  <2>2. \A k \in Threads : Due(k)' = Due(k)
    BY <2>1 DEF Due
  <2> QED
    BY <1>3, <2>1, <2>2
<1> QED
  BY <1>4, <1>6, <1>8, <1>9, <1>10, <1>11 DEF Call

\* Both invariants as the steps of the specification preserve them.
LEMMA TotalsNext == TypeOK /\ TotalsInv /\ [Next]_vars => TotalsInv'
<1> SUFFICES ASSUME TypeOK, TotalsInv, [Next]_vars PROVE TotalsInv'
  OBVIOUS
<1>1. CASE UNCHANGED vars
  BY <1>1 DEF TotalsInv, InDeltas, Adding, Due, vars, ring, sums
<1>2. CASE (Call \/ Tick) /\ clash' = (clash \/ \A t \in Threads : InDeltas(t)')
  <2>1. CASE clash'
    BY <2>1 DEF TotalsInv
  <2>2. CASE ~clash'
    <3>1. ~clash /\ ~(InDeltas("batch") /\ InDeltas("com"))'
      BY <1>2, <2>2, ThreadsAre
    <3> QED
      BY <1>2, <3>1, TotalsStep
  <2> QED
    BY <2>1, <2>2
<1> QED
  BY <1>1, <1>2 DEF Next, Done

(* As long as the two threads are not among the deltas at the same time, all *)
(* packets are in the deltas, each in one: of all of config.hpp, a lock      *)
(* around ChangeDelta() and the count behind it is what the totals need.     *)
THEOREM TotalsAreSafe == Spec => []TotalsUnlessClash
<1>1. TypeOK /\ TotalsInv => TotalsUnlessClash
  <2> SUFFICES ASSUME TypeOK, TotalsInv, ~clash, NEW t \in Threads,
                      pc[t] \in {"idle", "stamp", "rtt", "clear"},
                      \A u \in Threads : ~InDeltas(u)
               PROVE  PPS_delta_sum[t] + PPS_cur_delta[t] = count[t]
    BY DEF TotalsUnlessClash
  <2>1. ~Adding(t)
    BY DEF Adding, ZeroPlace, InDeltas, DeltaPlaces
  <2>2. count[t] \in Nat
    BY DEF TypeOK
  <2>3. Due(t) = count[t]
    BY <2>2 DEF Due, DeltaPlaces
  <2> QED
    BY <2>1, <2>3 DEF TotalsInv
<1> QED
  BY <1>1, TotalsInit, TotalsNext, TypeCorrect, PTL DEF Spec

-----------------------------------------------------------------------------
(* The rates.                                                                *)
LEMMA RatesStep ==
    ASSUME TypeOK, RatesInv, Call \/ Tick, ~clash, ~(InDeltas("batch") /\ InDeltas("com"))'
    PROVE  RatesInv'
<1> USE ThreadsAre
<1> DEFINE Moving == {"stop", "store_stop"}
<1>1. /\ (\A t \in Threads : pc[t] \notin Moving)
           => tsCur_delta_STOP = tsCur_delta_START + Delta_t
      /\ \A t \in Threads : pc[t] = "store_stop" => reg[t] = tsCur_delta_START + Delta_t
      /\ ~(InDeltas("batch") /\ InDeltas("com"))
  BY DEF RatesInv
<1>2. ASSUME UNCHANGED delta,
             \A t \in Threads : pc[t] \in Moving \/ pc'[t] \in Moving
                                => pc'[t] = pc[t] /\ reg'[t] = reg[t]
      PROVE  RatesInv'
  BY <1>1, <1>2 DEF RatesInv, delta
<1>3. ASSUME NEW t \in Threads, UNCHANGED delta,
             pc[t] \notin Moving, pc'[t] \notin Moving,
             \A u \in Threads : u # t => pc'[u] = pc[u] /\ reg'[u] = reg[u]
      PROVE  RatesInv'
  BY <1>2, <1>3
<1>4. CASE SendPacketID
  BY <1>2, <1>4, PlacesOfCalls DEF SendPacketID
<1>5. CASE Stamp
  BY <1>2, <1>5, PlacesOfCalls DEF Stamp
<1>6. CASE RoundTrip
  <2>1. reg'["batch"] = reg["batch"]
    BY <1>6 DEF RoundTrip, Load, TypeOK
  <2> QED
    BY <1>3, <1>6, <2>1, PlacesOfCalls DEF RoundTrip
<1>7. CASE ClearStamp
  BY <1>2, <1>7, PlacesOfCalls DEF ClearStamp
<1>8. ASSUME NEW p \in wire, ReceivePacketID(p)
      PROVE  RatesInv'
  <2>1. /\ pc["com"] = "idle" /\ pc'["com"] \in {"idle", "rtt"} /\ pc'["batch"] = pc["batch"]
        /\ reg' = reg /\ UNCHANGED delta
    BY <1>8, PlacesOfCalls DEF ReceivePacketID
  <2> QED
    BY <1>2, <2>1
<1>9. ASSUME NEW t \in Threads, Test(t) \/ SaveDelta(t) \/ CountPacket(t)
      PROVE  RatesInv'
  <2>1. UNCHANGED delta
    BY <1>9 DEF Test, SaveDelta, CountPacket
  <2>2. pc[t] \notin Moving /\ pc'[t] \notin Moving
    BY <1>9, PlacesOfCalls DEF Test, SaveDelta, AddRate, CountPacket
  <2> QED
    BY <1>3, <1>9, <2>1, <2>2, AmongDeltas
<1>10. ASSUME NEW t \in Threads, NextDelta(t)
       PROVE  RatesInv'
  <2>1. /\ pc[t] \in DeltaPlaces
        /\ \A u \in Threads : u # t => pc'[u] = pc[u] /\ reg'[u] = reg[u]
    BY <1>10, AmongDeltas, PlacesOfCalls DEF NextDelta, DeltaPlaces
  <2>2. \A u \in Threads : u # t => pc[u] \notin Moving
    BY <1>1, <2>1 DEF InDeltas, DeltaPlaces
  <2>3. CASE Step(t, "start", "stop") /\ UNCHANGED reg
    BY <2>1, <2>2, <2>3, PlacesOfCalls DEF RatesInv
  <2>4. CASE Step(t, "stop", "store_stop") /\ Load(t, tsCur_delta_START + Delta_t) /\ UNCHANGED delta
    <3>1. reg'[t] = tsCur_delta_START + Delta_t
      BY <2>4 DEF Load, TypeOK
    <3> QED
      BY <2>1, <2>2, <2>4, <3>1, PlacesOfCalls DEF RatesInv, delta
  <2>5. CASE Step(t, "store_stop", "test") /\ tsCur_delta_STOP' = reg[t]
             /\ UNCHANGED tsCur_delta_START
    BY <1>1, <2>1, <2>2, <2>5, PlacesOfCalls DEF RatesInv
  <2> QED
    BY <1>10, <2>3, <2>4, <2>5 DEF NextDelta
<1>11. ASSUME NEW t \in Threads, Return(t)
       PROVE  RatesInv'
  <2>1. UNCHANGED delta /\ pc[t] \notin Moving /\ pc'[t] \notin Moving
    BY <1>11, PlacesOfCalls DEF Return
  <2>2. \A u \in Threads : u # t => pc'[u] = pc[u] /\ reg'[u] = reg[u]
    BY <1>11, PlacesOfCalls DEF Return, Load, TypeOK
  <2> QED
    BY <1>3, <2>1, <2>2
<1>12. CASE Tick
  BY <1>2, <1>12 DEF Tick
<1> QED
  BY <1>4, <1>5, <1>6, <1>7, <1>8, <1>9, <1>10, <1>11, <1>12 DEF Call

LEMMA RatesNext == TypeOK /\ RatesInv /\ [Next]_vars => RatesInv'
<1> SUFFICES ASSUME TypeOK, RatesInv, [Next]_vars PROVE RatesInv'
  OBVIOUS
<1>1. CASE UNCHANGED vars
  BY <1>1 DEF RatesInv, InDeltas, vars, delta
<1>2. CASE (Call \/ Tick) /\ clash' = (clash \/ \A t \in Threads : InDeltas(t)')
  <2>1. CASE clash'
    BY <2>1 DEF RatesInv
  <2>2. CASE ~clash'
    <3>1. ~clash /\ ~(InDeltas("batch") /\ InDeltas("com"))'
      BY <1>2, <2>2, ThreadsAre
    <3> QED
      BY <1>2, <3>1, RatesStep
  <2> QED
    BY <2>1, <2>2
<1> QED
  BY <1>1, <1>2 DEF Next, Done

(* ... and the same lock is what the rates need.                             *)
THEOREM RatesAreSafe == Spec => []RatesUnlessClash
<1>1. TypeOK /\ RatesInv => RatesUnlessClash
  <2> SUFFICES ASSUME TypeOK, RatesInv, ~clash, NEW t \in Threads,
                      pc[t] \in {"load_com", "load_batch"}
               PROVE  tsCur_delta_STOP - tsCur_delta_START = Delta_t
    BY DEF RatesUnlessClash, RatesOverDelta
  <2>1. \A u \in Threads : pc[u] \notin {"stop", "store_stop"}
    BY ThreadsAre DEF RatesInv, InDeltas, DeltaPlaces
  <2>2. tsCur_delta_STOP = tsCur_delta_START + Delta_t
    BY <2>1 DEF RatesInv
  <2> QED
    BY <2>2, RaceAssumption DEF TypeOK, RaceAssumption
<1> QED
  BY <1>1, TotalsInit, RatesNext, TypeCorrect, PTL DEF Spec
=============================================================================
