------------------------ MODULE PacketTrackingProofs ------------------------
(***************************************************************************)
(* Theorems about PacketTracking for every size of the ring, length of a   *)
(* delta, time and number of packets: types, the bookkeeping of a session, *)
(* that an answer is measured from its own stamp, that main reads exactly  *)
(* the switches with an answer, that deltas are windows of the clock, and  *)
(* which of the means and variances are such of the values in their sums.  *)
(***************************************************************************)
EXTENDS PacketTracking, FiniteSetTheorems, TLAPS

(* With the types, what SaveDelta() keeps: a delta is in the sums once.      *)
Sums ==
    /\ PPS_delta_sent.sum + cur.sent = PACKET_sent_count
    /\ cur.rttCount = cur.received
    /\ PPS_delta_counter = Len(vec_deltas) + 1

RingSums ==
    /\ PACKET_sent_count = Matched + Cardinality(Waiting) + underruns
    /\ Matched <= PACKET_received_count

(* A waiting packet's slot is its own, and holds its stamp.                  *)
RingInv ==
    clean /\ underruns = 0 =>
        /\ \A p \in wire : sent_packets_timestamp2[p.id - 1] = p.at /\ p.at > 0
        /\ \A p, q \in wire : p.id = q.id => p = q

(* The last answer of a session lies behind its reset.                       *)
LastInv ==
    /\ PACKET_received_count = 0 => tsLAST_PACKET_RECEIVED = 0
    /\ PACKET_received_count # 0 => tsLAST_PACKET_RECEIVED >= tsSTART

-----------------------------------------------------------------------------
LEMMA IncludeType ==
    ASSUME NEW s \in Values, NEW x \in Nat
    PROVE  Include(s, x) \in Values /\ Include(s, x).sum = s.sum + x
<1>1. x * x \in Nat
  OBVIOUS
<1> DEFINE xx == x * x
<1>2. /\ s.sum + x \in Nat /\ s.square + xx \in Nat
      /\ (IF x < s.min THEN x ELSE s.min) \in Nat
      /\ (IF x > s.max THEN x ELSE s.max) \in Nat
  <2> HIDE DEF xx
  <2> QED
    BY <1>1 DEF Values, xx
<1> HIDE DEF xx
<1>3. Include(s, x) = [sum |-> s.sum + x, square |-> s.square + xx,
                       min |-> IF x < s.min THEN x ELSE s.min,
                       max |-> IF x > s.max THEN x ELSE s.max]
  BY DEF Include, xx
<1> QED
  BY <1>2, <1>3 DEF Values

LEMMA SaveType ==
    ASSUME NEW s \in Values, NEW x \in Nat, NEW k
    PROVE  Save(s, x, k) \in Values /\ Save(s, x, k).sum = s.sum + x
<1>1. Include(s, x) \in Values /\ Include(s, x).sum = s.sum + x
  BY IncludeType
<1>2. /\ Include(Include(s, x), 0) \in Values
      /\ Include(Include(s, x), 0).sum = Include(s, x).sum + 0
  BY <1>1, IncludeType
<1> QED
  BY <1>1, <1>2 DEF Save, Values

LEMMA DeltasToSaveType == ASSUME TypeOK PROVE DeltasToSave \in Nat
<1>1. ASSUME NEW a \in Nat, NEW b \in Nat \ {0} PROVE a \div b \in Nat
  BY <1>1
<1>2. CASE tsCur_delta_STOP < now
  <2>1. now - tsCur_delta_STOP + Delta_t - 1 \in Nat
    BY <1>2, TrackingAssumption DEF TypeOK, TrackingAssumption
  <2> QED
    BY <1>1, <1>2, <2>1, TrackingAssumption DEF TrackingAssumption, DeltasToSave
<1> QED
  BY <1>2 DEF DeltasToSave

LEMMA Joined ==
    ASSUME NEW S, NEW s \in Seq(S), NEW t \in Seq(S)
    PROVE  s \o t \in Seq(S) /\ Len(s \o t) = Len(s) + Len(t)
OBVIOUS

LEMMA AddType ==
    ASSUME NEW a \in Delta, NEW b \in Delta
    PROVE  /\ Add(a, b) \in Delta
           /\ Add(a, b).sent = a.sent + b.sent /\ Add(a, b).received = a.received + b.received
           /\ Add(a, b).rttCount = a.rttCount + b.rttCount
BY DEF Delta, Add

\* What ChangeDelta() and the count behind it do, whoever calls them.
LEMMA DeltaKept ==
    ASSUME TypeOK, Sums, NEW add \in Delta, ChangeDeltaAndCount(add),
           add.rttCount = add.received
    PROVE  /\ tsCur_delta_START' \in Nat /\ tsCur_delta_STOP' \in Nat
           /\ cur' \in Delta /\ PPS_delta_counter' \in Nat
           /\ PPS_delta_sent' \in Values /\ PPS_delta_received' \in Values
           /\ vec_deltas' \in Seq(Delta)
           /\ PPS_delta_sent'.sum + cur'.sent = PACKET_sent_count + add.sent
           /\ cur'.rttCount = cur'.received
           /\ PPS_delta_counter' = Len(vec_deltas') + 1
           /\ PPS_delta_received'.sum + cur'.received = Matched + add.received
<1> DEFINE k == DeltasToSave
           saved == [i \in 1..k |-> IF i = 1 THEN cur ELSE NoPackets]
<1>1. k \in Nat
  BY DeltasToSaveType
<1>2. saved \in Seq(Delta) /\ Len(saved) = k
  <2>1. cur \in Delta /\ NoPackets \in Delta
    BY DEF TypeOK, NoPackets, Delta
  <2> HIDE DEF k
  <2>2. saved \in [1..k -> Delta]
    BY <2>1
  <2> QED
    BY <1>1, <2>2
<1>3. /\ tsCur_delta_START' = tsCur_delta_START + k * Delta_t
      /\ tsCur_delta_STOP' = tsCur_delta_STOP + k * Delta_t
      /\ PPS_delta_counter' = PPS_delta_counter + k
      /\ vec_deltas' = vec_deltas \o saved
      /\ k = 0 => /\ cur' = Add(cur, add)
                  /\ UNCHANGED <<PPS_delta_sent, PPS_delta_received>>
      /\ k # 0 => /\ cur' = add
                  /\ PPS_delta_sent' = Save(PPS_delta_sent, cur.sent, k)
                  /\ PPS_delta_received' = Save(PPS_delta_received, cur.received, k)
  BY DEF ChangeDeltaAndCount
<1> HIDE DEF k, saved
<1>4. tsCur_delta_START' \in Nat /\ tsCur_delta_STOP' \in Nat
  <2>1. k * Delta_t \in Nat
    BY <1>1, TrackingAssumption DEF TrackingAssumption
  <2> DEFINE shift == k * Delta_t
  <2> HIDE DEF shift
  <2>2. shift \in Nat /\ tsCur_delta_START' = tsCur_delta_START + shift
        /\ tsCur_delta_STOP' = tsCur_delta_STOP + shift
    BY <1>3, <2>1 DEF shift
  <2> QED
    BY <2>2 DEF TypeOK
<1>5. vec_deltas' \in Seq(Delta) /\ Len(vec_deltas') = Len(vec_deltas) + k
  <2>1. vec_deltas \in Seq(Delta)
    BY DEF TypeOK
  <2> QED
    BY <1>2, <1>3, <2>1, Joined
<1>6. PPS_delta_counter' = Len(vec_deltas') + 1 /\ PPS_delta_counter' \in Nat
  BY <1>1, <1>3, <1>5 DEF Sums, TypeOK
<1>7. /\ cur.sent \in Nat /\ cur.received \in Nat /\ cur.rttSum \in Nat /\ cur.rttCount \in Nat
      /\ add.sent \in Nat /\ add.received \in Nat /\ add.rttSum \in Nat /\ add.rttCount \in Nat
      /\ PPS_delta_sent \in Values /\ PPS_delta_received \in Values
      /\ PPS_delta_sent.sum \in Nat /\ PPS_delta_received.sum \in Nat
  BY DEF TypeOK, Delta, Values
<1>8. /\ cur.rttCount = cur.received
      /\ PPS_delta_sent.sum + cur.sent = PACKET_sent_count
      /\ Matched = PPS_delta_received.sum + cur.received
  BY DEF Sums, Matched
<1>9. CASE k = 0
  <2>1. /\ cur'.sent = cur.sent + add.sent /\ cur'.received = cur.received + add.received
        /\ cur'.rttCount = cur.rttCount + add.rttCount /\ cur' \in Delta
    BY <1>3, <1>9, AddType DEF TypeOK
  <2>2. PPS_delta_sent' = PPS_delta_sent /\ PPS_delta_received' = PPS_delta_received
    BY <1>3, <1>9
  <2>3. PACKET_sent_count \in Nat
    BY DEF TypeOK
  <2>4. PPS_delta_sent'.sum + cur'.sent = PACKET_sent_count + add.sent
    BY <1>7, <1>8, <2>1, <2>2, <2>3
  <2>5. PPS_delta_received'.sum + cur'.received = Matched + add.received
    BY <1>7, <1>8, <2>1, <2>2
  <2>6. cur'.rttCount = cur'.received
    BY <1>7, <1>8, <2>1
  <2> QED
    BY <1>4, <1>5, <1>6, <1>7, <2>1, <2>2, <2>4, <2>5, <2>6
<1>10. CASE k # 0
  <2>1. /\ PPS_delta_sent' \in Values /\ PPS_delta_received' \in Values
        /\ PPS_delta_sent'.sum = PPS_delta_sent.sum + cur.sent
        /\ PPS_delta_received'.sum = PPS_delta_received.sum + cur.received
    BY <1>3, <1>7, <1>10, SaveType
  <2>2. cur' = add
    BY <1>3, <1>10
  <2> QED
    BY <1>4, <1>5, <1>6, <1>7, <1>8, <2>1, <2>2
<1> QED
  BY <1>9, <1>10

LEMMA WaitingFinite == IsFiniteSet(Waiting) /\ Cardinality(Waiting) \in Nat
<1>1. IsFiniteSet(Slots)
  BY FS_Interval, TrackingAssumption DEF TrackingAssumption, Slots
<1>2. IsFiniteSet(Waiting)
  BY <1>1, FS_Subset DEF Waiting
<1> QED
  BY <1>2, FS_CardinalityType

-----------------------------------------------------------------------------
(* Types and the sums of the deltas, which keep each other.                  *)
LEMMA TypeInit == Init => TypeOK /\ Sums
<1> SUFFICES ASSUME Init PROVE TypeOK /\ Sums
  OBVIOUS
<1> USE TrackingAssumption DEF TrackingAssumption
<1>1. /\ now = 1 /\ tsSTART = 1 /\ tsLAST_PACKET_RECEIVED = 0
      /\ PACKET_sent_count = 0 /\ PACKET_received_count = 0 /\ RTT = NoValues
      /\ tsCur_delta_START = 1 /\ tsCur_delta_STOP = 1 + Delta_t
      /\ cur = NoPackets /\ PPS_delta_counter = 1
      /\ PPS_delta_sent = NoValues /\ PPS_delta_received = NoValues
      /\ vec_deltas = << >> /\ wire = {} /\ session = 1 /\ underruns = 0
  BY DEF Init
<1>2. clean \in BOOLEAN
  BY DEF Init
<1>3. /\ sent_packets_timestamp2 \in [Slots -> 0..now]
      /\ sendTimes \in Seq(Nat) /\ matchTimes \in Seq(Nat)
  BY <1>1 DEF Init
<1>4. NoValues \in Values /\ NoPackets \in Delta
  BY DEF NoValues, Values, NoPackets, Delta
<1>5. NoValues.sum = 0 /\ NoPackets.sent = 0 /\ NoPackets.rttCount = NoPackets.received
  BY DEF NoValues, NoPackets
<1>6. vec_deltas \in Seq(Delta) /\ Len(vec_deltas) = 0
  BY <1>1
<1>7. TypeOK
  BY <1>1, <1>2, <1>3, <1>4, <1>6 DEF TypeOK
<1>8. Sums
  BY <1>1, <1>5, <1>6 DEF Sums
<1> QED
  BY <1>7, <1>8

LEMMA ResetIsInit ==
    ASSUME TypeOK, reset_statistic
    PROVE  TypeOK' /\ Sums'
<1> USE TrackingAssumption DEF TrackingAssumption
<1>1. /\ now' = now /\ tsSTART' = now /\ tsLAST_PACKET_RECEIVED' = 0
      /\ PACKET_sent_count' = 0 /\ PACKET_received_count' = 0 /\ RTT' = NoValues
      /\ tsCur_delta_START' = now /\ tsCur_delta_STOP' = now + Delta_t
      /\ cur' = NoPackets /\ PPS_delta_counter' = 1
      /\ PPS_delta_sent' = NoValues /\ PPS_delta_received' = NoValues
      /\ vec_deltas' = << >> /\ wire' \subseteq wire /\ session' = session + 1 /\ underruns' = 0
  BY DEF reset_statistic
<1>2. clean' \in BOOLEAN
  BY DEF reset_statistic
<1>3. now \in Nat \ {0} /\ session \in Nat /\ wire \subseteq Packet
  BY DEF TypeOK
<1>4. /\ sent_packets_timestamp2' \in [Slots -> 0..now]
      /\ sendTimes' \in Seq(Nat) /\ matchTimes' \in Seq(Nat)
  BY <1>3 DEF reset_statistic
<1>5. NoValues \in Values /\ NoPackets \in Delta
  BY DEF NoValues, Values, NoPackets, Delta
<1>6. NoValues.sum = 0 /\ NoPackets.sent = 0 /\ NoPackets.rttCount = NoPackets.received
  BY DEF NoValues, NoPackets
<1>7. vec_deltas' \in Seq(Delta) /\ Len(vec_deltas') = 0
  BY <1>1
<1>8. TypeOK'
  BY <1>1, <1>2, <1>3, <1>4, <1>5, <1>7 DEF TypeOK
<1>9. Sums'
  BY <1>1, <1>6, <1>7 DEF Sums
<1> QED
  BY <1>8, <1>9

LEMMA MatchedType == ASSUME TypeOK PROVE Matched \in Nat
<1>1. cur.received \in Nat
  BY DEF TypeOK, Delta
<1>2. PPS_delta_received.sum \in Nat
  BY DEF TypeOK, Values
<1> QED
  BY <1>1, <1>2 DEF Matched

LEMMA SlotType == ASSUME NEW n \in Nat PROVE Slot(n) \in Slots
BY TrackingAssumption DEF TrackingAssumption, Slot, Slots

One(r) == [sent |-> 0, received |-> 1, rttSum |-> r, rttCount |-> 1]
SentOne == [NoPackets EXCEPT !.sent = 1]

LEMMA SentOneType == SentOne \in Delta /\ SentOne.sent = 1 /\ SentOne.received = 0
                     /\ SentOne.rttCount = SentOne.received
BY DEF SentOne, NoPackets, Delta

LEMMA OneType ==
    ASSUME NEW r \in Nat
    PROVE  One(r) \in Delta /\ One(r).sent = 0 /\ One(r).received = 1
           /\ One(r).rttCount = One(r).received
BY DEF One, Delta

\* A packet sent.
LEMMA SendKeeps ==
    ASSUME TypeOK, Sums, SendPacketID
    PROVE  TypeOK' /\ Sums' /\ Matched' = Matched
<1> DEFINE n == PACKET_sent_count + 1
           i == Slot(n)
           p == [session |-> session, no |-> n, id |-> i + 1, at |-> now]
<1>1. n \in Nat /\ i \in Slots /\ now \in Nat \ {0}
  BY SlotType DEF TypeOK
<1>2. /\ PACKET_sent_count' = n
      /\ sent_packets_timestamp2' = [sent_packets_timestamp2 EXCEPT ![i] = now]
      /\ underruns' = underruns + (IF BufferUnderRun(i) THEN 1 ELSE 0)
      /\ ChangeDeltaAndCount(SentOne)
      /\ wire' = wire \cup {p}
      /\ sendTimes' = Append(sendTimes, now)
      /\ UNCHANGED <<now, tsSTART, tsLAST_PACKET_RECEIVED, PACKET_received_count, RTT,
                     session, clean, matchTimes>>
  BY DEF SendPacketID, SentOne
<1>3. p \in Packet
  BY <1>1, TrackingAssumption DEF TypeOK, Packet, Slots, TrackingAssumption
<1> HIDE DEF n, i, p
<1>4. /\ tsCur_delta_START' \in Nat /\ tsCur_delta_STOP' \in Nat
      /\ cur' \in Delta /\ PPS_delta_counter' \in Nat
      /\ PPS_delta_sent' \in Values /\ PPS_delta_received' \in Values
      /\ vec_deltas' \in Seq(Delta)
      /\ PPS_delta_sent'.sum + cur'.sent = PACKET_sent_count + 1
      /\ cur'.rttCount = cur'.received
      /\ PPS_delta_counter' = Len(vec_deltas') + 1
      /\ PPS_delta_received'.sum + cur'.received = Matched + 0
  BY <1>2, DeltaKept, SentOneType
<1>5. sent_packets_timestamp2' \in [Slots -> 0..now]
  BY <1>1, <1>2 DEF TypeOK
<1>6. sendTimes' \in Seq(Nat)
  BY <1>1, <1>2 DEF TypeOK
<1>7. underruns' \in Nat /\ wire' \subseteq Packet
  BY <1>2, <1>3 DEF TypeOK
<1>8. TypeOK'
  BY <1>1, <1>2, <1>4, <1>5, <1>6, <1>7 DEF TypeOK
<1>9. Matched \in Nat
  BY MatchedType
<1>10. Sums' /\ Matched' = Matched
  BY <1>2, <1>4, <1>9 DEF Sums, Matched, n
<1> QED
  BY <1>8, <1>10

\* An answer handled; it is matched if a stamp waits in its slot.
LEMMA AnswerKeeps ==
    ASSUME TypeOK, Sums, NEW p \in wire, ProcessAnswer(p)
    PROVE  /\ TypeOK' /\ Sums'
           /\ p.id - 1 \in Waiting => Matched' = Matched + 1
           /\ p.id - 1 \notin Waiting => Matched' = Matched
<1> DEFINE i == p.id - 1
           rtt == now - sent_packets_timestamp2[i]
<1>1. p \in Packet /\ i \in Slots /\ now \in Nat \ {0}
  BY TrackingAssumption DEF TypeOK, Packet, Slots, TrackingAssumption
<1>2. /\ tsLAST_PACKET_RECEIVED' = now
      /\ PACKET_received_count' = PACKET_received_count + 1
      /\ i \notin Waiting => UNCHANGED <<sent_packets_timestamp2, RTT, deltas, matchTimes>>
      /\ i \in Waiting => /\ sent_packets_timestamp2' = [sent_packets_timestamp2 EXCEPT ![i] = 0]
                          /\ RTT' = Include(RTT, rtt)
                          /\ ChangeDeltaAndCount(One(rtt))
                          /\ matchTimes' = Append(matchTimes, now)
      /\ UNCHANGED <<now, tsSTART, PACKET_sent_count, session, underruns, sendTimes>>
  BY DEF ProcessAnswer, ReceivePacketID, ClearStamp, One
<1>3. wire' \subseteq Packet
  BY DEF ProcessAnswer, TypeOK
<1>4. clean' \in BOOLEAN
  BY DEF ProcessAnswer, TypeOK
<1>5. rtt \in Nat
  BY <1>1 DEF TypeOK
<1> HIDE DEF i, rtt
<1>6. CASE i \notin Waiting
  <2>1. UNCHANGED <<sent_packets_timestamp2, RTT, tsCur_delta_START, tsCur_delta_STOP, cur,
                    PPS_delta_counter, PPS_delta_sent, PPS_delta_received, vec_deltas, matchTimes>>
    BY <1>2, <1>6 DEF deltas
  <2>2. TypeOK'
    BY <1>2, <1>3, <1>4, <2>1 DEF TypeOK
  <2>3. Sums' /\ Matched' = Matched
    BY <1>2, <2>1 DEF Sums, Matched
  <2> QED
    BY <1>6, <2>2, <2>3 DEF i
<1>7. CASE i \in Waiting
  <2>1. /\ tsCur_delta_START' \in Nat /\ tsCur_delta_STOP' \in Nat
        /\ cur' \in Delta /\ PPS_delta_counter' \in Nat
        /\ PPS_delta_sent' \in Values /\ PPS_delta_received' \in Values
        /\ vec_deltas' \in Seq(Delta)
        /\ PPS_delta_sent'.sum + cur'.sent = PACKET_sent_count + 0
        /\ cur'.rttCount = cur'.received
        /\ PPS_delta_counter' = Len(vec_deltas') + 1
        /\ PPS_delta_received'.sum + cur'.received = Matched + 1
    BY <1>2, <1>5, <1>7, DeltaKept, OneType
  <2>2. sent_packets_timestamp2' \in [Slots -> 0..now]
    <3>1. 0 \in 0..now /\ sent_packets_timestamp2 \in [Slots -> 0..now]
      BY <1>1 DEF TypeOK
    <3> QED
      BY <1>1, <1>2, <1>7, <3>1
  <2>3. matchTimes' \in Seq(Nat)
    <3>1. matchTimes \in Seq(Nat) /\ now \in Nat
      BY DEF TypeOK
    <3> QED
      BY <1>2, <1>7, <3>1
  <2>4. RTT' \in Values
    BY <1>2, <1>5, <1>7, IncludeType DEF TypeOK
  <2>5. TypeOK'
    BY <1>1, <1>2, <1>3, <1>4, <2>1, <2>2, <2>3, <2>4 DEF TypeOK
  <2>6. PACKET_sent_count \in Nat
    BY DEF TypeOK
  <2>7. Sums' /\ Matched' = Matched + 1
    BY <1>2, <2>1, <2>6 DEF Sums, Matched
  <2> QED
    BY <1>7, <2>5, <2>7 DEF i
<1> QED
  BY <1>6, <1>7

LEMMA TypeStep == TypeOK /\ Sums /\ [Next]_vars => TypeOK' /\ Sums'
<1> SUFFICES ASSUME TypeOK, Sums, [Next]_vars PROVE TypeOK' /\ Sums'
  OBVIOUS
<1>1. CASE UNCHANGED vars
  BY <1>1 DEF vars, counters, deltas, history, TypeOK, Sums
<1>2. CASE Tick
  <2>1. sent_packets_timestamp2 \in [Slots -> 0..now']
    BY <1>2 DEF Tick, TypeOK
  <2> QED
    BY <1>2, <2>1 DEF Tick, counters, deltas, history, TypeOK, Sums
<1> QED
  BY <1>1, <1>2, ResetIsInit, SendKeeps, AnswerKeeps DEF Next, Done

LEMMA TypeAndSums == Spec => [](TypeOK /\ Sums)
BY TypeInit, TypeStep, PTL DEF Spec

(* Types of all variables of PacketTracking, in every reachable state: no    *)
(* stamp lies in the future, so no round trip time is negative.              *)
THEOREM TypeCorrect == Spec => []TypeOK
BY TypeAndSums, PTL

-----------------------------------------------------------------------------
(* The bookkeeping of the ring.                                              *)
LEMMA RingSumsInit == Init => RingSums /\ RingInv /\ LastInv
<1> SUFFICES ASSUME Init PROVE RingSums /\ RingInv /\ LastInv
  OBVIOUS
<1>1. Waiting = {} /\ Matched = 0
  BY DEF Init, Waiting, Matched, NoValues, NoPackets
<1>2. Cardinality(Waiting) = 0
  BY <1>1, FS_EmptySet
<1> QED
  BY <1>1, <1>2 DEF Init, RingSums, RingInv, LastInv

\* Filling or emptying a slot changes the number of waiting packets by one.
LEMMA WaitingSend ==
    ASSUME TypeOK, NEW i \in Slots, sent_packets_timestamp2' = [sent_packets_timestamp2 EXCEPT ![i] = now]
    PROVE  Cardinality(Waiting') = Cardinality(Waiting) + (IF i \in Waiting THEN 0 ELSE 1)
<1>1. now # 0
  BY DEF TypeOK
<1>2. Waiting' = Waiting \cup {i}
  BY <1>1 DEF Waiting, TypeOK
<1> QED
  BY <1>2, WaitingFinite, FS_AddElement

LEMMA WaitingMatched ==
    ASSUME TypeOK, NEW i \in Waiting, sent_packets_timestamp2' = [sent_packets_timestamp2 EXCEPT ![i] = 0]
    PROVE  Cardinality(Waiting') = Cardinality(Waiting) - 1
<1>1. Waiting' = Waiting \ {i}
  BY DEF Waiting, TypeOK
<1> QED
  BY <1>1, WaitingFinite, FS_RemoveElement

LEMMA RingSumsStep == TypeOK /\ Sums /\ RingSums /\ [Next]_vars => RingSums'
<1> SUFFICES ASSUME TypeOK, Sums, RingSums, [Next]_vars PROVE RingSums'
  OBVIOUS
<1>1. /\ Cardinality(Waiting) \in Nat /\ Matched \in Nat /\ underruns \in Nat
      /\ PACKET_sent_count \in Nat /\ PACKET_received_count \in Nat
  <2>3. Matched \in Nat
    BY MatchedType
  <2>4. Cardinality(Waiting) \in Nat
    BY WaitingFinite
  <2> QED
    BY <2>3, <2>4 DEF TypeOK
<1>2. CASE UNCHANGED vars \/ Tick
  <2>1. UNCHANGED <<sent_packets_timestamp2, PACKET_sent_count, PACKET_received_count, cur,
                    PPS_delta_received, underruns>>
    BY <1>2 DEF Tick, vars, counters, deltas, history
  <2> QED
    BY <2>1 DEF RingSums, Waiting, Matched
<1>3. CASE reset_statistic
  <2>1. Waiting' = {}
    BY <1>3 DEF reset_statistic, Waiting
  <2>2. Matched' = 0 /\ PACKET_sent_count' = 0 /\ PACKET_received_count' = 0 /\ underruns' = 0
    BY <1>3 DEF reset_statistic, Matched, NoValues, NoPackets
  <2>3. Cardinality(Waiting') = 0
    BY <2>1, FS_EmptySet
  <2> QED
    BY <2>2, <2>3 DEF RingSums
<1>4. CASE SendPacketID
  <2> DEFINE i == Slot(PACKET_sent_count + 1)
  <2>1. /\ PACKET_sent_count' = PACKET_sent_count + 1
        /\ sent_packets_timestamp2' = [sent_packets_timestamp2 EXCEPT ![i] = now]
        /\ underruns' = underruns + (IF i \in Waiting THEN 1 ELSE 0)
        /\ PACKET_received_count' = PACKET_received_count
    BY <1>4 DEF SendPacketID, BufferUnderRun
  <2>2. i \in Slots
    BY <1>1, SlotType
  <2> HIDE DEF i
  <2>3. Cardinality(Waiting') = Cardinality(Waiting) + (IF i \in Waiting THEN 0 ELSE 1)
    BY <2>1, <2>2, WaitingSend
  <2>4. Matched' = Matched
    BY <1>4, SendKeeps
  <2> QED
    BY <1>1, <2>1, <2>3, <2>4 DEF RingSums
<1>5. ASSUME NEW p \in wire, ProcessAnswer(p)
      PROVE  RingSums'
  <2> DEFINE i == p.id - 1
  <2>1. /\ PACKET_received_count' = PACKET_received_count + 1
        /\ UNCHANGED <<PACKET_sent_count, underruns>>
        /\ i \notin Waiting => UNCHANGED sent_packets_timestamp2
        /\ i \in Waiting => sent_packets_timestamp2' = [sent_packets_timestamp2 EXCEPT ![i] = 0]
    BY <1>5 DEF ProcessAnswer, ReceivePacketID, ClearStamp
  <2>2. /\ i \in Waiting => Matched' = Matched + 1
        /\ i \notin Waiting => Matched' = Matched
    BY <1>5, AnswerKeeps
  <2> HIDE DEF i
  <2>3. CASE i \in Waiting
    <3>1. Cardinality(Waiting') = Cardinality(Waiting) - 1
      BY <2>1, <2>3, WaitingMatched
    <3> QED
      BY <1>1, <2>1, <2>2, <2>3, <3>1 DEF RingSums
  <2>4. CASE i \notin Waiting
    <3>1. Waiting' = Waiting
      BY <2>1, <2>4 DEF Waiting
    <3> QED
      BY <1>1, <2>1, <2>2, <2>4, <3>1 DEF RingSums
  <2> QED
    BY <2>3, <2>4
<1> QED
  BY <1>2, <1>3, <1>4, <1>5 DEF Next, Done

(* Every packet sent is matched, waits, or was reported overwritten, and the *)
(* deltas together hold what the session counted, in every reachable state.  *)
THEOREM AllAccounted == Spec => []Accounted
<1>1. Sums /\ RingSums => Accounted
  BY DEF Sums, RingSums, Accounted
<1> QED
  BY <1>1, RingSumsInit, RingSumsStep, TypeAndSums, PTL DEF Spec

-----------------------------------------------------------------------------
(* The stamps of the packets on their way.                                   *)
LEMMA RingStep == TypeOK /\ RingInv /\ [Next]_vars => RingInv'
<1> SUFFICES ASSUME TypeOK, RingInv, [Next]_vars, clean', underruns' = 0 PROVE RingInv'
  BY DEF RingInv
<1>1. CASE UNCHANGED vars \/ Tick
  <2>1. UNCHANGED <<sent_packets_timestamp2, wire, clean, underruns>>
    BY <1>1 DEF Tick, vars, history
  <2> QED
    BY <2>1 DEF RingInv
<1>2. CASE reset_statistic
  BY <1>2 DEF reset_statistic, RingInv
<1>3. CASE SendPacketID
  <2> DEFINE i == Slot(PACKET_sent_count + 1)
             s == [session |-> session, no |-> PACKET_sent_count + 1, id |-> i + 1, at |-> now]
  <2>1. /\ sent_packets_timestamp2' = [sent_packets_timestamp2 EXCEPT ![i] = now]
        /\ underruns' = underruns + (IF i \in Waiting THEN 1 ELSE 0)
        /\ wire' = wire \cup {s} /\ clean' = clean
    BY <1>3 DEF SendPacketID, BufferUnderRun
  <2>2. i \in Slots /\ now > 0
    BY SlotType DEF TypeOK
  <2>3. underruns = 0 /\ i \notin Waiting
    BY <2>1 DEF TypeOK
  <2>4. s.id = i + 1 /\ s.at = now /\ i \in Nat
    BY <2>2 DEF Slots
  <2> HIDE DEF i, s
  <2>5. \A p \in wire : /\ sent_packets_timestamp2[p.id - 1] = p.at /\ p.at > 0
                        /\ p.id \in 1..TIMESTAMP_COUNT /\ p.id - 1 \in Slots
    BY <2>1, <2>3, TrackingAssumption DEF RingInv, TypeOK, Packet, Slots, TrackingAssumption
  <2>6. \A p \in wire : p.id - 1 # i /\ p.id # s.id
    <3>1. sent_packets_timestamp2[i] = 0
      BY <2>2, <2>3 DEF Waiting
    <3> QED
      BY <2>4, <2>5, <3>1
  <2>7. \A p \in wire : sent_packets_timestamp2'[p.id - 1] = p.at /\ p.at > 0
    BY <2>1, <2>5, <2>6 DEF TypeOK
  <2>8. sent_packets_timestamp2'[s.id - 1] = s.at /\ s.at > 0
    BY <2>1, <2>2, <2>4 DEF TypeOK
  <2>9. \A p, q \in wire : p.id = q.id => p = q
    BY <2>1, <2>3 DEF RingInv
  <2> QED
    BY <2>1, <2>6, <2>7, <2>8, <2>9 DEF RingInv
<1>4. ASSUME NEW p \in wire, ProcessAnswer(p)
      PROVE  RingInv'
  <2> DEFINE i == p.id - 1
  <2>1. /\ wire' = wire \ {p} /\ clean' = clean /\ underruns = 0
        /\ i \notin Waiting => UNCHANGED sent_packets_timestamp2
        /\ i \in Waiting => sent_packets_timestamp2' = [sent_packets_timestamp2 EXCEPT ![i] = 0]
    BY <1>4 DEF ProcessAnswer, ReceivePacketID, ClearStamp
  <2>2. \A q \in wire : /\ sent_packets_timestamp2[q.id - 1] = q.at /\ q.at > 0
                        /\ q.id \in 1..TIMESTAMP_COUNT /\ q.id - 1 \in Slots
    <3>1. \A q \in wire : q.id \in 1..TIMESTAMP_COUNT
      BY DEF TypeOK, Packet
    <3>2. \A q \in wire : q.id - 1 \in Slots
      BY <3>1, TrackingAssumption DEF Slots
    <3>3. \A q \in wire : sent_packets_timestamp2[q.id - 1] = q.at /\ q.at > 0
      BY <2>1 DEF RingInv
    <3> QED
      BY <3>1, <3>2, <3>3
  <2>3. \A q, r \in wire : q.id = r.id => q = r
    BY <2>1 DEF RingInv
  <2>4. \A q \in wire' : q \in wire /\ q.id - 1 # i
    BY <2>1, <2>2, <2>3
  <2> HIDE DEF i
  <2>5. \A q \in wire' : sent_packets_timestamp2'[q.id - 1] = q.at /\ q.at > 0
    <3>1. CASE i \notin Waiting
      BY <2>1, <2>2, <2>4, <3>1
    <3>2. CASE i \in Waiting
      BY <2>1, <2>2, <2>4, <3>2 DEF TypeOK
    <3> QED
      BY <3>1, <3>2
  <2> QED
    BY <2>3, <2>4, <2>5 DEF RingInv
<1> QED
  BY <1>1, <1>2, <1>3, <1>4 DEF Next, Done

(* As long as no under run was reported, the answer to any packet on its way *)
(* will be measured from that packet's own stamp, however ids wrapped round  *)
(* and answers overtook each other or were lost.                             *)
THEOREM StampsAreOwn == Spec => []OwnStamp
<1>1. RingInv => OwnStamp
  BY DEF RingInv, OwnStamp
<1> QED
  BY <1>1, RingSumsInit, RingStep, TypeCorrect, PTL DEF Spec

-----------------------------------------------------------------------------
(* What main divides by.                                                     *)
LEMMA LastStep == TypeOK /\ LastInv /\ [Next]_vars => LastInv'
<1> SUFFICES ASSUME TypeOK, LastInv, [Next]_vars PROVE LastInv'
  OBVIOUS
<1>1. CASE UNCHANGED vars \/ Tick \/ SendPacketID
  <2>1. UNCHANGED <<tsSTART, tsLAST_PACKET_RECEIVED, PACKET_received_count>>
    BY <1>1 DEF Tick, SendPacketID, vars, counters
  <2> QED
    BY <2>1 DEF LastInv
<1>2. CASE reset_statistic
  BY <1>2 DEF reset_statistic, LastInv
<1>3. ASSUME NEW p \in wire, ProcessAnswer(p)
      PROVE  LastInv'
  <2>1. /\ tsLAST_PACKET_RECEIVED' = now /\ PACKET_received_count' = PACKET_received_count + 1
        /\ tsSTART' = tsSTART
    BY <1>3 DEF ProcessAnswer, ReceivePacketID
  <2> QED
    BY <2>1 DEF LastInv, TypeOK
<1> QED
  BY <1>1, <1>2, <1>3 DEF Next, Done

(* SwitchOutOfOrder() says exactly whether the switch has received no answer *)
(* since its reset: PACKET_received_count, by which RTT_mean() and RTT_VAR() *)
(* divide, is not 0 when main asks for them.                                 *)
THEOREM AvailableIsAnswered == Spec => []AvailableMeansAnswered
<1>1. TypeOK /\ LastInv => AvailableMeansAnswered
  BY DEF TypeOK, LastInv, AvailableMeansAnswered, SwitchOutOfOrder
<1> QED
  BY <1>1, RingSumsInit, LastStep, TypeCorrect, PTL DEF Spec

-----------------------------------------------------------------------------
(* Arithmetic that the deltas need.                                          *)
LEMMA DivBounds ==
    ASSUME NEW x \in Nat, NEW d \in Nat \ {0}
    PROVE  x \div d \in Nat /\ (x \div d) * d <= x /\ x < (x \div d) * d + d
OBVIOUS

LEMMA ProductType == ASSUME NEW a \in Nat, NEW b \in Nat PROVE a * b \in Nat
OBVIOUS

LEMMA Distributes ==
    ASSUME NEW a \in Nat, NEW b \in Nat, NEW c \in Nat
    PROVE  (a + b) * c = a * c + b * c
OBVIOUS

LEMMA OneMoreTimes ==
    ASSUME NEW a \in Nat, NEW n \in Nat
    PROVE  a * (n + 1) = a * n + a /\ a * 0 = 0
OBVIOUS

LEMMA ProductMonotone ==
    ASSUME NEW a \in Nat, NEW b \in Nat, NEW c \in Nat, a <= b
    PROVE  a * c <= b * c /\ c * a <= c * b
OBVIOUS

-----------------------------------------------------------------------------
(* The deltas and the clock.  Held(d) is what delta d of the session holds,  *)
(* nothing when it has not begun: no packet's time lies in such a delta.     *)
Held(d) == IF d < Len(vec_deltas) THEN vec_deltas[d + 1]
           ELSE IF d = Len(vec_deltas) THEN cur ELSE NoPackets

Bounds ==
    /\ tsCur_delta_START = tsSTART + Len(vec_deltas) * Delta_t
    /\ tsCur_delta_STOP = tsCur_delta_START + Delta_t
    /\ Len(vec_deltas) = 0 \/ tsCur_delta_START < now

DeltaInv ==
    /\ Bounds
    /\ \A d \in Nat : /\ Held(d).sent = CountIn(sendTimes, d)
                      /\ Held(d).received = CountIn(matchTimes, d)

\* One more packet counts in its own delta only.
LEMMA CountEmpty == ASSUME NEW d PROVE CountIn(<< >>, d) = 0
<1>1. {n \in DOMAIN << >> : InDelta(<< >>[n], d)} = {}
  OBVIOUS
<1> QED
  BY <1>1, FS_EmptySet DEF CountIn

LEMMA CountAppend ==
    ASSUME NEW times \in Seq(Nat), NEW t \in Nat, NEW d
    PROVE  /\ CountIn(times, d) \in Nat
           /\ InDelta(t, d) => CountIn(Append(times, t), d) = CountIn(times, d) + 1
           /\ ~InDelta(t, d) => CountIn(Append(times, t), d) = CountIn(times, d)
<1> DEFINE S == {n \in DOMAIN times : InDelta(times[n], d)}
           T == {n \in DOMAIN Append(times, t) : InDelta(Append(times, t)[n], d)}
           l == Len(times) + 1
<1>1. /\ DOMAIN times = 1..Len(times) /\ Len(times) \in Nat
      /\ DOMAIN Append(times, t) = 1..l /\ Append(times, t)[l] = t
      /\ \A n \in 1..Len(times) : Append(times, t)[n] = times[n]
  OBVIOUS
<1>2. IsFiniteSet(S)
  <2>1. IsFiniteSet(1..Len(times))
    BY <1>1, FS_Interval
  <2>2. S \subseteq 1..Len(times)
    BY <1>1
  <2> QED
    BY <2>1, <2>2, FS_Subset
<1>3. l \notin S
  BY <1>1
<1>4. T = S \cup (IF InDelta(t, d) THEN {l} ELSE {})
  <2> HIDE DEF InDelta
  <2>1. ASSUME NEW n \in 1..l PROVE n \in T <=> n \in S \/ (n = l /\ InDelta(t, d))
    BY <1>1
  <2> QED
    BY <1>1, <2>1
<1> QED
  BY <1>2, <1>3, <1>4, FS_AddElement, FS_CardinalityType DEF CountIn

\* k as ChangeDelta() steps: the least number of deltas that reaches the clock.
LEMMA DeltasReachNow ==
    ASSUME TypeOK
    PROVE  /\ DeltasToSave \in Nat
           /\ now <= tsCur_delta_STOP + DeltasToSave * Delta_t
           /\ DeltasToSave # 0 => tsCur_delta_STOP + DeltasToSave * Delta_t < now + Delta_t
<1> DEFINE x == now - tsCur_delta_STOP + Delta_t - 1
           q == x \div Delta_t
<1>1. now \in Nat /\ tsCur_delta_STOP \in Nat /\ Delta_t \in Nat \ {0}
  BY TrackingAssumption DEF TypeOK, TrackingAssumption
<1>2. CASE tsCur_delta_STOP < now
  <2>1. x \in Nat
    BY <1>1, <1>2
  <2>2. q \in Nat /\ q * Delta_t <= x /\ x < q * Delta_t + Delta_t
    BY <1>1, <2>1, DivBounds
  <2>3. DeltasToSave = q
    BY <1>2 DEF DeltasToSave
  <2> DEFINE y == q * Delta_t
  <2>4. y \in Nat
    BY <1>1, <2>2, ProductType
  <2> HIDE DEF q
  <2>5. y <= x /\ x < y + Delta_t
    BY <2>2
  <2> HIDE DEF y
  <2>6. now <= tsCur_delta_STOP + y /\ tsCur_delta_STOP + y < now + Delta_t
    BY <1>1, <2>4, <2>5
  <2> QED
    BY <2>2, <2>3, <2>6 DEF y
<1>3. CASE ~(tsCur_delta_STOP < now)
  <2>1. DeltasToSave = 0 /\ 0 * Delta_t = 0
    BY <1>1, <1>3 DEF DeltasToSave
  <2> QED
    BY <1>1, <1>3, <2>1
<1> QED
  BY <1>2, <1>3

\* The current delta, number l, is the only one the clock is in.
LEMMA OnlyDelta ==
    ASSUME NEW start \in Nat, NEW l \in Nat, NEW t \in Nat, start <= t,
           l = 0 \/ start + l * Delta_t < t,
           t <= start + (l + 1) * Delta_t, tsSTART = start,
           NEW d \in Nat
    PROVE  InDelta(t, d) <=> d = l
<1>1. Delta_t \in Nat
  BY TrackingAssumption DEF TrackingAssumption
<1>2. CASE d = l
  BY <1>1, <1>2 DEF InDelta
<1>3. CASE d < l
  <2> DEFINE a == (d + 1) * Delta_t
             b == l * Delta_t
  <2>1. a \in Nat /\ b \in Nat /\ a <= b
    BY <1>1, <1>3, ProductType, ProductMonotone
  <2>2. start + b < t
    BY <1>3
  <2> HIDE DEF a, b
  <2>3. ~(t <= start + a)
    BY <2>1, <2>2
  <2> QED
    BY <1>3, <2>3 DEF InDelta, a
<1>4. CASE l < d
  <2> DEFINE a == (l + 1) * Delta_t
             b == d * Delta_t
  <2>1. a \in Nat /\ b \in Nat /\ a <= b
    BY <1>1, <1>4, ProductType, ProductMonotone
  <2>2. t <= start + a
    OBVIOUS
  <2> HIDE DEF a, b
  <2>3. ~(t > start + b)
    BY <2>1, <2>2
  <2> QED
    BY <1>4, <2>3 DEF InDelta, b
<1> QED
  BY <1>2, <1>3, <1>4

\* Where the current delta is when ChangeDelta() returns.
LEMMA BoundsKept ==
    ASSUME TypeOK, Bounds, NEW add \in Delta, ChangeDeltaAndCount(add),
           UNCHANGED <<now, tsSTART>>
    PROVE  /\ Len(vec_deltas)' = Len(vec_deltas) + DeltasToSave
           /\ vec_deltas' = vec_deltas \o [i \in 1..DeltasToSave |-> IF i = 1 THEN cur ELSE NoPackets]
           /\ Bounds'
           /\ \A d \in Nat : InDelta(now, d) <=> d = Len(vec_deltas)'
<1> DEFINE k == DeltasToSave
           saved == [i \in 1..k |-> IF i = 1 THEN cur ELSE NoPackets]
           l == Len(vec_deltas)
           s == k * Delta_t
           b == l * Delta_t
<1>1. /\ k \in Nat /\ now <= tsCur_delta_STOP + s
      /\ k # 0 => tsCur_delta_STOP + s < now + Delta_t
  BY DeltasReachNow
<1>2. /\ tsCur_delta_START' = tsCur_delta_START + s
      /\ tsCur_delta_STOP' = tsCur_delta_STOP + s
      /\ vec_deltas' = vec_deltas \o saved
  BY DEF ChangeDeltaAndCount
<1>3. /\ now \in Nat /\ tsSTART \in Nat /\ tsSTART <= now /\ vec_deltas \in Seq(Delta)
      /\ tsCur_delta_START \in Nat /\ tsCur_delta_STOP \in Nat
      /\ Delta_t \in Nat \ {0} /\ l \in Nat
  BY TrackingAssumption DEF TypeOK, TrackingAssumption
<1>4. s \in Nat /\ b \in Nat /\ (l + k) * Delta_t = b + s
  BY <1>1, <1>3, ProductType, Distributes
<1>5. (l + k + 1) * Delta_t = b + s + Delta_t
  <2>1. (l + k + 1) * Delta_t = (l + k) * Delta_t + 1 * Delta_t
    BY <1>1, <1>3, Distributes
  <2> QED
    BY <1>3, <1>4, <2>1
<1> HIDE DEF k
<1>6. saved \in Seq(Delta) /\ Len(saved) = k
  <2>1. cur \in Delta /\ NoPackets \in Delta
    BY DEF TypeOK, NoPackets, Delta
  <2>2. saved \in [1..k -> Delta]
    BY <2>1
  <2> HIDE DEF saved
  <2>3. DOMAIN saved = 1..k /\ saved \in Seq(Delta)
    BY <1>1, <2>2
  <2> QED
    BY <1>1, <2>3
<1>7. Len(vec_deltas') = l + k
  BY <1>2, <1>3, <1>6, Joined
<1> HIDE DEF s, b, l, saved
<1>8. /\ tsCur_delta_START = tsSTART + b /\ tsCur_delta_STOP = tsSTART + b + Delta_t
      /\ l = 0 \/ tsCur_delta_START < now
  BY DEF Bounds, l, b
<1>9. l + k = 0 \/ tsSTART + (b + s) < now
  <2>1. CASE k = 0
    <3>1. s = 0
      BY <1>3, <2>1 DEF s
    <3> QED
      BY <1>3, <1>4, <1>8, <2>1, <3>1
  <2>2. CASE k # 0
    BY <1>1, <1>3, <1>4, <1>8, <2>2
  <2> QED
    BY <2>1, <2>2
<1>10. Bounds'
  <2>1. tsCur_delta_START' = tsSTART + (b + s) /\ tsCur_delta_STOP' = tsCur_delta_START' + Delta_t
    BY <1>2, <1>3, <1>4, <1>8
  <2>2. tsSTART' = tsSTART /\ now' = now
    OBVIOUS
  <2>3. Len(vec_deltas') = 0 \/ tsCur_delta_START' < now
    BY <1>7, <1>9, <2>1
  <2>4. tsSTART' + Len(vec_deltas') * Delta_t = tsSTART + (b + s)
    BY <1>4, <1>7, <2>2
  <2> QED
    BY <2>1, <2>2, <2>3, <2>4 DEF Bounds
<1>11. now <= tsSTART + (b + s + Delta_t)
  BY <1>1, <1>3, <1>4, <1>8
<1>12. \A d \in Nat : InDelta(now, d) <=> d = l + k
  <2> DEFINE j == l + k
  <2>1. j \in Nat
    BY <1>1, <1>3
  <2>2. j = 0 \/ tsSTART + j * Delta_t < now
    BY <1>4, <1>9
  <2>3. now <= tsSTART + (j + 1) * Delta_t
    BY <1>5, <1>11
  <2> HIDE DEF j
  <2>4. \A d \in Nat : InDelta(now, d) <=> d = j
    BY <1>3, <2>1, <2>2, <2>3, OnlyDelta
  <2> QED
    BY <2>4 DEF j
<1> QED
  BY <1>2, <1>7, <1>10, <1>12 DEF k, l, saved

LEMMA HeldKept ==
    ASSUME TypeOK, Bounds, NEW add \in Delta, ChangeDeltaAndCount(add),
           UNCHANGED <<now, tsSTART>>, NEW d \in Nat
    PROVE  /\ d # Len(vec_deltas)' => Held(d)' = Held(d)
           /\ d = Len(vec_deltas)' => /\ Held(d)'.sent = Held(d).sent + add.sent
                                      /\ Held(d)'.received = Held(d).received + add.received
<1> DEFINE k == DeltasToSave
           saved == [i \in 1..k |-> IF i = 1 THEN cur ELSE NoPackets]
           l == Len(vec_deltas)
<1>1. k \in Nat /\ l \in Nat /\ vec_deltas \in Seq(Delta) /\ cur \in Delta /\ NoPackets \in Delta
  BY DeltasReachNow DEF TypeOK, NoPackets, Delta
<1>2. Len(vec_deltas') = l + k /\ vec_deltas' = vec_deltas \o saved
  BY BoundsKept
<1>3. cur' = IF k = 0 THEN Add(cur, add) ELSE add
  BY DEF ChangeDeltaAndCount
<1> HIDE DEF k
<1>4. saved \in Seq(Delta) /\ Len(saved) = k
  <2>1. saved \in [1..k -> Delta]
    BY <1>1
  <2> QED
    BY <1>1, <2>1
<1>5. /\ \A n \in 1..l : vec_deltas'[n] = vec_deltas[n]
      /\ \A n \in (l + 1)..(l + k) : vec_deltas'[n] = IF n = l + 1 THEN cur ELSE NoPackets
  <2>1. \A n \in (l + 1)..(l + k) : saved[n - l] = IF n = l + 1 THEN cur ELSE NoPackets
    BY <1>1
  <2> HIDE DEF saved
  <2> QED
    BY <1>1, <1>2, <1>4, <2>1
<1> HIDE DEF saved, l
<1>6. /\ NoPackets.sent + add.sent = add.sent /\ NoPackets.received + add.received = add.received
      /\ Add(cur, add).sent = cur.sent + add.sent
      /\ Add(cur, add).received = cur.received + add.received
  <2>1. add.sent \in Nat /\ add.received \in Nat
    BY DEF Delta
  <2> QED
    BY <2>1, <1>1, AddType DEF NoPackets
<1>7. CASE d < l
  <2>1. d + 1 \in 1..l /\ d < l + k
    BY <1>1, <1>7
  <2>2. Held(d) = vec_deltas[d + 1]
    BY <1>7 DEF Held, l
  <2>3. Held(d)' = vec_deltas'[d + 1]
    BY <1>2, <2>1 DEF Held
  <2> QED
    BY <1>2, <1>5, <2>1, <2>2, <2>3
<1>8. CASE l <= d /\ d < l + k
  <2>1. d + 1 \in (l + 1)..(l + k)
    BY <1>1, <1>8
  <2>2. Held(d)' = IF d = l THEN cur ELSE NoPackets
    <3>1. Held(d)' = vec_deltas'[d + 1]
      BY <1>2, <1>8 DEF Held
    <3> QED
      BY <1>1, <1>5, <1>8, <2>1, <3>1
  <2>3. Held(d) = IF d = l THEN cur ELSE NoPackets
    BY <1>1, <1>8 DEF Held, l
  <2> QED
    BY <1>1, <1>2, <1>8, <2>2, <2>3
<1>9. CASE d = l + k
  <2>1. Held(d)' = IF k = 0 THEN Add(cur, add) ELSE add
    BY <1>1, <1>2, <1>3, <1>9 DEF Held
  <2>2. Held(d) = IF k = 0 THEN cur ELSE NoPackets
    BY <1>1, <1>9 DEF Held, l
  <2> QED
    BY <1>2, <1>6, <1>9, <2>1, <2>2
<1>10. CASE l + k < d
  <2>1. Held(d)' = NoPackets
    BY <1>1, <1>2, <1>10 DEF Held
  <2>2. Held(d) = NoPackets
    BY <1>1, <1>10 DEF Held, l
  <2> QED
    BY <1>1, <1>2, <1>10, <2>1, <2>2
<1> QED
  BY <1>1, <1>7, <1>8, <1>9, <1>10

\* A packet counted is in the delta of its time and in no other.
LEMMA DeltaCounted ==
    ASSUME TypeOK, DeltaInv, NEW add \in Delta, ChangeDeltaAndCount(add),
           UNCHANGED <<now, tsSTART>>,
           \/ add.sent = 0 /\ sendTimes' = sendTimes
           \/ add.sent = 1 /\ sendTimes' = Append(sendTimes, now),
           \/ add.received = 0 /\ matchTimes' = matchTimes
           \/ add.received = 1 /\ matchTimes' = Append(matchTimes, now)
    PROVE  DeltaInv'
<1>1. sendTimes \in Seq(Nat) /\ matchTimes \in Seq(Nat) /\ now \in Nat
  BY DEF TypeOK
<1>2. Bounds' /\ \A d \in Nat : InDelta(now, d) <=> d = Len(vec_deltas)'
  BY BoundsKept DEF DeltaInv
<1>3. ASSUME NEW d \in Nat
      PROVE  /\ Held(d)'.sent = CountIn(sendTimes, d)'
             /\ Held(d)'.received = CountIn(matchTimes, d)'
  <2>1. /\ CountIn(sendTimes, d)' = CountIn(sendTimes', d)
        /\ CountIn(matchTimes, d)' = CountIn(matchTimes', d)
    BY DEF CountIn, InDelta
  <2>2. Held(d).sent = CountIn(sendTimes, d) /\ Held(d).received = CountIn(matchTimes, d)
    BY DEF DeltaInv
  <2>3. /\ CountIn(sendTimes, d) \in Nat /\ CountIn(matchTimes, d) \in Nat
        /\ InDelta(now, d) => /\ CountIn(Append(sendTimes, now), d) = CountIn(sendTimes, d) + 1
                              /\ CountIn(Append(matchTimes, now), d) = CountIn(matchTimes, d) + 1
        /\ ~InDelta(now, d) => /\ CountIn(Append(sendTimes, now), d) = CountIn(sendTimes, d)
                               /\ CountIn(Append(matchTimes, now), d) = CountIn(matchTimes, d)
    BY <1>1, CountAppend
  <2>4. /\ d # Len(vec_deltas)' => Held(d)' = Held(d)
        /\ d = Len(vec_deltas)' => /\ Held(d)'.sent = Held(d).sent + add.sent
                                   /\ Held(d)'.received = Held(d).received + add.received
    BY HeldKept DEF DeltaInv
  <2>5. CASE d = Len(vec_deltas)'
    <3>1. InDelta(now, d)
      BY <1>2, <2>5
    <3>2. /\ Held(d)'.sent = CountIn(sendTimes, d) + add.sent
          /\ Held(d)'.received = CountIn(matchTimes, d) + add.received
      BY <2>2, <2>4, <2>5
    <3>3. CountIn(sendTimes', d) = CountIn(sendTimes, d) + add.sent
      <4>1. CASE add.sent = 0 /\ sendTimes' = sendTimes
        <5>1. CountIn(sendTimes', d) = CountIn(sendTimes, d)
          BY <4>1
        <5> QED
          BY <2>3, <4>1, <5>1
      <4>2. CASE add.sent = 1 /\ sendTimes' = Append(sendTimes, now)
        <5>1. CountIn(sendTimes', d) = CountIn(Append(sendTimes, now), d)
          BY <4>2
        <5> QED
          BY <2>3, <3>1, <4>2, <5>1
      <4> QED
        BY <4>1, <4>2
    <3>4. CountIn(matchTimes', d) = CountIn(matchTimes, d) + add.received
      <4>1. CASE add.received = 0 /\ matchTimes' = matchTimes
        <5>1. CountIn(matchTimes', d) = CountIn(matchTimes, d)
          BY <4>1
        <5> QED
          BY <2>3, <4>1, <5>1
      <4>2. CASE add.received = 1 /\ matchTimes' = Append(matchTimes, now)
        <5>1. CountIn(matchTimes', d) = CountIn(Append(matchTimes, now), d)
          BY <4>2
        <5> QED
          BY <2>3, <3>1, <4>2, <5>1
      <4> QED
        BY <4>1, <4>2
    <3> QED
      BY <2>1, <3>2, <3>3, <3>4
  <2>6. CASE d # Len(vec_deltas)'
    BY <1>2, <2>1, <2>2, <2>3, <2>4, <2>6
  <2> QED
    BY <2>5, <2>6
<1> QED
  BY <1>2, <1>3 DEF DeltaInv

\* A session begins with one empty delta.
Begun ==
    /\ tsSTART = now /\ tsCur_delta_START = now /\ tsCur_delta_STOP = now + Delta_t
    /\ cur = NoPackets /\ vec_deltas = << >> /\ sendTimes = << >> /\ matchTimes = << >>

LEMMA DeltaBegins == TypeOK /\ Begun => DeltaInv
<1> SUFFICES ASSUME TypeOK, Begun PROVE DeltaInv
  OBVIOUS
<1>1. Len(vec_deltas) = 0 /\ 0 * Delta_t = 0
  BY TrackingAssumption DEF TrackingAssumption, Begun
<1>2. Bounds
  BY <1>1 DEF Bounds, Begun, TypeOK
<1>3. \A d \in Nat : Held(d).sent = 0 /\ Held(d).received = 0
  BY <1>1 DEF Held, NoPackets, Begun
<1> QED
  BY <1>2, <1>3, CountEmpty DEF DeltaInv, Begun

LEMMA DeltaStep == TypeOK /\ DeltaInv /\ [Next]_vars => DeltaInv'
<1> SUFFICES ASSUME TypeOK, DeltaInv, [Next]_vars PROVE DeltaInv'
  OBVIOUS
<1>1. CASE UNCHANGED vars \/ Tick
  <2>1. /\ UNCHANGED <<tsSTART, tsCur_delta_START, tsCur_delta_STOP, cur, vec_deltas,
                       sendTimes, matchTimes>>
        /\ now' = now \/ now' = now + 1
    BY <1>1 DEF Tick, vars, deltas, history
  <2>2. Bounds'
    BY <2>1 DEF Bounds, DeltaInv, TypeOK
  <2> QED
    BY <2>1, <2>2 DEF DeltaInv, Held, CountIn, InDelta
<1>2. CASE reset_statistic
  <2>1. Begun'
    BY <1>2 DEF reset_statistic, Begun
  <2>2. TypeOK'
    BY <1>2, ResetIsInit
  <2> QED
    BY <2>1, <2>2, DeltaBegins, PTL
<1>3. CASE SendPacketID
  <2>1. /\ ChangeDeltaAndCount(SentOne) /\ UNCHANGED <<now, tsSTART>>
        /\ sendTimes' = Append(sendTimes, now) /\ matchTimes' = matchTimes
    BY <1>3 DEF SendPacketID, SentOne
  <2> QED
    BY <2>1, DeltaCounted, SentOneType
<1>4. ASSUME NEW p \in wire, ProcessAnswer(p)
      PROVE  DeltaInv'
  <2> DEFINE i == p.id - 1
             rtt == now - sent_packets_timestamp2[i]
  <2>1. CASE i \notin Waiting
    <3>1. UNCHANGED <<now, tsSTART, deltas, sendTimes, matchTimes>>
      BY <1>4, <2>1 DEF ProcessAnswer, ReceivePacketID
    <3> QED
      BY <3>1 DEF deltas, DeltaInv, Bounds, Held, CountIn, InDelta
  <2>2. CASE i \in Waiting
    <3>1. /\ ChangeDeltaAndCount(One(rtt)) /\ UNCHANGED <<now, tsSTART>>
          /\ sendTimes' = sendTimes /\ matchTimes' = Append(matchTimes, now)
      BY <1>4, <2>2 DEF ProcessAnswer, ReceivePacketID, One
    <3>2. rtt \in Nat
      BY <2>2 DEF TypeOK, Waiting
    <3> HIDE DEF rtt
    <3> QED
      BY <3>1, <3>2, DeltaCounted, OneType
  <2> QED
    BY <2>1, <2>2
<1> QED
  BY <1>1, <1>2, <1>3, <1>4 DEF Next, Done

(* For deltas of any length, every delta holds what was sent and matched in  *)
(* its window, also when ChangeDelta() steps over idle ones, and they follow *)
(* each other without a gap from the session's reset.                        *)
THEOREM DeltasAreWindows == Spec => []DeltasFollowClock
<1>1. DeltaInv /\ TypeOK => DeltasFollowClock
  <2> SUFFICES ASSUME DeltaInv, TypeOK PROVE DeltasFollowClock
    OBVIOUS
  <2>1. Len(vec_deltas) \in Nat
    BY DEF TypeOK
  <2>2. \A d \in 0..Len(vec_deltas) :
          Held(d) = IF d < Len(vec_deltas) THEN vec_deltas[d + 1] ELSE cur
    BY <2>1 DEF Held
  <2> QED
    BY <2>1, <2>2 DEF DeltaInv, Bounds, DeltasFollowClock
<1>2. Init => DeltaInv
  <2>1. Init => Begun
    BY DEF Init, Begun
  <2> QED
    BY <2>1, DeltaBegins, TypeInit
<1> QED
  BY <1>1, <1>2, DeltaStep, TypeCorrect, PTL DEF Spec

-----------------------------------------------------------------------------
(* What is kept of n values: enough that their mean lies among them and that *)
(* their variance is not negative.                                           *)
Series(s, n) ==
    /\ n = 0 => s.sum = 0
    /\ MeanInRange(s, n)
    /\ s.sum * s.sum <= s.square * n

LEMMA SquareOfSum ==
    ASSUME NEW a \in Nat, NEW b \in Nat
    PROVE  (a + b) * (a + b) = a * a + 2 * a * b + b * b
OBVIOUS

LEMMA TwiceProduct ==
    ASSUME NEW a \in Nat, NEW b \in Nat
    PROVE  2 * a * b <= a * a + b * b
<1>1. (a - b) * (a - b) >= 0
  OBVIOUS
<1>2. (a - b) * (a - b) = a * a - 2 * a * b + b * b
  OBVIOUS
<1> QED
  BY <1>1, <1>2

LEMMA Cancels ==
    ASSUME NEW a \in Nat, NEW b \in Nat, NEW c \in Nat \ {0}, c * a <= c * b
    PROVE  a <= b
OBVIOUS

\* Cauchy-Schwarz for one more value.
LEMMA OneMoreSquare ==
    ASSUME NEW a \in Nat, NEW q \in Nat, NEW n \in Nat, NEW x \in Nat,
           a * a <= q * n, n = 0 => a = 0
    PROVE  (a + x) * (a + x) <= (q + x * x) * (n + 1)
<1>1. (q + x * x) * (n + 1) = q * n + q + (x * x) * n + x * x
  OBVIOUS
<1>2. (a + x) * (a + x) = a * a + 2 * a * x + x * x
  BY SquareOfSum
<1>3. 2 * a * x <= q + (x * x) * n
  <2>1. CASE n = 0
    <3>1. 2 * a * x = 0 /\ (x * x) * n = 0
      BY <2>1
    <3> QED
      BY <3>1
  <2>2. CASE n # 0
    <3>1. 2 * a * (n * x) <= a * a + (n * x) * (n * x)
      <4>1. n * x \in Nat
        BY ProductType
      <4> QED
        BY <4>1, TwiceProduct
    <3>2. /\ n * (2 * a * x) = 2 * a * (n * x)
          /\ n * (q + (x * x) * n) = q * n + (n * x) * (n * x)
      OBVIOUS
    <3>3. n * (2 * a * x) <= n * (q + (x * x) * n)
      BY <3>1, <3>2
    <3>4. 2 * a * x \in Nat /\ q + (x * x) * n \in Nat
      OBVIOUS
    <3> QED
      BY <2>2, <3>3, <3>4, Cancels
  <2> QED
    BY <2>1, <2>2
<1> QED
  BY <1>1, <1>2, <1>3

LEMMA IncludeFields ==
    ASSUME NEW s \in Values, NEW x \in Nat
    PROVE  /\ Include(s, x).sum = s.sum + x /\ Include(s, x).square = s.square + x * x
           /\ Include(s, x).min <= x /\ Include(s, x).min <= s.min
           /\ Include(s, x).max >= x /\ Include(s, x).max >= s.max
           /\ x = 0 => Include(s, x).min = 0 /\ Include(s, x).max = s.max
<1>1. /\ Include(s, x).sum = s.sum + x /\ Include(s, x).square = s.square + x * x
      /\ Include(s, x).min = IF x < s.min THEN x ELSE s.min
      /\ Include(s, x).max = IF x > s.max THEN x ELSE s.max
  BY DEF Include
<1>2. s.min \in Nat /\ s.max \in Nat
  BY DEF Values
<1> QED
  BY <1>1, <1>2

LEMMA SeriesInclude ==
    ASSUME NEW s \in Values, NEW n \in Nat, NEW x \in Nat, Series(s, n)
    PROVE  Series(Include(s, x), n + 1)
<1> DEFINE t == Include(s, x)
<1>1. /\ t \in Values /\ t.sum = s.sum + x /\ t.square = s.square + x * x
      /\ t.min <= x /\ t.min <= s.min /\ t.max >= x /\ t.max >= s.max
  BY IncludeType, IncludeFields
<1>2. /\ s.sum \in Nat /\ s.square \in Nat /\ s.min \in Nat /\ s.max \in Nat
      /\ t.min \in Nat /\ t.max \in Nat
  BY <1>1 DEF Values
<1>3. /\ n = 0 => s.sum = 0
      /\ n > 0 => s.min * n <= s.sum /\ s.sum <= s.max * n
      /\ s.sum * s.sum <= s.square * n
  BY DEF Series, MeanInRange, MeanNotBelow, MeanNotAbove
<1> HIDE DEF t
<1>4. t.sum * t.sum <= t.square * (n + 1)
  BY <1>1, <1>2, <1>3, OneMoreSquare
<1>5. t.min * (n + 1) <= t.sum /\ t.sum <= t.max * (n + 1)
  <2>1. t.min * (n + 1) = t.min * n + t.min /\ t.max * (n + 1) = t.max * n + t.max
    BY <1>2, OneMoreTimes
  <2>2. t.min * n <= s.sum /\ s.sum <= t.max * n
    <3>1. CASE n = 0
      <4>1. t.min * n = 0 /\ t.max * n = 0 /\ s.sum = 0
        BY <1>2, <1>3, <3>1, OneMoreTimes
      <4> QED
        BY <4>1
    <3>2. CASE n # 0
      <4>1. t.min * n <= s.min * n /\ s.max * n <= t.max * n
        BY <1>1, <1>2, ProductMonotone
      <4>2. t.min * n \in Nat /\ s.min * n \in Nat /\ s.max * n \in Nat /\ t.max * n \in Nat
        BY <1>2, ProductType
      <4> QED
        BY <1>2, <1>3, <3>2, <4>1, <4>2
    <3> QED
      BY <3>1, <3>2
  <2> DEFINE u == t.min * n
             v == t.max * n
  <2>3. u \in Nat /\ v \in Nat
    BY <1>2, ProductType
  <2> HIDE DEF u, v
  <2>4. u + t.min <= t.sum /\ t.sum <= v + t.max
    BY <1>1, <1>2, <2>2, <2>3 DEF u, v
  <2> QED
    BY <2>1, <2>4 DEF u, v
<1> QED
  BY <1>4, <1>5 DEF Series, MeanInRange, MeanNotBelow, MeanNotAbove, t

\* Idle deltas add the value 0; how often does not show in what is kept.
LEMMA SeriesIdle ==
    ASSUME NEW s \in Values, NEW n \in Nat \ {0}, NEW m \in Nat, n <= m, Series(s, n)
    PROVE  Series(Include(s, 0), m)
<1> DEFINE t == Include(s, 0)
<1>1. t.sum = s.sum /\ t.square = s.square /\ t.min = 0 /\ t.max = s.max
  <2>1. s.sum \in Nat /\ s.square \in Nat
    BY DEF Values
  <2> QED
    BY <2>1, IncludeFields
<1>2. s.sum \in Nat /\ s.square \in Nat /\ s.max \in Nat
  BY DEF Values
<1>3. s.sum <= s.max * n /\ s.sum * s.sum <= s.square * n
  BY DEF Series, MeanInRange, MeanNotBelow, MeanNotAbove
<1>4. s.max * n <= s.max * m /\ s.square * n <= s.square * m
  BY <1>2, ProductMonotone
<1>5. /\ s.max * n \in Nat /\ s.max * m \in Nat /\ s.square * n \in Nat /\ s.square * m \in Nat
      /\ s.sum * s.sum \in Nat
  BY <1>2, ProductType
<1>6. s.sum <= s.max * m /\ s.sum * s.sum <= s.square * m
  BY <1>2, <1>3, <1>4, <1>5
<1>7. 0 * m <= s.sum
  BY <1>2
<1> HIDE DEF t
<1> QED
  BY <1>1, <1>6, <1>7 DEF Series, MeanInRange, MeanNotBelow, MeanNotAbove, t

LEMMA SeriesSaved ==
    ASSUME NEW s \in Values, NEW n \in Nat, NEW x \in Nat, NEW k \in Nat \ {0}, Series(s, n)
    PROVE  Series(Save(s, x, k), n + k)
<1>1. Include(s, x) \in Values /\ Series(Include(s, x), n + 1)
  BY IncludeType, SeriesInclude
<1>2. CASE k = 1
  BY <1>1, <1>2 DEF Save
<1>3. CASE k # 1
  <2>1. n + 1 \in Nat \ {0} /\ n + k \in Nat /\ n + 1 <= n + k
    BY <1>3
  <2> QED
    BY <1>1, <1>3, <2>1, SeriesIdle DEF Save
<1> QED
  BY <1>2, <1>3

SeriesInv ==
    /\ Series(RTT, Matched)
    /\ Series(PPS_delta_sent, Len(vec_deltas))
    /\ Series(PPS_delta_received, Len(vec_deltas))

(* In a session that began clean every answer counted is one matched.        *)
AllMatched == clean /\ underruns = 0 => PACKET_received_count = Matched

LEMMA NothingIsSeries == Series(NoValues, 0)
BY DEF Series, MeanInRange, MeanNotBelow, MeanNotAbove, NoValues

\* The rates of the deltas, when ChangeDelta() returns.
LEMMA RatesKept ==
    ASSUME TypeOK, Bounds, SeriesInv, NEW add \in Delta, ChangeDeltaAndCount(add),
           UNCHANGED <<now, tsSTART>>
    PROVE  /\ Series(PPS_delta_sent, Len(vec_deltas))'
           /\ Series(PPS_delta_received, Len(vec_deltas))'
<1> DEFINE k == DeltasToSave
<1>1. k \in Nat /\ Len(vec_deltas') = Len(vec_deltas) + k
  BY DeltasReachNow, BoundsKept
<1>2. /\ k = 0 => UNCHANGED <<PPS_delta_sent, PPS_delta_received>>
      /\ k # 0 => /\ PPS_delta_sent' = Save(PPS_delta_sent, cur.sent, k)
                  /\ PPS_delta_received' = Save(PPS_delta_received, cur.received, k)
  BY DEF ChangeDeltaAndCount
<1>3. /\ PPS_delta_sent \in Values /\ PPS_delta_received \in Values
      /\ Len(vec_deltas) \in Nat /\ cur.sent \in Nat /\ cur.received \in Nat
  BY DEF TypeOK, Delta
<1> HIDE DEF k
<1>4. CASE k = 0
  <2>1. /\ PPS_delta_sent' = PPS_delta_sent /\ PPS_delta_received' = PPS_delta_received
        /\ Len(vec_deltas') = Len(vec_deltas)
    BY <1>1, <1>2, <1>3, <1>4
  <2> QED
    BY <2>1 DEF SeriesInv
<1>5. CASE k # 0
  <2>1. /\ Series(Save(PPS_delta_sent, cur.sent, k), Len(vec_deltas) + k)
        /\ Series(Save(PPS_delta_received, cur.received, k), Len(vec_deltas) + k)
    BY <1>1, <1>3, <1>5, SeriesSaved DEF SeriesInv
  <2> QED
    BY <1>1, <1>2, <1>5, <2>1
<1> QED
  BY <1>4, <1>5

LEMMA SeriesStep ==
    TypeOK /\ Sums /\ DeltaInv /\ RingInv /\ SeriesInv /\ AllMatched /\ [Next]_vars
        => SeriesInv' /\ AllMatched'
<1> SUFFICES ASSUME TypeOK, Sums, DeltaInv, RingInv, SeriesInv, AllMatched, [Next]_vars
             PROVE  SeriesInv' /\ AllMatched'
  OBVIOUS
<1>1. CASE UNCHANGED vars \/ Tick
  <2>1. UNCHANGED <<RTT, cur, PPS_delta_sent, PPS_delta_received, vec_deltas, clean, underruns,
                    PACKET_received_count>>
    BY <1>1 DEF Tick, vars, counters, deltas, history
  <2> QED
    BY <2>1 DEF SeriesInv, AllMatched, Matched
<1>2. CASE reset_statistic
  <2>1. /\ RTT' = NoValues /\ PPS_delta_sent' = NoValues /\ PPS_delta_received' = NoValues
        /\ Len(vec_deltas') = 0 /\ PACKET_received_count' = 0
    BY <1>2 DEF reset_statistic
  <2>2. Matched' = 0
    BY <1>2 DEF reset_statistic, Matched, NoValues, NoPackets
  <2> QED
    BY <2>1, <2>2, NothingIsSeries DEF SeriesInv, AllMatched
<1>3. CASE SendPacketID
  <2>1. /\ ChangeDeltaAndCount(SentOne) /\ SentOne \in Delta
        /\ UNCHANGED <<now, tsSTART, RTT, PACKET_received_count, clean>>
        /\ underruns' = 0 => underruns = 0
    BY <1>3, SentOneType DEF SendPacketID, SentOne, TypeOK
  <2>2. Matched' = Matched
    BY <1>3, SendKeeps
  <2>3. Series(PPS_delta_sent, Len(vec_deltas))' /\ Series(PPS_delta_received, Len(vec_deltas))'
    BY <2>1, RatesKept DEF DeltaInv
  <2>4. Series(RTT, Matched)'
    BY <2>1, <2>2 DEF SeriesInv
  <2> QED
    BY <2>1, <2>2, <2>3, <2>4 DEF SeriesInv, AllMatched
<1>4. ASSUME NEW p \in wire, ProcessAnswer(p)
      PROVE  SeriesInv' /\ AllMatched'
  <2> DEFINE i == p.id - 1
             rtt == now - sent_packets_timestamp2[i]
  <2>1. /\ PACKET_received_count' = PACKET_received_count + 1
        /\ underruns' = underruns /\ UNCHANGED <<now, tsSTART>>
        /\ clean' => clean
        /\ i \notin Waiting => UNCHANGED <<RTT, PPS_delta_sent, PPS_delta_received, vec_deltas>>
        /\ i \in Waiting => RTT' = Include(RTT, rtt) /\ ChangeDeltaAndCount(One(rtt))
    BY <1>4 DEF ProcessAnswer, ReceivePacketID, One, deltas
  <2>2. /\ i \in Waiting => Matched' = Matched + 1
        /\ i \notin Waiting => Matched' = Matched
    BY <1>4, AnswerKeeps
  <2>3. Matched \in Nat /\ RTT \in Values /\ PACKET_received_count \in Nat
    BY MatchedType DEF TypeOK
  <2>4. i \in Waiting => rtt \in Nat
    BY DEF TypeOK, Waiting
  <2>5. AllMatched'
    <3>1. clean /\ underruns = 0 => i \in Waiting
      <4>1. i \in Slots
        BY TrackingAssumption DEF TypeOK, Packet, Slots, TrackingAssumption
      <4>2. clean /\ underruns = 0 => sent_packets_timestamp2[i] = p.at /\ p.at > 0
        BY DEF RingInv
      <4> QED
        BY <4>1, <4>2 DEF Waiting
    <3> HIDE DEF i
    <3> QED
      BY <2>1, <2>2, <3>1 DEF AllMatched
  <2> HIDE DEF i, rtt
  <2>6. CASE i \notin Waiting
    <3>1. /\ RTT' = RTT /\ PPS_delta_sent' = PPS_delta_sent /\ Matched' = Matched
          /\ PPS_delta_received' = PPS_delta_received /\ vec_deltas' = vec_deltas
      BY <2>1, <2>2, <2>6
    <3> QED
      BY <2>5, <3>1 DEF SeriesInv
  <2>7. CASE i \in Waiting
    <3>1. Series(Include(RTT, rtt), Matched + 1)
      BY <2>3, <2>4, <2>7, SeriesInclude DEF SeriesInv
    <3>2. Series(PPS_delta_sent, Len(vec_deltas))' /\ Series(PPS_delta_received, Len(vec_deltas))'
      BY <2>1, <2>4, <2>7, RatesKept, OneType DEF DeltaInv
    <3>3. Series(RTT, Matched)'
      BY <2>1, <2>2, <2>7, <3>1
    <3> QED
      BY <2>5, <3>2, <3>3 DEF SeriesInv
  <2> QED
    BY <2>6, <2>7
<1> QED
  BY <1>1, <1>2, <1>3, <1>4 DEF Next, Done

LEMMA SeriesInit == Init => DeltaInv /\ SeriesInv /\ AllMatched
<1> SUFFICES ASSUME Init PROVE DeltaInv /\ SeriesInv /\ AllMatched
  OBVIOUS
<1>1. DeltaInv
  <2>1. Begun
    BY DEF Init, Begun
  <2> QED
    BY <2>1, DeltaBegins, TypeInit
<1>2. Matched = 0 /\ Len(vec_deltas) = 0
  BY DEF Init, Matched, NoValues, NoPackets
<1> QED
  BY <1>1, <1>2, NothingIsSeries DEF Init, SeriesInv, AllMatched

LEMMA SeriesAlways ==
    Spec => [](TypeOK /\ Sums /\ RingSums /\ SeriesInv /\ AllMatched)
BY TypeAndSums, RingSumsInit, RingSumsStep, RingStep, DeltaStep, SeriesInit, SeriesStep, PTL DEF Spec

\* With more values in the count than in the sum, the mean only falls.
LEMMA MeanOfMore ==
    ASSUME NEW s \in Values, NEW n \in Nat, NEW m \in Nat, n <= m, Series(s, n)
    PROVE  MeanNotAbove(s, m)
<1>1. s.max \in Nat /\ s.sum \in Nat
  BY DEF Values
<1> DEFINE a == s.max * n
           b == s.max * m
<1>2. a \in Nat /\ b \in Nat /\ a <= b
  BY <1>1, ProductType, ProductMonotone
<1>3. s.sum <= a
  <2>1. CASE n = 0
    BY <1>2, <2>1 DEF Series
  <2>2. CASE n # 0
    BY <2>2 DEF Series, MeanInRange, MeanNotAbove
  <2> QED
    BY <2>1, <2>2
<1>4. s.sum <= b
  <2> HIDE DEF a, b
  <2> QED
    BY <1>1, <1>2, <1>3
<1> QED
  BY <1>4 DEF MeanNotAbove

(* For any round trip times and deltas of any length: RTT_mean() lies among  *)
(* the round trip times of a session without under runs, and                 *)
(* PPS_delta_mean_sent() and ..._received(), with the code's own divisor, are *)
(* never above the largest rate of a delta.                                  *)
THEOREM MeansAreInRange == Spec => []MeansInRange
<1>1. TypeOK /\ Sums /\ SeriesInv /\ AllMatched => MeansInRange
  <2> SUFFICES ASSUME TypeOK, Sums, SeriesInv, AllMatched PROVE MeansInRange
    OBVIOUS
  <2>1. clean /\ underruns = 0 => MeanInRange(RTT, PACKET_received_count)
    BY DEF SeriesInv, AllMatched, Series
  <2>2. /\ PPS_delta_sent \in Values /\ PPS_delta_received \in Values
        /\ Len(vec_deltas) \in Nat /\ PPS_delta_counter = Len(vec_deltas) + 1
    BY DEF TypeOK, Sums
  <2>3. /\ MeanNotAbove(PPS_delta_sent, PPS_delta_counter)
        /\ MeanNotAbove(PPS_delta_received, PPS_delta_counter)
    BY <2>2, MeanOfMore DEF SeriesInv
  <2> QED
    BY <2>1, <2>3 DEF MeansInRange
<1> QED
  BY <1>1, SeriesAlways, PTL

\* A variance over at least as many as there are values is not negative.
LEMMA VarianceOfMore ==
    ASSUME NEW s \in Values, NEW n \in Nat, NEW m \in Nat, n <= m, Series(s, n)
    PROVE  VarianceOf(s, m) >= 0
<1>1. s.sum \in Nat /\ s.square \in Nat
  BY DEF Values
<1> DEFINE a == s.sum * s.sum
           b == s.square * n
           c == s.square * m
<1>2. a \in Nat /\ b \in Nat /\ c \in Nat /\ b <= c
  BY <1>1, ProductType, ProductMonotone
<1>3. a <= b
  BY DEF Series
<1>4. VarianceOf(s, m) = c - a
  BY DEF VarianceOf
<1> HIDE DEF a, b, c
<1> QED
  BY <1>2, <1>3, <1>4

(* Whatever the controller answers and however the ring is overrun: the      *)
(* variances whose roots main prints are not negative, although they divide  *)
(* by counts that may exceed the number of values in the sums.               *)
THEOREM VariancesAreReal == Spec => []VariancesReal
<1>1. TypeOK /\ Sums /\ RingSums /\ SeriesInv => VariancesReal
  <2> SUFFICES ASSUME TypeOK, Sums, RingSums, SeriesInv PROVE VariancesReal
    OBVIOUS
  <2>1. /\ RTT \in Values /\ PPS_delta_sent \in Values /\ PPS_delta_received \in Values
        /\ Matched \in Nat /\ PACKET_received_count \in Nat /\ PPS_delta_counter \in Nat
        /\ Len(vec_deltas) \in Nat
    BY MatchedType DEF TypeOK
  <2>2. Matched <= PACKET_received_count /\ Len(vec_deltas) <= PPS_delta_counter
    BY <2>1 DEF Sums, RingSums
  <2> QED
    BY <2>1, <2>2, VarianceOfMore DEF SeriesInv, VariancesReal
<1> QED
  BY <1>1, SeriesAlways, PTL
=============================================================================
