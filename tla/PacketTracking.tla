--------------------------- MODULE PacketTracking ---------------------------
(***************************************************************************)
(* The statistics of one switch (class config, config.hpp): packet-ins are *)
(* stamped into a ring of TIMESTAMP_COUNT slots, answers are matched with   *)
(* the stamp of their slot, and both are counted per session and per delta *)
(* (a window of Delta_t).  SendPacketID, ReceivePacketID and                *)
(* reset_statistic are one step each: this is what they compute when their  *)
(* calls do not overlap.                                                    *)
(*                                                                         *)
(* Rates are in packets per Delta_t: the factor usPs / Delta_t is constant. *)
(* The clock is read once per step, where the code calls timestamp(NULL)    *)
(* several times.                                                           *)
(***************************************************************************)
EXTENDS Integers, Sequences, FiniteSets

CONSTANTS
    TIMESTAMP_COUNT,   \* slots of the ring
    Delta_t,           \* length of a delta
    MaxTime, MaxReceived, MaxSent, MaxSessions   \* bounds of the model

ASSUME TrackingAssumption ==
    /\ TIMESTAMP_COUNT \in Nat \ {0}
    /\ Delta_t \in Nat \ {0}
    /\ MaxTime \in Nat /\ MaxReceived \in Nat /\ MaxSent \in Nat /\ MaxSessions \in Nat

Slots == 0..(TIMESTAMP_COUNT - 1)

VARIABLES
    now,                                       \* the clock that timestamp(NULL) reads
    sent_packets_timestamp2,                   \* the ring; 0 is an empty slot
    tsSTART, tsLAST_PACKET_RECEIVED,
    PACKET_sent_count, PACKET_received_count,
    RTT,                                       \* RTT_sum, _sum_square, _min, _max
    tsCur_delta_START, tsCur_delta_STOP,       \* the current delta
    cur,                                       \* what is counted in it
    PPS_delta_counter,
    PPS_delta_sent, PPS_delta_received,        \* PPS_delta_sum_sent, ... _max_received
    vec_deltas,                                \* the deltas saved
    wire,                                      \* packets the controller may answer
    session,                                   \* sessions begun
    underruns,                                 \* history: stamps overwritten in use
    clean,                                     \* history: the session began with no
                                               \* answer due, none came twice since
    sendTimes, matchTimes                      \* history: when the session's packets
                                               \* were stamped, and answers matched

counters == <<tsLAST_PACKET_RECEIVED, PACKET_sent_count, PACKET_received_count, RTT>>
deltas == <<tsCur_delta_START, tsCur_delta_STOP, cur, PPS_delta_counter,
            PPS_delta_sent, PPS_delta_received, vec_deltas>>
history == <<underruns, clean, sendTimes, matchTimes>>
vars == <<now, sent_packets_timestamp2, tsSTART, counters, deltas, wire, session, history>>

NoPackets == [sent |-> 0, received |-> 0, rttSum |-> 0, rttCount |-> 0]

(* What is kept of a series of values (round trip times, rates of deltas):    *)
(* enough for its mean, its variance and its range.                          *)
NoValues == [sum |-> 0, square |-> 0, min |-> 9999999, max |-> 0]

\* Mutant: a new minimum is not looked at as a maximum.
IncludeMinOrMax(s, x) ==
    [sum |-> s.sum + x, square |-> s.square + x * x,
     min |-> IF x < s.min THEN x ELSE s.min,
     max |-> IF x >= s.min /\ x > s.max THEN x ELSE s.max]

\* Mutant: the sum of squares adds the value itself.
IncludeNoSquare(s, x) ==
    [sum |-> s.sum + x, square |-> s.square + x,
     min |-> IF x < s.min THEN x ELSE s.min,
     max |-> IF x > s.max THEN x ELSE s.max]

Include(s, x) ==
    [sum |-> s.sum + x, square |-> s.square + x * x,
     min |-> IF x < s.min THEN x ELSE s.min,
     max |-> IF x > s.max THEN x ELSE s.max]

Waiting == {i \in Slots : sent_packets_timestamp2[i] # 0}
Matched == PPS_delta_received.sum + cur.received

-----------------------------------------------------------------------------
\* The clock starts at 1: a stamp of 0 means "empty".
Init ==
    /\ now = 1
    /\ sent_packets_timestamp2 = [i \in Slots |-> 0]
    /\ tsSTART = now /\ tsLAST_PACKET_RECEIVED = 0
    /\ PACKET_sent_count = 0 /\ PACKET_received_count = 0 /\ RTT = NoValues
    /\ tsCur_delta_START = now /\ tsCur_delta_STOP = now + Delta_t
    /\ cur = NoPackets
    /\ PPS_delta_counter = 1
    /\ PPS_delta_sent = NoValues /\ PPS_delta_received = NoValues
    /\ vec_deltas = << >>
    /\ wire = {}
    /\ session = 1
    /\ underruns = 0 /\ clean = TRUE
    /\ sendTimes = << >> /\ matchTimes = << >>

(* A session begins; the batch thread is behind its gate.  Some packets of    *)
(* the last session may still be answered, the others never will.             *)
reset_statistic ==
    /\ session < MaxSessions
    /\ session' = session + 1
    /\ wire' \in SUBSET wire
    /\ sent_packets_timestamp2' = [i \in Slots |-> 0]
    /\ tsSTART' = now /\ tsLAST_PACKET_RECEIVED' = 0
    /\ PACKET_sent_count' = 0 /\ PACKET_received_count' = 0 /\ RTT' = NoValues
    /\ tsCur_delta_START' = now /\ tsCur_delta_STOP' = now + Delta_t
    /\ cur' = NoPackets
    /\ PPS_delta_counter' = 1
    /\ PPS_delta_sent' = NoValues /\ PPS_delta_received' = NoValues
    /\ vec_deltas' = << >>
    /\ underruns' = 0 /\ clean' = (wire' = {})
    /\ sendTimes' = << >> /\ matchTimes' = << >>
    /\ UNCHANGED now

-----------------------------------------------------------------------------
(* ChangeDelta() saves the current delta and steps by Delta_t until the one   *)
(* the clock is in; then add is counted in it.  The deltas stepped over after *)
(* the first are saved empty.                                                 *)
\* Mutant: a packet at the very end of a delta already opens the next one.
DeltasToSaveEarly ==
    IF tsCur_delta_STOP <= now
    THEN (now - tsCur_delta_STOP + Delta_t) \div Delta_t
    ELSE 0

DeltasToSave ==
    IF tsCur_delta_STOP < now
    THEN (now - tsCur_delta_STOP + Delta_t - 1) \div Delta_t
    ELSE 0

\* SaveDelta() for the current count, then for the deltas stepped over.
Save(s, count, k) ==
    IF k = 1 THEN Include(s, count) ELSE Include(Include(s, count), 0)

Add(a, b) == [sent |-> a.sent + b.sent, received |-> a.received + b.received,
              rttSum |-> a.rttSum + b.rttSum, rttCount |-> a.rttCount + b.rttCount]

ChangeDeltaAndCount(add) ==
    LET k == DeltasToSave
    IN  /\ tsCur_delta_START' = tsCur_delta_START + k * Delta_t
        /\ tsCur_delta_STOP' = tsCur_delta_STOP + k * Delta_t
        /\ PPS_delta_counter' = PPS_delta_counter + k
        /\ vec_deltas' = vec_deltas \o [i \in 1..k |-> IF i = 1 THEN cur ELSE NoPackets]
        /\ IF k = 0
             THEN /\ cur' = Add(cur, add)
                  /\ UNCHANGED <<PPS_delta_sent, PPS_delta_received>>
             ELSE /\ cur' = add
                  /\ PPS_delta_sent' = Save(PPS_delta_sent, cur.sent, k)
                  /\ PPS_delta_received' = Save(PPS_delta_received, cur.received, k)

\* Mutant: the ring is not a ring.
SlotNoWrap(n) == n

Slot(n) == n % TIMESTAMP_COUNT

BufferUnderRun(i) == i \in Waiting

(* A packet-in is created: SendPacketID() counts and stamps it, and its id,   *)
(* slot + 1, goes to the controller as buffer_id.                             *)
SendPacketID ==
    LET n == PACKET_sent_count + 1
        i == Slot(n)
    IN  /\ n <= MaxSent
        /\ PACKET_sent_count' = n
        /\ sent_packets_timestamp2' = [sent_packets_timestamp2 EXCEPT ![i] = now]
        /\ underruns' = underruns + (IF BufferUnderRun(i) THEN 1 ELSE 0)
        /\ ChangeDeltaAndCount([NoPackets EXCEPT !.sent = 1])
        /\ wire' = wire \cup {[session |-> session, no |-> n, id |-> i + 1, at |-> now]}
        /\ sendTimes' = Append(sendTimes, now)
        /\ UNCHANGED <<now, tsSTART, tsLAST_PACKET_RECEIVED, PACKET_received_count, RTT,
                       session, clean, matchTimes>>

\* Mutant: the stamp stays, for the next answer with this id to match.
KeepStamp(i) == UNCHANGED sent_packets_timestamp2

\* Mutant: the id is taken for the slot.
ClearStampOfId(i) ==
    sent_packets_timestamp2' = [sent_packets_timestamp2 EXCEPT ![(i + 1) % TIMESTAMP_COUNT] = 0]

ClearStamp(i) == sent_packets_timestamp2' = [sent_packets_timestamp2 EXCEPT ![i] = 0]

(* An answer with a buffer_id: the slot's stamp gives the round trip time and *)
(* is cleared; without a stamp the answer is only counted.                    *)
ReceivePacketID(id) ==
    LET i   == id - 1
        rtt == now - sent_packets_timestamp2[i]
    IN  /\ tsLAST_PACKET_RECEIVED' = now
        /\ PACKET_received_count' = PACKET_received_count + 1
        /\ IF i \notin Waiting
             THEN UNCHANGED <<sent_packets_timestamp2, RTT, deltas, matchTimes>>
             ELSE /\ ClearStamp(i)
                  /\ RTT' = Include(RTT, rtt)
                  /\ ChangeDeltaAndCount([sent |-> 0, received |-> 1,
                                          rttSum |-> rtt, rttCount |-> 1])
                  /\ matchTimes' = Append(matchTimes, now)
        /\ UNCHANGED <<now, tsSTART, PACKET_sent_count, session, underruns, sendTimes>>

(* The controller's PACKET_OUT or FLOW_MOD for packet p, handled by           *)
(* process_packet: ids in range go to ReceivePacketID.  The controller may    *)
(* answer p once more.                                                        *)
ProcessAnswer(p) ==
    /\ PACKET_received_count < MaxReceived
    /\ p.id \in 1..(TIMESTAMP_COUNT + 1)
    /\ ReceivePacketID(p.id)
    /\ \/ wire' = wire \ {p} /\ UNCHANGED clean
       \/ wire' = wire /\ clean' = FALSE

Tick ==
    /\ now < MaxTime
    /\ now' = now + 1
    /\ UNCHANGED <<sent_packets_timestamp2, tsSTART, counters, deltas, wire, session, history>>

\* The bounds of the model are reached.
Done == now = MaxTime /\ UNCHANGED vars

Next == \/ reset_statistic
        \/ SendPacketID
        \/ \E p \in wire : ProcessAnswer(p)
        \/ Tick
        \/ Done

Spec == Init /\ [][Next]_vars

-----------------------------------------------------------------------------
(* What main reads at the end of a session's run time.                       *)

\* Mutant: an answer in the very microsecond of the reset is not seen.
SwitchOutOfOrderAtStart == tsSTART >= tsLAST_PACKET_RECEIVED

SwitchOutOfOrder == tsSTART > tsLAST_PACKET_RECEIVED

\* The window of delta d of a session, from 0; a packet at the boundary of two
\* deltas belongs to the earlier one.
InDelta(t, d) ==
    /\ t <= tsSTART + (d + 1) * Delta_t
    /\ IF d = 0 THEN t >= tsSTART ELSE t > tsSTART + d * Delta_t

CountIn(times, d) == Cardinality({n \in DOMAIN times : InDelta(times[n], d)})

\* The mean of s over n values, sum / n, is not below, and not above, all
\* values of s.
MeanNotBelow(s, n) == n > 0 => s.min * n <= s.sum
MeanNotAbove(s, n) == n > 0 => s.sum <= s.max * n
MeanInRange(s, n) == MeanNotBelow(s, n) /\ MeanNotAbove(s, n)

\* The variance, square / n - (sum / n)^2, has a square root.
VarianceOf(s, n) == s.square * n - s.sum * s.sum

-----------------------------------------------------------------------------
Delta == [sent : Nat, received : Nat, rttSum : Nat, rttCount : Nat]
Values == [sum : Nat, square : Nat, min : Nat, max : Nat]
Packet == [session : Nat, no : Nat, id : 1..TIMESTAMP_COUNT, at : Nat]

(* Types of all variables; no stamp lies in the future.  *)
TypeOK ==
    /\ now \in Nat \ {0}
    /\ sent_packets_timestamp2 \in [Slots -> 0..now]
    /\ tsSTART \in 1..now /\ tsLAST_PACKET_RECEIVED \in 0..now
    /\ PACKET_sent_count \in Nat /\ PACKET_received_count \in Nat
    /\ RTT \in Values
    /\ tsCur_delta_START \in Nat /\ tsCur_delta_STOP \in Nat
    /\ cur \in Delta
    /\ PPS_delta_counter \in Nat
    /\ PPS_delta_sent \in Values /\ PPS_delta_received \in Values
    /\ vec_deltas \in Seq(Delta)
    /\ wire \subseteq Packet
    /\ session \in Nat
    /\ underruns \in Nat /\ clean \in BOOLEAN
    /\ sendTimes \in Seq(Nat) /\ matchTimes \in Seq(Nat)

(* Bookkeeping of the session: every packet sent is matched, waits in its    *)
(* slot, or was overwritten there; the deltas together hold what the session *)
(* counted, so ChangeDelta drops nothing and counts nothing twice.           *)
Accounted ==
    /\ PACKET_sent_count = Matched + Cardinality(Waiting) + underruns
    /\ PPS_delta_sent.sum + cur.sent = PACKET_sent_count
    /\ cur.rttCount = cur.received
    /\ PPS_delta_counter = Len(vec_deltas) + 1
    /\ Matched <= PACKET_received_count

(* As long as the ring reported no "buffer under run", the slot of every     *)
(* packet the controller may still answer holds the stamp of that very       *)
(* packet, so that the answer's round trip time is its own.  Needs a         *)
(* controller that answers once and sessions that start clean (NoCarryOver). *)
OwnStamp ==
    clean /\ underruns = 0 =>
        \A p \in wire : sent_packets_timestamp2[p.id - 1] = p.at

(* Every delta holds exactly what was sent and matched in its window, also   *)
(* when ChangeDelta steps over idle ones, and the current delta, which may   *)
(* lag behind the clock until the next packet, follows the saved ones.       *)
DeltasFollowClock ==
    /\ tsCur_delta_START = tsSTART + Len(vec_deltas) * Delta_t
    /\ tsCur_delta_STOP = tsCur_delta_START + Delta_t
    /\ \A d \in 0..Len(vec_deltas) :
         LET saved == IF d < Len(vec_deltas) THEN vec_deltas[d + 1] ELSE cur
         IN  /\ saved.sent = CountIn(sendTimes, d)
             /\ saved.received = CountIn(matchTimes, d)

(* main reads the means of a switch exactly when it has received an answer   *)
(* since its reset: PACKET_received_count, by which RTT_mean() and RTT_VAR() *)
(* divide, is not 0 then, and no switch that answered is left out.  This says *)
(* nothing of other divisors: RTT_Ca() divides by RTT_mean(), 0 when the     *)
(* answers counted found no stamp, and main by the number of switches that   *)
(* answered.                                                                 *)
AvailableMeansAnswered == SwitchOutOfOrder <=> PACKET_received_count = 0

(* RTT_mean() lies between the smallest and the largest round trip time as   *)
(* long as every answer found its stamp: PACKET_received_count also counts   *)
(* answers of an earlier session and repeated ones.  PPS_delta_mean_sent()   *)
(* and ..._received() are never above the largest rate of a delta saved.     *)
MeansInRange ==
    /\ clean /\ underruns = 0 => MeanInRange(RTT, PACKET_received_count)
    /\ MeanNotAbove(PPS_delta_sent, PPS_delta_counter)
    /\ MeanNotAbove(PPS_delta_received, PPS_delta_counter)

(* "mean of pps-es measured in deltas" (config.hpp:161): once a delta is     *)
(* saved, PPS_delta_mean_sent() and ..._received() lie among the rates of    *)
(* the deltas saved.  Violated: they divide by PPS_delta_counter, which      *)
(* counts the current delta too, whose packets are not in the sums.          *)
DeltaMeansInRange ==
    vec_deltas # << >> =>
      /\ MeanInRange(PPS_delta_sent, PPS_delta_counter)
      /\ MeanInRange(PPS_delta_received, PPS_delta_counter)

(* No variance is negative, whichever of the two counts it is divided by and *)
(* whatever under runs did: RTT_Ca() and PPS_delta_Ca_...() take real roots. *)
VariancesReal ==
    /\ VarianceOf(RTT, PACKET_received_count) >= 0
    /\ VarianceOf(PPS_delta_sent, PPS_delta_counter) >= 0
    /\ VarianceOf(PPS_delta_received, PPS_delta_counter) >= 0
=============================================================================
