------------------------------ MODULE StatRace ------------------------------
(***************************************************************************)
(* The statistics of one switch (class config, config.hpp) while two       *)
(* threads use them: the batch thread is in SendPacketID, the              *)
(* communication thread in ReceivePacketID, and nothing locks anything.    *)
(* A step is one load or one store of a variable both threads write, an    *)
(* abstraction: a long double takes several.  Variables with one writer    *)
(* change with the step next to them.                                      *)
(*                                                                         *)
(* One session, without the resets around it.  Rates are in packets per    *)
(* Delta_t, as in PacketTracking, which is what the calls compute when they *)
(* do not overlap.  PPS_delta_counter, the squares, minima and maxima are  *)
(* changed like the sums, at the same place, and are left out; and so are  *)
(* RTT_in_delta_sum and _count, which "com" raises with its count of the   *)
(* delta and SaveDelta, in either thread, divides and sets to 0.           *)
(***************************************************************************)
EXTENDS Integers, FiniteSets

CONSTANTS
    TIMESTAMP_COUNT,      \* slots of the ring
    Delta_t,              \* length of a delta
    MaxTime, MaxSent      \* bounds of the model

ASSUME RaceAssumption ==
    /\ TIMESTAMP_COUNT \in Nat \ {0} /\ Delta_t \in Nat \ {0}
    /\ MaxTime \in Nat \ {0} /\ MaxSent \in Nat

Slots == 0..(TIMESTAMP_COUNT - 1)

\* The batch thread sends, the communication thread receives.
Threads == {"batch", "com"}

VARIABLES
    now,                                   \* the clock
    sent_packets_timestamp2,               \* the ring; 0 is an empty slot
    count,                                 \* PACKET_sent_count of "batch", and how many
                                           \* answers "com" matched: one writer each
    tsCur_delta_START, tsCur_delta_STOP,   \* the current delta
    PPS_cur_delta, PPS_delta_sum,          \* packets in it, and in the deltas before,
                                           \* sent ("batch") and received ("com")
    pc, reg,                               \* of each thread: its place, a register
    packet,                                \* ... and the packet it handles
    wire,                                  \* packets the controller may answer
    underruns,                             \* history: under runs reported
    clash                                  \* history: both threads were in the deltas

ring == <<sent_packets_timestamp2, count, packet, wire, underruns>>
delta == <<tsCur_delta_START, tsCur_delta_STOP>>
sums == <<PPS_cur_delta, PPS_delta_sum>>
vars == <<now, ring, delta, sums, pc, reg, clash>>

\* The places of a call from the first load of SaveDelta() on.
DeltaPlaces == {"load_com", "store_com", "zero_com", "load_batch", "store_batch",
                "zero_batch", "push_back", "start", "stop", "store_stop", "count", "counted"}
RingPlaces == {"idle", "stamp", "rtt", "clear", "test"}

InDeltas(t) == pc[t] \in DeltaPlaces

\* Thread t steps from one place to another.
Step(t, from, to) == pc[t] = from /\ pc' = [pc EXCEPT ![t] = to]

Load(t, value) == reg' = [reg EXCEPT ![t] = value]

Init ==
    /\ now = 1
    /\ sent_packets_timestamp2 = [i \in Slots |-> 0]
    /\ count = [t \in Threads |-> 0]
    /\ tsCur_delta_START = now /\ tsCur_delta_STOP = now + Delta_t
    /\ PPS_cur_delta = [t \in Threads |-> 0] /\ PPS_delta_sum = [t \in Threads |-> 0]
    /\ pc = [t \in Threads |-> "idle"] /\ reg = [t \in Threads |-> 0]
    /\ packet = [t \in Threads |-> [id |-> 1, at |-> 0]]
    /\ wire = {}
    /\ underruns = 0
    /\ clash = FALSE

-----------------------------------------------------------------------------
NextSlot == (count["batch"] + 1) % TIMESTAMP_COUNT

(* SendPacketID(): the slot is tested, then stamped.                          *)
SendPacketID ==
    /\ Step("batch", "idle", "stamp")
    /\ count["batch"] < MaxSent
    /\ underruns' = underruns + (IF sent_packets_timestamp2[NextSlot] # 0 THEN 1 ELSE 0)
    /\ UNCHANGED <<now, sent_packets_timestamp2, count, packet, wire, delta, sums, reg>>

\* Mutant: the slot goes out as the id, 0 too.
StampSlotAsId ==
    /\ Step("batch", "stamp", "test")
    /\ count' = [count EXCEPT !["batch"] = @ + 1]
    /\ sent_packets_timestamp2' = [sent_packets_timestamp2 EXCEPT ![NextSlot] = now]
    /\ packet' = [packet EXCEPT !["batch"] = [id |-> NextSlot, at |-> now]]
    /\ UNCHANGED <<now, wire, underruns, delta, sums, reg>>

Stamp ==
    /\ Step("batch", "stamp", "test")
    /\ count' = [count EXCEPT !["batch"] = @ + 1]
    /\ sent_packets_timestamp2' = [sent_packets_timestamp2 EXCEPT ![NextSlot] = now]
    /\ packet' = [packet EXCEPT !["batch"] = [id |-> NextSlot + 1, at |-> now]]
    /\ UNCHANGED <<now, wire, underruns, delta, sums, reg>>

(* ReceivePacketID(): the slot is tested, read again for the round trip time, *)
(* and cleared.  The sums of round trip times have one writer.                *)
ReceivePacketID(p) ==
    /\ Step("com", "idle", IF sent_packets_timestamp2[p.id - 1] = 0 THEN "idle" ELSE "rtt")
    /\ wire' = wire \ {p}
    /\ packet' = [packet EXCEPT !["com"] = p]
    /\ UNCHANGED <<now, sent_packets_timestamp2, count, underruns, delta, sums, reg>>

RoundTrip ==
    /\ Step("com", "rtt", "clear")
    /\ Load("com", sent_packets_timestamp2[packet["com"].id - 1])
    /\ UNCHANGED <<now, ring, delta, sums>>

\* Mutant: the slot is cleared behind the delta, when the answer is counted.
ClearStampLate ==
    /\ Step("com", "clear", "test")
    /\ count' = [count EXCEPT !["com"] = @ + 1]
    /\ UNCHANGED <<now, sent_packets_timestamp2, packet, wire, underruns, delta, sums, reg>>

ClearStamp ==
    /\ Step("com", "clear", "test")
    /\ sent_packets_timestamp2' = [sent_packets_timestamp2 EXCEPT ![packet["com"].id - 1] = 0]
    /\ count' = [count EXCEPT !["com"] = @ + 1]
    /\ UNCHANGED <<now, packet, wire, underruns, delta, sums, reg>>

-----------------------------------------------------------------------------
(* ChangeDelta()'s loop, with SaveDelta() in its body.                        *)
Test(t) ==
    /\ Step(t, "test", IF tsCur_delta_STOP < now THEN "load_com" ELSE "count")
    /\ UNCHANGED <<now, ring, delta, sums, reg>>

\* PPS_delta_sum_received += PPS_cur_delta_received(), and then 0 packets are in
\* the current delta; the same for the packets sent.
\* Mutant: the packets of the delta are set to 0 before they are added.
AddRateZeroFirst(t, k, load, store, zero, next) ==
    \/ /\ Step(t, load, store)
       /\ PPS_cur_delta' = [PPS_cur_delta EXCEPT ![k] = 0]
       /\ UNCHANGED <<PPS_delta_sum, reg>>
    \/ /\ Step(t, store, zero)
       /\ Load(t, PPS_delta_sum[k] + PPS_cur_delta[k])
       /\ UNCHANGED sums
    \/ /\ Step(t, zero, next)
       /\ PPS_delta_sum' = [PPS_delta_sum EXCEPT ![k] = reg[t]]
       /\ UNCHANGED <<PPS_cur_delta, reg>>

AddRate(t, k, load, store, zero, next) ==
    \/ /\ Step(t, load, store)
       /\ Load(t, PPS_delta_sum[k] + PPS_cur_delta[k])
       /\ UNCHANGED sums
    \/ /\ Step(t, store, zero)
       /\ PPS_delta_sum' = [PPS_delta_sum EXCEPT ![k] = reg[t]]
       /\ UNCHANGED <<PPS_cur_delta, reg>>
    \/ /\ Step(t, zero, next)
       /\ PPS_cur_delta' = [PPS_cur_delta EXCEPT ![k] = 0]
       /\ UNCHANGED <<PPS_delta_sum, reg>>

SaveDelta(t) ==
    /\ \/ AddRate(t, "com", "load_com", "store_com", "zero_com", "load_batch")
       \/ AddRate(t, "batch", "load_batch", "store_batch", "zero_batch", "push_back")
       \/ Step(t, "push_back", "start") /\ UNCHANGED <<sums, reg>>
    /\ UNCHANGED <<now, ring, delta>>

\* Mutant: STOP is moved first.
NextDeltaStopFirst(t) ==
    /\ \/ Step(t, "start", "stop") /\ Load(t, tsCur_delta_STOP + Delta_t) /\ UNCHANGED delta
       \/ /\ Step(t, "stop", "store_stop")
          /\ tsCur_delta_STOP' = reg[t] /\ UNCHANGED <<reg, tsCur_delta_START>>
       \/ /\ Step(t, "store_stop", "test")
          /\ tsCur_delta_START' = tsCur_delta_STOP /\ UNCHANGED <<reg, tsCur_delta_STOP>>
    /\ UNCHANGED <<now, ring, sums>>

NextDelta(t) ==
    /\ \/ /\ Step(t, "start", "stop")
          /\ tsCur_delta_START' = tsCur_delta_STOP /\ UNCHANGED <<reg, tsCur_delta_STOP>>
       \/ Step(t, "stop", "store_stop") /\ Load(t, tsCur_delta_START + Delta_t) /\ UNCHANGED delta
       \/ /\ Step(t, "store_stop", "test")
          /\ tsCur_delta_STOP' = reg[t] /\ UNCHANGED <<reg, tsCur_delta_START>>
    /\ UNCHANGED <<now, ring, sums>>

(* The packet is counted in the delta found.                                  *)
CountPacket(t) ==
    /\ Step(t, "count", "counted")
    /\ Load(t, PPS_cur_delta[t] + 1)
    /\ UNCHANGED <<now, ring, delta, sums>>

(* The call returns; a packet created is sent.                                *)
Return(t) ==
    /\ Step(t, "counted", "idle")
    /\ PPS_cur_delta' = [PPS_cur_delta EXCEPT ![t] = reg[t]]
    /\ Load(t, 0)
    /\ wire' = IF t = "batch" THEN wire \cup {packet[t]} ELSE wire
    /\ UNCHANGED <<now, sent_packets_timestamp2, count, packet, underruns, delta, PPS_delta_sum>>

Tick ==
    /\ now < MaxTime
    /\ now' = now + 1
    /\ UNCHANGED <<ring, delta, sums, pc, reg>>

Call == \/ SendPacketID \/ Stamp
        \/ RoundTrip \/ ClearStamp
        \/ \E p \in wire : ReceivePacketID(p)
        \/ \E t \in Threads : Test(t) \/ SaveDelta(t) \/ NextDelta(t) \/ CountPacket(t) \/ Return(t)

\* Every packet is sent, handled, and the clock has stopped.
Done == now = MaxTime /\ count["batch"] = MaxSent /\ wire = {}
        /\ (\A t \in Threads : pc[t] = "idle") /\ UNCHANGED vars

Next == \/ /\ Call \/ Tick
           /\ clash' = (clash \/ \A t \in Threads : InDeltas(t)')
        \/ Done

Spec == Init /\ [][Next]_vars

-----------------------------------------------------------------------------
Packet == [id : 1..TIMESTAMP_COUNT, at : Nat]

(* Types of all variables.                                                   *)
TypeOK ==
    /\ now \in Nat \ {0}
    /\ sent_packets_timestamp2 \in [Slots -> Nat]
    /\ count \in [Threads -> Nat]
    /\ tsCur_delta_START \in Nat /\ tsCur_delta_STOP \in Nat
    /\ PPS_cur_delta \in [Threads -> Nat] /\ PPS_delta_sum \in [Threads -> Nat]
    /\ pc \in [Threads -> RingPlaces \cup DeltaPlaces] /\ reg \in [Threads -> Nat]
    /\ packet \in [Threads -> Packet]
    /\ wire \subseteq Packet
    /\ underruns \in Nat /\ clash \in BOOLEAN

(* The ring needs no lock: however the two calls overlap, unless an under    *)
(* run was reported, the slot of every packet the controller may answer      *)
(* holds that packet's stamp, the round trip time under way is measured from *)
(* the stamp of the packet answered, and every packet sent is matched or     *)
(* waits in its slot.                                                        *)
RingSurvives ==
    underruns = 0 =>
        /\ \A p \in wire : sent_packets_timestamp2[p.id - 1] = p.at
        /\ pc["com"] = "clear" => reg["com"] = packet["com"].at
        /\ count["batch"] = count["com"] + Cardinality({i \in Slots : sent_packets_timestamp2[i] # 0})

(* As long as the two threads were not among the deltas at the same time,    *)
(* whatever else of the calls overlapped, no packet is lost from the deltas  *)
(* and none is in two: a lock around ChangeDelta() and the count behind it   *)
(* would be enough.                                                          *)
TotalsUnlessClash ==
    ~clash => \A t \in Threads :
        pc[t] \in {"idle", "stamp", "rtt", "clear"} /\ (\A u \in Threads : ~InDeltas(u)) =>
            PPS_delta_sum[t] + PPS_cur_delta[t] = count[t]

(* A rate is computed over a delta of length Delta_t.                        *)
RatesOverDelta ==
    \A t \in Threads : pc[t] \in {"load_com", "load_batch"} =>
        tsCur_delta_STOP - tsCur_delta_START = Delta_t

(* ... which the same lock would ensure, too.                                *)
RatesUnlessClash == ~clash => RatesOverDelta
=============================================================================
