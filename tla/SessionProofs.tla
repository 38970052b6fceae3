--------------------------- MODULE SessionProofs ---------------------------
(***************************************************************************)
(* Theorems about Session for every value of its constants: types, the gate *)
(* protocol and the bound on stragglers, and that Session implements        *)
(* TrafficGate.  The gate results need TimelyBatch; that sessions begin     *)
(* without packets of earlier ones needs Prompt, too.                       *)
(***************************************************************************)
EXTENDS Session, TLAPS

USE DEF Switches

\* main is past the delay that follows the creation of a switch.
Measuring == mainPc \in {"reset", "start", "read", "stop", "sleep", "check"}

\* A batch thread that has not parked holds nothing.
Unparked(s) == batchPc[s] \in {"none", "reset", "park"}

(* The batch thread is launched by the start thread, and that one by main;   *)
(* no start thread tries once more after the last time.                      *)
ThreadOrder ==
    \A s \in Switches :
        /\ s \notin Created => startPc[s] = "none"
        /\ startPc[s] # "join" => batchPc[s] = "none"
        /\ startPc[s] \in {"none", "init"} => intTry[s] = 0
        /\ startPc[s] = "connect" /\ ~exited => intTry[s] <= N_TRY_TO_CONNECT

\* main's cursor in its loops over the switches, and the room for a new one.
Cursor ==
    /\ Measuring => j \in Created
    /\ mainPc \in {"read", "sleep"} => j = 1
    /\ mainPc = "delay" => 1 \in Created
    /\ mainPc \in {"init", "new"} => intCountSwitches < MaxSwitches
    /\ mainPc = "init" => intCountSwitches <= MinSwitches - 1

(* The inductive invariant of the gate, for one switch: GateFollowsMain and    *)
(* StragglerBound with what they rest on.  A session is only open for parked *)
(* batch threads, one that has not parked holds nothing, and no straggler is *)
(* counted while the switch is in the session.                               *)
GateOK(s) ==
    /\ Measuring /\ s \in Created => Parked(s)
    /\ Unparked(s) => ~mutxBatchRun[s] /\ ~InSession(s)
    /\ Parked(s) =>
         IF InSession(s) THEN mutxBatchRun[s] <=> batchPc[s] = "pass"
                         ELSE mutxBatchRun[s] /\ batchPc[s] # "pass"
    /\ late[s] + Owed(s) <= 1
    /\ InSession(s) => late[s] = 0

GateInv == \A s \in Switches : GateOK(s)

IInv == TypeOK /\ ThreadOrder /\ Cursor
-----------------------------------------------------------------------------
(* Types, the order in which threads are launched, main's cursor. *)
LEMMA TypeInit == Init => IInv
<1> SUFFICES ASSUME Init PROVE IInv
  OBVIOUS
<1> USE SessionAssumption DEF SessionAssumption, Init
<1>1. TypeOK
  <2>1. /\ mainPc \in MainPcs
        /\ startPc \in [Switches -> StartPcs]
        /\ batchPc \in [Switches -> BatchPcs]
    BY DEF MainPcs, StartPcs, BatchPcs
  <2>2. /\ j \in Switches /\ intCountSwitches \in 0..MaxSwitches
        /\ intTry \in [Switches -> 0..(N_TRY_TO_CONNECT + 1)]
    OBVIOUS
  <2>3. /\ fresh \in [Switches -> Nat] /\ stale \in [Switches -> Nat]
        /\ late \in [Switches -> Nat]
    OBVIOUS
  <2>4. /\ exited \in BOOLEAN
        /\ mutxBatchRun \in [Switches -> BOOLEAN]
        /\ recent \in [Switches -> BOOLEAN]
        /\ heldStale \in [Switches -> BOOLEAN]
    OBVIOUS
  <2>5. QED
    BY <2>1, <2>2, <2>3, <2>4 DEF TypeOK
<1>2. ThreadOrder
  BY DEF ThreadOrder
<1>3. Cursor
  BY DEF Cursor, Measuring
<1>4. QED
  BY <1>1, <1>2, <1>3 DEF IInv

(* reset_statistic() keeps the types of the statistics and of the packets. *)
LEMMA ResetType ==
  ASSUME TypeOK, NEW s \in Switches, ResetStatistic(s)
  PROVE  /\ recent' \in [Switches -> BOOLEAN]
         /\ fresh' \in [Switches -> Nat] /\ stale' \in [Switches -> Nat]
         /\ heldStale' \in [Switches -> BOOLEAN]
<1>1. recent' \in [Switches -> BOOLEAN]
  BY DEF TypeOK, ResetStatistic
<1>2. fresh' \in [Switches -> Nat] /\ stale' \in [Switches -> Nat]
  BY DEF TypeOK, ResetStatistic
<1>3. heldStale' \in [Switches -> BOOLEAN]
  BY DEF TypeOK, ResetStatistic
<1>4. QED
  BY <1>1, <1>2, <1>3

(* The controller takes a packet that is there. *)
LEMMA TakeType ==
  ASSUME TypeOK, NEW s \in Switches, TakePacket(s)
  PROVE  fresh' \in [Switches -> Nat] /\ stale' \in [Switches -> Nat]
<1>1. CASE fresh[s] > 0 /\ fresh' = [fresh EXCEPT ![s] = @ - 1] /\ stale' = stale
  <2>1. fresh[s] - 1 \in Nat
    BY <1>1 DEF TypeOK
  <2>2. QED
    BY <1>1, <2>1 DEF TypeOK
<1>2. CASE stale[s] > 0 /\ stale' = [stale EXCEPT ![s] = @ - 1] /\ fresh' = fresh
  <2>1. stale[s] - 1 \in Nat
    BY <1>2 DEF TypeOK
  <2>2. QED
    BY <1>2, <2>1 DEF TypeOK
<1>3. QED
  BY <1>1, <1>2 DEF TakePacket

LEMMA TypeStep == IInv /\ [Next]_vars => IInv'
<1> SUFFICES ASSUME IInv, [Next]_vars PROVE IInv'
  OBVIOUS
<1> USE SessionAssumption DEF SessionAssumption, IInv, ThreadOrder, Cursor, Measuring, Created
<1> USE DEF mainVars, startVars, gateVars, netVars
<1>1. CASE CreateMinSwitch
  <2>0. intCountSwitches + 1 \in Switches
    BY <1>1 DEF CreateMinSwitch, TypeOK
  <2>1. TypeOK'
    <3>1. startPc' \in [Switches -> StartPcs]
      BY <1>1, <2>0 DEF CreateMinSwitch, NewSwitch, StartPcs, TypeOK
    <3>2. intCountSwitches' \in 0..MaxSwitches
      BY <1>1 DEF CreateMinSwitch, NewSwitch, TypeOK
    <3>3. QED
      BY <1>1, <3>1, <3>2 DEF CreateMinSwitch, TypeOK
  <2>2. ThreadOrder'
    BY <1>1 DEF CreateMinSwitch, NewSwitch, StartPcs, TypeOK
  <2>3. Cursor'
    BY <1>1 DEF CreateMinSwitch, NewSwitch, StartPcs, TypeOK
  <2>4. QED
    BY <2>1, <2>2, <2>3
<1>2. CASE MinSwitchesCreated
  BY <1>2 DEF MinSwitchesCreated, MainPcs, TypeOK
<1>3. CASE CreateSwitch
  <2>0. intCountSwitches + 1 \in Switches
    BY <1>3 DEF CreateSwitch, TypeOK
  <2>1. TypeOK'
    <3>1. mainPc' \in MainPcs /\ startPc' \in [Switches -> StartPcs]
      BY <1>3, <2>0 DEF CreateSwitch, NewSwitch, MainPcs, StartPcs, TypeOK
    <3>2. intCountSwitches' \in 0..MaxSwitches
      BY <1>3 DEF CreateSwitch, NewSwitch, TypeOK
    <3>3. QED
      BY <1>3, <3>1, <3>2 DEF CreateSwitch, TypeOK
  <2>2. ThreadOrder'
    BY <1>3 DEF CreateSwitch, NewSwitch, MainPcs, StartPcs, TypeOK
  <2>3. Cursor'
    BY <1>3 DEF CreateSwitch, NewSwitch, MainPcs, StartPcs, TypeOK
  <2>4. QED
    BY <2>1, <2>2, <2>3
<1>4. CASE EndDelay
  <2>1. TypeOK'
    BY <1>4 DEF EndDelay, MainPcs, TypeOK
  <2>2. ThreadOrder'
    BY <1>4 DEF EndDelay, MainPcs, TypeOK
  <2>3. Cursor'
    BY <1>4 DEF EndDelay, MainPcs, TypeOK
  <2>4. QED
    BY <2>1, <2>2, <2>3
<1>5. CASE ResetSwitch
  <2>0. ResetStatistic(j) /\ j \in Switches
    BY <1>5 DEF ResetSwitch, TypeOK
  <2>1. TypeOK'
    <3>1. /\ recent' \in [Switches -> BOOLEAN]
          /\ fresh' \in [Switches -> Nat] /\ stale' \in [Switches -> Nat]
          /\ heldStale' \in [Switches -> BOOLEAN]
      BY <2>0, ResetType
    <3>2. QED
      BY <1>5, <3>1 DEF ResetSwitch, MainPcs, TypeOK
  <2>2. ThreadOrder'
    BY <1>5 DEF ResetSwitch, MainPcs, TypeOK
  <2>3. Cursor'
    BY <1>5 DEF ResetSwitch, MainPcs, TypeOK
  <2>4. QED
    BY <2>1, <2>2, <2>3
<1>6. CASE StartSwitch
  BY <1>6 DEF StartSwitch, NextSwitch, MainPcs, TypeOK
<1>7. CASE ReadStatistics
  BY <1>7 DEF ReadStatistics, MainPcs, TypeOK
<1>8. CASE StopSwitch
  <2>1. TypeOK'
    BY <1>8 DEF StopSwitch, NextSwitch, MainPcs, TypeOK
  <2>2. ThreadOrder'
    BY <1>8 DEF StopSwitch, NextSwitch, MainPcs, TypeOK
  <2>3. Cursor'
    BY <1>8 DEF StopSwitch, NextSwitch, MainPcs, TypeOK
  <2>4. QED
    BY <2>1, <2>2, <2>3
<1>9. CASE EndSleep
  BY <1>9 DEF EndSleep, MainPcs, TypeOK
<1>10. CASE CheckSwitch
  <2>1. CASE recent[j]
    <3>1. mainPc' = "sleep" /\ j' = 1 /\ intCountSwitches' = intCountSwitches
      BY <1>10, <2>1 DEF CheckSwitch
    <3>2. mainPc' \in MainPcs /\ j' \in Switches
      BY <3>1 DEF MainPcs, TypeOK
    <3>3. TypeOK'
      BY <1>10, <3>1, <3>2 DEF CheckSwitch, TypeOK
    <3>4. ThreadOrder'
      BY <1>10, <3>1 DEF CheckSwitch, TypeOK
    <3>5. Cursor'
      BY <1>10, <3>1 DEF CheckSwitch, TypeOK
    <3>6. QED
      BY <3>3, <3>4, <3>5
  <2>2. CASE ~recent[j]
    <3>1. /\ mainPc' \in {"check", "new", "join"}
          /\ mainPc' = "check" => j < intCountSwitches /\ j' = j + 1
          /\ mainPc' # "check" => j' = 1
          /\ mainPc' = "new" => intCountSwitches < MaxSwitches
          /\ intCountSwitches' = intCountSwitches
      BY <1>10, <2>2 DEF CheckSwitch, NextSwitch, TypeOK
    <3>2. mainPc' \in MainPcs /\ j' \in Switches
      <4>1. j \in Nat /\ intCountSwitches \in Nat /\ intCountSwitches <= MaxSwitches
        BY DEF TypeOK
      <4>2. mainPc' \in MainPcs
        BY <3>1 DEF MainPcs
      <4>3. j' \in Switches
        BY <3>1, <4>1 DEF TypeOK
      <4>4. QED
        BY <4>2, <4>3
    <3>3. TypeOK'
      BY <1>10, <3>1, <3>2 DEF CheckSwitch, TypeOK
    <3>4. ThreadOrder'
      BY <1>10, <3>1 DEF CheckSwitch, TypeOK
    <3>5. Cursor'
      <4>1. j \in Created /\ j \in Nat /\ intCountSwitches \in Nat
        BY <1>10 DEF CheckSwitch, TypeOK
      <4>2. CASE mainPc' = "check"
        BY <3>1, <4>1, <4>2
      <4>3. CASE mainPc' = "new"
        BY <3>1, <4>3
      <4>4. CASE mainPc' = "join"
        BY <4>4
      <4>5. QED
        BY <3>1, <4>2, <4>3, <4>4
    <3>6. QED
      BY <3>3, <3>4, <3>5
  <2>3. QED
    BY <2>1, <2>2
<1>11. ASSUME NEW s \in Switches, StartInit(s) PROVE IInv'
  <2>0. ResetStatistic(s) /\ s \in Switches
    BY <1>11 DEF StartInit, TypeOK
  <2>1. TypeOK'
    <3>1. /\ recent' \in [Switches -> BOOLEAN]
          /\ fresh' \in [Switches -> Nat] /\ stale' \in [Switches -> Nat]
          /\ heldStale' \in [Switches -> BOOLEAN]
      BY <2>0, ResetType
    <3>2. QED
      BY <1>11, <3>1 DEF StartInit, StartPcs, TypeOK
  <2>2. ThreadOrder'
    <3>1. s \in Created /\ Created' = Created
      BY <1>11 DEF StartInit
    <3>2. SUFFICES ASSUME NEW u \in Switches
                   PROVE  /\ u \notin Created' => startPc'[u] = "none"
                          /\ startPc'[u] # "join" => batchPc'[u] = "none"
                          /\ startPc'[u] \in {"none", "init"} => intTry'[u] = 0
                          /\ startPc'[u] = "connect" /\ ~exited' => intTry'[u] <= N_TRY_TO_CONNECT
      OBVIOUS
    <3>3. CASE u = s
      BY <1>11, <3>1, <3>3 DEF StartInit, TypeOK
    <3>4. CASE u # s
      BY <1>11, <3>1, <3>4 DEF StartInit, TypeOK
    <3>5. QED
      BY <3>3, <3>4
  <2>3. Cursor'
    BY <1>11 DEF StartInit, StartPcs, TypeOK
  <2>4. QED
    BY <2>1, <2>2, <2>3
<1>12. ASSUME NEW s \in Switches, ~exited, Connect(s) PROVE IInv'
  <2>0. intTry[s] <= N_TRY_TO_CONNECT /\ intTry[s] \in Nat
    BY <1>12 DEF Connect, TypeOK
  <2>1. TypeOK'
    <3>1. exited' \in BOOLEAN
      BY <1>12 DEF Connect, TypeOK
    <3>2. startPc' \in [Switches -> StartPcs]
      BY <1>12 DEF Connect, StartPcs, TypeOK
    <3>3. intTry' \in [Switches -> 0..(N_TRY_TO_CONNECT + 1)]
      <4>1. intTry' = [intTry EXCEPT ![s] = intTry[s] + 1]
        BY <1>12 DEF Connect
      <4>2. intTry[s] + 1 \in 0..(N_TRY_TO_CONNECT + 1)
        BY <2>0
      <4>3. QED
        BY <4>1, <4>2 DEF TypeOK
    <3>4. QED
      BY <1>12, <3>1, <3>2, <3>3 DEF Connect, TypeOK
  <2>2. ThreadOrder'
    <3>1. s \in Created /\ Created' = Created
      BY <1>12 DEF Connect
    <3>2. SUFFICES ASSUME NEW u \in Switches
                   PROVE  /\ u \notin Created' => startPc'[u] = "none"
                          /\ startPc'[u] # "join" => batchPc'[u] = "none"
                          /\ startPc'[u] \in {"none", "init"} => intTry'[u] = 0
                          /\ startPc'[u] = "connect" /\ ~exited' => intTry'[u] <= N_TRY_TO_CONNECT
      OBVIOUS
    <3>3. CASE u = s
      <4>1. startPc[s] = "connect" /\ intTry'[s] = intTry[s] + 1
        BY <1>12 DEF Connect, TypeOK
      <4>2. CASE startPc' = [startPc EXCEPT ![s] = "com"]
        BY <1>12, <3>1, <3>3, <4>1, <4>2 DEF Connect, TypeOK
      <4>3. CASE intTry[s] < N_TRY_TO_CONNECT /\ UNCHANGED <<startPc, exited>>
        BY <1>12, <2>0, <3>1, <3>3, <4>1, <4>3 DEF Connect, TypeOK
      <4>4. CASE exited' = TRUE /\ UNCHANGED startPc
        BY <1>12, <3>1, <3>3, <4>1, <4>4 DEF Connect, TypeOK
      <4>5. QED
        BY <1>12, <4>2, <4>3, <4>4 DEF Connect
    <3>4. CASE u # s
      BY <1>12, <3>1, <3>4 DEF Connect, TypeOK
    <3>5. QED
      BY <3>3, <3>4
  <2>3. Cursor'
    BY <1>12 DEF Connect, StartPcs, TypeOK
  <2>4. QED
    BY <2>1, <2>2, <2>3
<1>13. ASSUME NEW s \in Switches, StartComThread(s) PROVE IInv'
  BY <1>13 DEF StartComThread, StartPcs, TypeOK
<1>14. ASSUME NEW s \in Switches, StartBatchThread(s) PROVE IInv'
  BY <1>14 DEF StartBatchThread, StartPcs, BatchPcs, TypeOK
<1>15. ASSUME NEW s \in Switches, BatchReset(s) PROVE IInv'
  <2>0. ResetStatistic(s) /\ s \in Switches
    BY <1>15 DEF BatchReset, TypeOK
  <2>1. TypeOK'
    <3>1. /\ recent' \in [Switches -> BOOLEAN]
          /\ fresh' \in [Switches -> Nat] /\ stale' \in [Switches -> Nat]
          /\ heldStale' \in [Switches -> BOOLEAN]
      BY <2>0, ResetType
    <3>2. QED
      BY <1>15, <3>1 DEF BatchReset, BatchStep, BatchPcs, TypeOK
  <2>2. ThreadOrder'
    BY <1>15 DEF BatchReset, BatchStep, BatchPcs, TypeOK
  <2>3. Cursor'
    BY <1>15 DEF BatchReset, BatchStep, BatchPcs, TypeOK
  <2>4. QED
    BY <2>1, <2>2, <2>3
<1>16. ASSUME NEW s \in Switches, BatchPark(s) PROVE IInv'
  BY <1>16 DEF BatchPark, BatchStep, Lock, BatchPcs, TypeOK
<1>17. ASSUME NEW s \in Switches, PassGate(s) PROVE IInv'
  BY <1>17 DEF PassGate, BatchStep, Lock, BatchPcs, TypeOK
<1>18. ASSUME NEW s \in Switches, LeaveGate(s) PROVE IInv'
  BY <1>18 DEF LeaveGate, BatchStep, Unlock, BatchPcs, TypeOK
<1>19. ASSUME NEW s \in Switches, NoPacket(s) PROVE IInv'
  BY <1>19 DEF NoPacket, BatchStep, BatchPcs, TypeOK
<1>20. ASSUME NEW s \in Switches, CreatePacket(s) PROVE IInv'
  <2>1. TypeOK'
    <3>1. batchPc' \in [Switches -> BatchPcs]
      BY <1>20 DEF CreatePacket, BatchStep, BatchPcs, TypeOK
    <3>2. late' \in [Switches -> Nat]
      <4>1. CASE InSession(s)
        BY <1>20, <4>1 DEF CreatePacket, TypeOK
      <4>2. CASE ~InSession(s)
        BY <1>20, <4>2 DEF CreatePacket, TypeOK
      <4>3. QED
        BY <4>1, <4>2
    <3>3. recent' \in [Switches -> BOOLEAN] /\ heldStale' \in [Switches -> BOOLEAN]
      BY <1>20 DEF CreatePacket, TypeOK
    <3>4. QED
      BY <1>20, <3>1, <3>2, <3>3 DEF CreatePacket, TypeOK
  <2>2. ThreadOrder'
    BY <1>20 DEF CreatePacket, BatchStep, BatchPcs, TypeOK
  <2>3. Cursor'
    BY <1>20 DEF CreatePacket, BatchStep, BatchPcs, TypeOK
  <2>4. QED
    BY <2>1, <2>2, <2>3
<1>21. ASSUME NEW s \in Switches, SendPacket(s) PROVE IInv'
  <2>1. TypeOK'
    <3>1. batchPc' \in [Switches -> BatchPcs]
      BY <1>21 DEF SendPacket, BatchStep, BatchPcs, TypeOK
    <3>2. fresh' \in [Switches -> Nat] /\ stale' \in [Switches -> Nat]
      <4>1. fresh \in [Switches -> Nat] /\ stale \in [Switches -> Nat]
        BY DEF TypeOK
      <4>2. \/ fresh' = [fresh EXCEPT ![s] = @ + 1] /\ stale' = stale
            \/ stale' = [stale EXCEPT ![s] = @ + 1] /\ fresh' = fresh
        BY <1>21 DEF SendPacket
      <4>3. fresh[s] + 1 \in Nat /\ stale[s] + 1 \in Nat
        BY <4>1
      <4>4. CASE fresh' = [fresh EXCEPT ![s] = @ + 1] /\ stale' = stale
        BY <4>1, <4>3, <4>4
      <4>5. CASE stale' = [stale EXCEPT ![s] = @ + 1] /\ fresh' = fresh
        BY <4>1, <4>3, <4>5
      <4>6. QED
        BY <4>2, <4>4, <4>5
    <3>3. heldStale' \in [Switches -> BOOLEAN]
      BY <1>21 DEF SendPacket, TypeOK
    <3>4. QED
      BY <1>21, <3>1, <3>2, <3>3 DEF SendPacket, TypeOK
  <2>2. ThreadOrder'
    BY <1>21 DEF SendPacket, BatchStep, BatchPcs, TypeOK
  <2>3. Cursor'
    BY <1>21 DEF SendPacket, BatchStep, BatchPcs, TypeOK
  <2>4. QED
    BY <2>1, <2>2, <2>3
<1>22. ASSUME NEW s \in Switches, ReceiveAnswer(s) PROVE IInv'
  <2>1. TypeOK'
    BY <1>22, TakeType DEF ReceiveAnswer, TakePacket, TypeOK
  <2>2. ThreadOrder'
    BY <1>22 DEF ReceiveAnswer, TakePacket, TypeOK
  <2>3. Cursor'
    BY <1>22 DEF ReceiveAnswer, TakePacket, TypeOK
  <2>4. QED
    BY <2>1, <2>2, <2>3
<1>23. ASSUME NEW s \in Switches, NoAnswer(s) PROVE IInv'
  <2>1. TypeOK'
    BY <1>23, TakeType DEF NoAnswer, TakePacket, TypeOK
  <2>2. ThreadOrder'
    BY <1>23 DEF NoAnswer, TakePacket, TypeOK
  <2>3. Cursor'
    BY <1>23 DEF NoAnswer, TakePacket, TypeOK
  <2>4. QED
    BY <2>1, <2>2, <2>3
<1>24. ASSUME NEW s \in Switches, Elapse(s) PROVE IInv'
  BY <1>24 DEF Elapse, TypeOK
<1>25. CASE UNCHANGED vars
  BY <1>25 DEF vars, TypeOK
<1>26. QED
  BY <1>1, <1>2, <1>3, <1>4, <1>5, <1>6, <1>7, <1>8, <1>9, <1>10, <1>11, <1>12, <1>13, <1>14, <1>15, <1>16, <1>17, <1>18, <1>19, <1>20, <1>21, <1>22, <1>23, <1>24, <1>25 DEF Next, Main, StartThread, BatchThread, Network, Terminating

(* TypeOK, for all values of the constants and any environment. *)
THEOREM TypeCorrect == Spec => []TypeOK
<1>1. IInv => TypeOK
  BY DEF IInv
<1>2. QED
  BY TypeInit, TypeStep, <1>1, PTL DEF Spec
-----------------------------------------------------------------------------
(* The gate.  First the steps that leave a switch's gate alone. *)
LEMMA GateInit == Init => GateInv
  BY SessionAssumption DEF SessionAssumption, Init, GateInv, GateOK, Measuring, Created,
     Parked, Unparked, InSession, Owed

LEMMA GateFrame ==
  ASSUME NEW s \in Switches, GateOK(s),
         batchPc'[s] = batchPc[s], mutxBatchRun'[s] = mutxBatchRun[s], late'[s] = late[s],
         InSession(s)' <=> InSession(s),
         (Measuring /\ s \in Created)' => (Measuring /\ s \in Created) \/ Parked(s)
  PROVE  GateOK(s)'
  BY DEF GateOK, Parked, Unparked, Owed

LEMMA SameMain ==
  ASSUME UNCHANGED mainVars, NEW s
  PROVE  /\ InSession(s)' <=> InSession(s)
         /\ (Measuring /\ s \in Created)' <=> (Measuring /\ s \in Created)
  BY DEF mainVars, InSession, Measuring, Created

LEMMA GateMain ==
  ASSUME IInv, GateInv, TimelyBatch, Main
  PROVE  GateInv'
<1> SUFFICES ASSUME NEW u \in Switches PROVE GateOK(u)'
  BY DEF GateInv
<1> USE DEF IInv
<1>0. GateOK(u) /\ u \in Nat /\ j \in Nat /\ intCountSwitches \in Nat
  BY SessionAssumption DEF SessionAssumption, GateInv, TypeOK
<1>1. CASE CreateMinSwitch
  <2>1. ~InSession(u) /\ ~InSession(u)' /\ ~Measuring'
    BY <1>1 DEF CreateMinSwitch, InSession, Measuring
  <2>2. QED
    BY <1>0, <1>1, <2>1, GateFrame DEF CreateMinSwitch, gateVars
<1>2. CASE MinSwitchesCreated
  <2>1. ~InSession(u) /\ ~InSession(u)' /\ ~Measuring'
    BY <1>2 DEF MinSwitchesCreated, InSession, Measuring
  <2>2. QED
    BY <1>0, <1>2, <2>1, GateFrame DEF MinSwitchesCreated, gateVars
<1>3. CASE CreateSwitch
  <2>1. ~InSession(u) /\ ~InSession(u)' /\ ~Measuring'
    BY <1>3 DEF CreateSwitch, InSession, Measuring
  <2>2. QED
    BY <1>0, <1>3, <2>1, GateFrame DEF CreateSwitch, gateVars
<1>4. CASE EndDelay
  <2>1. ~InSession(u) /\ ~InSession(u)' /\ (u \in Created' => Parked(u))
    BY <1>0, <1>4 DEF EndDelay, InSession, Created
  <2>2. QED
    BY <1>0, <1>4, <2>1, GateFrame DEF EndDelay, gateVars
<1>5. CASE ResetSwitch
  <2>1. /\ InSession(u)' <=> InSession(u)
        /\ Measuring /\ Created' = Created
    BY <1>5 DEF ResetSwitch, InSession, Measuring, Created
  <2>2. QED
    BY <1>0, <1>5, <2>1, GateFrame DEF ResetSwitch, gateVars
<1>6. CASE StartSwitch
  <2>0. Measuring /\ Created' = Created /\ j \in Created
    BY <1>6, <1>0 DEF StartSwitch, NextSwitch, Measuring, Created, Cursor
  <2>1. InSession(u)' <=> InSession(u) \/ u = j
    BY <1>0, <1>6, <2>0 DEF StartSwitch, NextSwitch, InSession, Created
  <2>2. CASE u = j
    <3>1. ~InSession(u) /\ InSession(u)' /\ Parked(u)
      BY <1>0, <1>6, <2>0, <2>1, <2>2 DEF StartSwitch, InSession, GateOK
    <3>2. batchPc'[u] = batchPc[u] /\ batchPc[u] # "pass"
      BY <1>0, <1>6, <3>1 DEF StartSwitch, GateOK
    <3>3. mutxBatchRun'[u] = FALSE /\ late'[u] = 0
      BY <1>6, <2>2 DEF StartSwitch, TypeOK
    <3>4. QED
      BY <3>1, <3>2, <3>3 DEF GateOK, Parked, Unparked, Owed
  <2>3. CASE u # j
    <3>1. /\ mutxBatchRun'[u] = mutxBatchRun[u] /\ late'[u] = late[u]
          /\ batchPc'[u] = batchPc[u]
      BY <1>6, <2>3 DEF StartSwitch, TypeOK
    <3>2. QED
      BY <1>0, <2>0, <2>1, <2>3, <3>1, GateFrame
  <2>4. QED
    BY <2>2, <2>3
<1>7. CASE ReadStatistics
  <2>1. /\ InSession(u)' <=> InSession(u)
        /\ Measuring /\ Created' = Created
    BY <1>0, <1>7 DEF ReadStatistics, InSession, Measuring, Created, Cursor
  <2>2. QED
    BY <1>0, <1>7, <2>1, GateFrame DEF ReadStatistics, gateVars
<1>8. CASE StopSwitch
  <2>0. Measuring /\ Created' = Created /\ j \in Created
    BY <1>8, <1>0 DEF StopSwitch, NextSwitch, Measuring, Created, Cursor
  <2>1. InSession(u)' <=> InSession(u) /\ u # j
    BY <1>0, <1>8, <2>0 DEF StopSwitch, NextSwitch, InSession, Created
  <2>2. CASE u = j
    <3>1. InSession(u) /\ ~InSession(u)' /\ Parked(u)
      BY <1>0, <1>8, <2>0, <2>1, <2>2 DEF StopSwitch, InSession, GateOK, Created
    <3>2. /\ batchPc'[u] = batchPc[u] /\ batchPc[u] # "pass"
          /\ late'[u] = late[u] /\ late[u] = 0
      BY <1>0, <1>8, <2>2, <3>1 DEF StopSwitch, GateOK
    <3>3. mutxBatchRun'[u] = TRUE
      BY <1>8, <2>2 DEF StopSwitch, TypeOK
    <3>4. QED
      BY <3>1, <3>2, <3>3 DEF GateOK, Parked, Unparked, Owed
  <2>3. CASE u # j
    <3>1. /\ mutxBatchRun'[u] = mutxBatchRun[u] /\ late'[u] = late[u]
          /\ batchPc'[u] = batchPc[u]
      BY <1>8, <2>3 DEF StopSwitch, TypeOK
    <3>2. QED
      BY <1>0, <2>0, <2>1, <2>3, <3>1, GateFrame
  <2>4. QED
    BY <2>2, <2>3
<1>9. CASE EndSleep
  <2>1. ~InSession(u) /\ ~InSession(u)' /\ Measuring /\ Created' = Created
    BY <1>9 DEF EndSleep, InSession, Measuring, Created
  <2>2. QED
    BY <1>0, <1>9, <2>1, GateFrame DEF EndSleep, gateVars
<1>10. CASE CheckSwitch
  <2>1. ~InSession(u) /\ ~InSession(u)' /\ Measuring /\ Created' = Created
    BY <1>10 DEF CheckSwitch, NextSwitch, InSession, Measuring, Created
  <2>2. QED
    BY <1>0, <1>10, <2>1, GateFrame DEF CheckSwitch, gateVars
<1>11. QED
  BY <1>1, <1>2, <1>3, <1>4, <1>5, <1>6, <1>7, <1>8, <1>9, <1>10 DEF Main

(* Steps of one switch's threads leave main and the gates of the others alone. *)
LEMMA GateOther ==
  ASSUME IInv, GateInv, NEW s \in Switches, NEW u \in Switches, u # s,
         UNCHANGED mainVars,
         \/ batchPc' = batchPc
         \/ \E to \in BatchPcs : batchPc' = [batchPc EXCEPT ![s] = to],
         \/ mutxBatchRun' = mutxBatchRun
         \/ \E b \in BOOLEAN : mutxBatchRun' = [mutxBatchRun EXCEPT ![s] = b],
         late'[u] = late[u]
  PROVE  GateOK(u)'
<1>1. batchPc'[u] = batchPc[u]
  BY DEF IInv, TypeOK
<1>2. mutxBatchRun'[u] = mutxBatchRun[u]
  BY DEF IInv, TypeOK
<1>3. GateOK(u)
  BY DEF GateInv
<1>4. QED
  BY <1>1, <1>2, <1>3, GateFrame, SameMain

(* The gate protocol itself: each step of the batch thread and its launch. *)
LEMMA GateBatch ==
  ASSUME IInv, GateInv, NEW s \in Switches, StartBatchThread(s) \/ BatchThread(s)
  PROVE  GateInv'
<1> SUFFICES ASSUME NEW u \in Switches PROVE GateOK(u)'
  BY DEF GateInv
<1>0. /\ GateOK(s) /\ UNCHANGED mainVars
      /\ batchPc \in [Switches -> BatchPcs] /\ mutxBatchRun \in [Switches -> BOOLEAN]
      /\ late \in [Switches -> Nat]
  BY DEF IInv, TypeOK, GateInv, StartBatchThread, BatchThread, BatchReset, BatchPark, PassGate,
         LeaveGate, NoPacket, CreatePacket, SendPacket
<1>1. /\ InSession(s)' <=> InSession(s)
      /\ (Measuring /\ s \in Created)' <=> (Measuring /\ s \in Created)
  BY <1>0, SameMain
<1>2. CASE u # s
  <2>1. \E to \in BatchPcs : batchPc' = [batchPc EXCEPT ![s] = to]
    BY DEF StartBatchThread, BatchThread, BatchReset, BatchPark, PassGate, LeaveGate, NoPacket,
           CreatePacket, SendPacket, BatchStep, BatchPcs
  <2>2. \/ mutxBatchRun' = mutxBatchRun
        \/ \E b \in BOOLEAN : mutxBatchRun' = [mutxBatchRun EXCEPT ![s] = b]
    BY DEF StartBatchThread, BatchThread, BatchReset, BatchPark, PassGate, LeaveGate, NoPacket,
           CreatePacket, SendPacket, Lock, Unlock, gateVars
  <2>3. late'[u] = late[u]
    BY <1>0, <1>2 DEF StartBatchThread, BatchThread, BatchReset, BatchPark, PassGate, LeaveGate,
           NoPacket, CreatePacket, SendPacket
  <2>4. QED
    BY <1>0, <1>2, <2>1, <2>2, <2>3, GateOther
<1>3. CASE u = s
  <2>1. CASE StartBatchThread(s)
    <3>1. batchPc[s] = "none" /\ batchPc'[s] = "reset"
      BY <1>0, <2>1 DEF StartBatchThread, IInv, ThreadOrder
    <3>2. mutxBatchRun'[s] = mutxBatchRun[s] /\ late'[s] = late[s]
      BY <2>1 DEF StartBatchThread
    <3>3. QED
      BY <1>0, <1>1, <1>3, <3>1, <3>2 DEF GateOK, Parked, Unparked, Owed
  <2>2. CASE BatchReset(s)
    <3>1. /\ batchPc[s] = "reset" /\ batchPc'[s] = "park"
          /\ mutxBatchRun'[s] = mutxBatchRun[s] /\ late'[s] = late[s]
      BY <1>0, <2>2 DEF BatchReset, BatchStep
    <3>2. QED
      BY <1>0, <1>1, <1>3, <3>1 DEF GateOK, Parked, Unparked, Owed
  <2>3. CASE BatchPark(s)
    <3>1. /\ batchPc[s] = "park" /\ batchPc'[s] = "gate"
          /\ mutxBatchRun'[s] = TRUE /\ late'[s] = late[s]
      BY <1>0, <2>3 DEF BatchPark, BatchStep, Lock
    <3>2. QED
      BY <1>0, <1>1, <1>3, <3>1 DEF GateOK, Parked, Unparked, Owed
  <2>4. CASE PassGate(s)
    <3>1. /\ batchPc[s] = "gate" /\ batchPc'[s] = "pass" /\ ~mutxBatchRun[s]
          /\ mutxBatchRun'[s] = TRUE /\ late'[s] = late[s]
      BY <1>0, <2>4 DEF PassGate, BatchStep, Lock
    <3>2. InSession(s) /\ late[s] = 0
      BY <1>0, <3>1 DEF GateOK, Parked
    <3>3. QED
      BY <1>0, <1>1, <1>3, <3>1, <3>2 DEF GateOK, Parked, Unparked, Owed
  <2>5. CASE LeaveGate(s)
    <3>1. /\ batchPc[s] = "pass" /\ batchPc'[s] = "create"
          /\ mutxBatchRun'[s] = FALSE /\ late'[s] = late[s]
      BY <1>0, <2>5 DEF LeaveGate, BatchStep, Unlock
    <3>2. InSession(s)
      BY <1>0, <3>1 DEF GateOK, Parked
    <3>3. QED
      BY <1>0, <1>1, <1>3, <3>1, <3>2 DEF GateOK, Parked, Unparked, Owed
  <2>6. CASE NoPacket(s)
    <3>1. /\ batchPc[s] = "create" /\ batchPc'[s] = "gate"
          /\ mutxBatchRun'[s] = mutxBatchRun[s] /\ late'[s] = late[s] /\ late[s] \in Nat
      BY <1>0, <2>6 DEF NoPacket, BatchStep
    <3>2. QED
      BY <1>0, <1>1, <1>3, <3>1 DEF GateOK, Parked, Unparked, Owed
  <2>7. CASE CreatePacket(s)
    <3>1. /\ batchPc[s] = "create" /\ batchPc'[s] = "send"
          /\ mutxBatchRun'[s] = mutxBatchRun[s] /\ late[s] \in Nat
      BY <1>0, <2>7 DEF CreatePacket, BatchStep
    <3>2. late'[s] = IF InSession(s) THEN late[s] ELSE late[s] + 1
      BY <1>0, <2>7 DEF CreatePacket
    <3>3. QED
      BY <1>0, <1>1, <1>3, <3>1, <3>2 DEF GateOK, Parked, Unparked, Owed
  <2>8. CASE SendPacket(s)
    <3>1. /\ batchPc[s] = "send" /\ batchPc'[s] = "gate"
          /\ mutxBatchRun'[s] = mutxBatchRun[s] /\ late'[s] = late[s]
      BY <1>0, <2>8 DEF SendPacket, BatchStep
    <3>2. QED
      BY <1>0, <1>1, <1>3, <3>1 DEF GateOK, Parked, Unparked, Owed
  <2>9. QED
    BY <2>1, <2>2, <2>3, <2>4, <2>5, <2>6, <2>7, <2>8 DEF BatchThread
<1>4. QED
  BY <1>2, <1>3

(* Everything else in the threads and the network leaves every gate alone. *)
LEMMA GateIdle ==
  ASSUME IInv, GateInv, UNCHANGED <<mainVars, gateVars, late>>
  PROVE  GateInv'
  BY GateFrame, SameMain DEF GateInv, gateVars

LEMMA GateStep == TimelyBatch /\ IInv /\ GateInv /\ [Next]_vars => GateInv'
<1> SUFFICES ASSUME TimelyBatch, IInv, GateInv, [Next]_vars PROVE GateInv'
  OBVIOUS
<1>1. CASE Main
  BY <1>1, GateMain
<1>2. ASSUME NEW s \in Switches, StartThread(s) PROVE GateInv'
  <2>1. CASE StartBatchThread(s)
    BY <2>1, GateBatch
  <2>2. CASE StartInit(s) \/ Connect(s) \/ StartComThread(s)
    BY <2>2, GateIdle DEF StartInit, Connect, StartComThread
  <2>3. QED
    BY <1>2, <2>1, <2>2 DEF StartThread
<1>3. ASSUME NEW s \in Switches, BatchThread(s) PROVE GateInv'
  BY <1>3, GateBatch
<1>4. ASSUME NEW s \in Switches, Network(s) PROVE GateInv'
  BY <1>4, GateIdle DEF Network, ReceiveAnswer, NoAnswer, TakePacket
<1>5. ASSUME NEW s \in Switches, Elapse(s) PROVE GateInv'
  BY <1>5, GateIdle DEF Elapse
<1>6. CASE UNCHANGED vars
  BY <1>6, GateIdle DEF vars
<1>7. QED
  BY <1>1, <1>2, <1>3, <1>4, <1>5, <1>6 DEF Next, Terminating

LEMMA GateAlways == ASSUME TimelyBatch PROVE Spec => [](IInv /\ GateInv)
  BY TypeInit, TypeStep, GateInit, GateStep, PTL DEF Spec

(* If delay_create outlasts every switch's set-up, the mutex of a parked      *)
(* batch thread follows start_() and stop_(): in a session nobody but the    *)
(* thread itself holds it, outside it is locked with the thread waiting.     *)
THEOREM GateCorrect == ASSUME TimelyBatch PROVE Spec => []GateFollowsMain
<1>1. GateInv => GateFollowsMain
  BY DEF GateInv, GateOK, GateFollowsMain
<1>2. QED
  BY <1>1, GateAlways, PTL

(* Under the same assumption, controller_batch creates at most one packet of *)
(* a switch after stop_() has returned for it.                               *)
THEOREM AtMostOneStraggler == ASSUME TimelyBatch PROVE Spec => []StragglerBound
<1>1. GateInv => StragglerBound
  BY DEF GateInv, GateOK, StragglerBound
<1>2. QED
  BY <1>1, GateAlways, PTL

(* Under the same assumption start_() always lets the batch thread go: the    *)
(* promise that a late batch thread breaks.                                  *)
THEOREM NotLockedOut == ASSUME TimelyBatch PROVE Spec => []StartedNotLockedOut
<1>1. IInv /\ GateInv => StartedNotLockedOut
  BY DEF IInv, GateInv, GateOK, StartedNotLockedOut, Parked, Unparked, TypeOK, BatchPcs
<1>2. QED
  BY <1>1, GateAlways, PTL
-----------------------------------------------------------------------------
(* Session implements TrafficGate.  First which switches a step of main turns *)
(* on and off.                                                               *)
LEMMA StartSession ==
  ASSUME IInv, StartSwitch, NEW u \in Switches
  PROVE  j \in Switches /\ ~InSession(j) /\ (InSession(u)' <=> InSession(u) \/ u = j)
<1>0. u \in Nat /\ j \in Nat /\ j \in Switches /\ intCountSwitches \in Nat
  BY SessionAssumption DEF SessionAssumption, IInv, TypeOK
<1>1. j \in Created /\ mainPc = "start"
  BY DEF StartSwitch, IInv, Cursor, Measuring
<1>2. InSession(u)' <=> InSession(u) \/ u = j
  BY <1>0, <1>1 DEF StartSwitch, NextSwitch, InSession, Created
<1>3. ~InSession(j)
  BY <1>0, <1>1 DEF InSession
<1>4. QED
  BY <1>0, <1>2, <1>3

LEMMA StopSession ==
  ASSUME IInv, StopSwitch, NEW u \in Switches
  PROVE  j \in Switches /\ InSession(j) /\ (InSession(u)' <=> InSession(u) /\ u # j)
<1>0. u \in Nat /\ j \in Nat /\ j \in Switches /\ intCountSwitches \in Nat
  BY SessionAssumption DEF SessionAssumption, IInv, TypeOK
<1>1. j \in Created /\ mainPc = "stop"
  BY DEF StopSwitch, IInv, Cursor, Measuring
<1>2. InSession(u)' <=> InSession(u) /\ u # j
  BY <1>0, <1>1 DEF StopSwitch, NextSwitch, InSession, Created
<1>3. InSession(j)
  BY <1>0, <1>1 DEF InSession, Created
<1>4. QED
  BY <1>0, <1>2, <1>3

LEMMA OtherMain ==
  ASSUME IInv, Main, ~StartSwitch, ~StopSwitch, NEW u \in Switches
  PROVE  (InSession(u)' <=> InSession(u)) /\ UNCHANGED <<gateVars, late>>
<1>0. u \in Nat /\ j \in Nat /\ intCountSwitches \in Nat
  BY SessionAssumption DEF SessionAssumption, IInv, TypeOK
<1>1. CASE CreateMinSwitch \/ MinSwitchesCreated \/ CreateSwitch \/ EndDelay
  BY <1>0, <1>1 DEF CreateMinSwitch, MinSwitchesCreated, CreateSwitch, EndDelay, InSession
<1>2. CASE ResetSwitch
  BY <1>2 DEF ResetSwitch, InSession
<1>3. CASE ReadStatistics
  BY <1>0, <1>3 DEF ReadStatistics, InSession, Created, IInv, Cursor
<1>4. CASE EndSleep \/ CheckSwitch
  BY <1>4 DEF EndSleep, CheckSwitch, NextSwitch, InSession
<1>5. QED
  BY <1>1, <1>2, <1>3, <1>4 DEF Main

LEMMA SessionBool ==
  ASSUME NEW u
  PROVE  InSession(u) \in BOOLEAN /\ InSession(u)' \in BOOLEAN
  BY DEF InSession

(* A step that changes no switch's session, no packet owed and no count of    *)
(* late packets is a stuttering step of TrafficGate.                         *)
LEMMA GateStutter ==
  ASSUME \A u \in Switches : InSession(u)' <=> InSession(u),
         \A u \in Switches : Owed(u)' = Owed(u),
         late' = late
  PROVE  UNCHANGED Gate!vars
<1>1. [u \in Switches |-> InSession(u)]' = [u \in Switches |-> InSession(u)]
  <2>1. \A u \in Switches : InSession(u)' = InSession(u)
    BY SessionBool
  <2>2. QED
    BY <2>1
<1>2. [u \in Switches |-> Owed(u)]' = [u \in Switches |-> Owed(u)]
  OBVIOUS
<1>3. QED
  BY <1>1, <1>2 DEF Gate!vars

LEMMA RefInit == Init => Gate!Init
<1> SUFFICES ASSUME Init PROVE Gate!Init
  OBVIOUS
<1>1. \A u \in Switches : InSession(u) = FALSE
  BY DEF Init, InSession
<1>2. \A u \in Switches : Owed(u) = 0
  BY DEF Init, Owed
<1>3. QED
  BY <1>1, <1>2 DEF Gate!Init, Init

LEMMA RefMain ==
  ASSUME IInv, Main
  PROVE  [Gate!Next]_Gate!vars
<1>1. CASE StartSwitch
  <2>1. PICK s \in Switches : s = j
    BY <1>1, StartSession DEF IInv, TypeOK
  <2>2. ~InSession(s) /\ \A u \in Switches : InSession(u)' <=> InSession(u) \/ u = s
    BY <1>1, <2>1, StartSession
  <2>3. [u \in Switches |-> InSession(u)]' = [[u \in Switches |-> InSession(u)] EXCEPT ![s] = TRUE]
    <3>1. \A u \in Switches : InSession(u)' = IF u = s THEN TRUE ELSE InSession(u)
      BY <2>1, <2>2, SessionBool
    <3>2. QED
      BY <3>1
  <2>4. [u \in Switches |-> Owed(u)]' = [u \in Switches |-> Owed(u)]
    BY <1>1 DEF StartSwitch, Owed
  <2>5. late' = [late EXCEPT ![s] = 0]
    BY <1>1, <2>1 DEF StartSwitch
  <2>6. Gate!Start(s)
    BY <2>2, <2>3, <2>4, <2>5 DEF Gate!Start
  <2>7. QED
    BY <2>6 DEF Gate!Next
<1>2. CASE StopSwitch
  <2>1. PICK s \in Switches : s = j
    BY <1>2, StopSession DEF IInv, TypeOK
  <2>2. InSession(s) /\ \A u \in Switches : InSession(u)' <=> InSession(u) /\ u # s
    BY <1>2, <2>1, StopSession
  <2>3. [u \in Switches |-> InSession(u)]' = [[u \in Switches |-> InSession(u)] EXCEPT ![s] = FALSE]
    <3>1. \A u \in Switches : InSession(u)' = IF u = s THEN FALSE ELSE InSession(u)
      BY <2>1, <2>2, SessionBool
    <3>2. QED
      BY <3>1
  <2>4. [u \in Switches |-> Owed(u)]' = [u \in Switches |-> Owed(u)]
    BY <1>2 DEF StopSwitch, Owed
  <2>5. late' = late
    BY <1>2 DEF StopSwitch
  <2>6. Gate!Stop(s)
    BY <2>2, <2>3, <2>4, <2>5 DEF Gate!Stop
  <2>7. QED
    BY <2>6 DEF Gate!Next
<1>3. CASE ~StartSwitch /\ ~StopSwitch
  <2>1. \A u \in Switches : (InSession(u)' <=> InSession(u)) /\ UNCHANGED <<gateVars, late>>
    BY <1>3, OtherMain
  <2>2. 1 \in Switches
    BY SessionAssumption DEF SessionAssumption
  <2>3. QED
    BY <2>1, <2>2, GateStutter DEF gateVars, Owed
<1>4. QED
  BY <1>1, <1>2, <1>3

LEMMA RefBatch ==
  ASSUME IInv, GateInv, NEW s \in Switches, StartBatchThread(s) \/ BatchThread(s)
  PROVE  [Gate!Next]_Gate!vars
<1>0. /\ UNCHANGED mainVars /\ GateOK(s)
      /\ batchPc \in [Switches -> BatchPcs]
  BY DEF IInv, TypeOK, GateInv, StartBatchThread, BatchThread, BatchReset, BatchPark, PassGate,
         LeaveGate, NoPacket, CreatePacket, SendPacket
<1>1. \A u \in Switches : InSession(u)' <=> InSession(u)
  BY <1>0, SameMain
<1>2. [u \in Switches |-> InSession(u)]' = [u \in Switches |-> InSession(u)]
  <2>1. \A u \in Switches : InSession(u)' = InSession(u)
    BY <1>1, SessionBool
  <2>2. QED
    BY <2>1
<1>3. \A u \in Switches : u # s => Owed(u)' = Owed(u)
  BY <1>0 DEF StartBatchThread, BatchThread, BatchReset, BatchPark, PassGate, LeaveGate,
         NoPacket, CreatePacket, SendPacket, BatchStep, Owed
<1>4. CASE StartBatchThread(s) \/ BatchReset(s) \/ BatchPark(s) \/ LeaveGate(s) \/ SendPacket(s)
  <2>1. Owed(s)' = Owed(s)
    BY <1>0, <1>4 DEF StartBatchThread, BatchReset, BatchPark, LeaveGate, SendPacket, BatchStep,
           Owed, IInv, ThreadOrder
  <2>2. late' = late
    BY <1>4 DEF StartBatchThread, BatchReset, BatchPark, LeaveGate, SendPacket
  <2>3. QED
    BY <1>1, <1>3, <2>1, <2>2, GateStutter
<1>5. CASE PassGate(s)
  <2>1. Owed(s) = 0 /\ Owed(s)' = 1 /\ late' = late
    BY <1>0, <1>5 DEF PassGate, BatchStep, Owed
  <2>2. InSession(s)
    BY <1>0, <1>5 DEF PassGate, BatchStep, Lock, GateOK, Parked
  <2>3. [u \in Switches |-> Owed(u)]' = [[u \in Switches |-> Owed(u)] EXCEPT ![s] = 1]
    BY <1>3, <2>1
  <2>4. Gate!Admit(s)
    BY <1>2, <2>1, <2>2, <2>3 DEF Gate!Admit
  <2>5. QED
    BY <2>4 DEF Gate!Next
<1>6. CASE NoPacket(s)
  <2>1. Owed(s) = 1 /\ Owed(s)' = 0 /\ late' = late
    BY <1>0, <1>6 DEF NoPacket, BatchStep, Owed
  <2>2. [u \in Switches |-> Owed(u)]' = [[u \in Switches |-> Owed(u)] EXCEPT ![s] = 0]
    BY <1>3, <2>1
  <2>3. Gate!GiveUp(s)
    BY <1>2, <2>1, <2>2 DEF Gate!GiveUp
  <2>4. QED
    BY <2>3 DEF Gate!Next
<1>7. CASE CreatePacket(s)
  <2>1. Owed(s) = 1 /\ Owed(s)' = 0
    BY <1>0, <1>7 DEF CreatePacket, BatchStep, Owed
  <2>2. [u \in Switches |-> Owed(u)]' = [[u \in Switches |-> Owed(u)] EXCEPT ![s] = 0]
    BY <1>3, <2>1
  <2>3. late' = [late EXCEPT ![s] = IF InSession(s) THEN @ ELSE @ + 1]
    BY <1>7 DEF CreatePacket
  <2>4. Gate!Create(s)
    BY <1>2, <2>1, <2>2, <2>3 DEF Gate!Create
  <2>5. QED
    BY <2>4 DEF Gate!Next
<1>8. QED
  BY <1>4, <1>5, <1>6, <1>7 DEF BatchThread

LEMMA RefStep == IInv /\ GateInv /\ [Next]_vars => [Gate!Next]_Gate!vars
<1> SUFFICES ASSUME IInv, GateInv, [Next]_vars PROVE [Gate!Next]_Gate!vars
  OBVIOUS
<1>1. CASE Main
  BY <1>1, RefMain
<1>2. ASSUME NEW s \in Switches, StartBatchThread(s) \/ BatchThread(s) PROVE [Gate!Next]_Gate!vars
  BY <1>2, RefBatch
<1>3. CASE UNCHANGED <<mainVars, gateVars, late>>
  BY <1>3, SameMain, GateStutter DEF gateVars, Owed
<1>4. ASSUME NEW s \in Switches,
             \/ StartInit(s) \/ Connect(s) \/ StartComThread(s)
             \/ Network(s) \/ Elapse(s)
      PROVE  UNCHANGED <<mainVars, gateVars, late>>
  BY <1>4 DEF StartInit, Connect, StartComThread, Network, ReceiveAnswer, NoAnswer, TakePacket, Elapse
<1>5. UNCHANGED vars => UNCHANGED <<mainVars, gateVars, late>>
  BY DEF vars
<1>6. QED
  BY <1>1, <1>2, <1>3, <1>4, <1>5 DEF Next, StartThread, Terminating

(* start_(), stop_() and the lock/unlock pair of controller_batch implement  *)
(* the gate main relies on, whatever the number of switches and the speed of *)
(* sockets and controller, provided every batch thread has parked in time.   *)
THEOREM GateImplemented == ASSUME TimelyBatch PROVE Spec => ImplementsGate
<1>1. Init => Gate!Init
  BY RefInit
<1>2. IInv /\ GateInv /\ [Next]_vars => [Gate!Next]_Gate!vars
  BY RefStep
<1>3. QED
  BY <1>1, <1>2, GateAlways, PTL DEF Spec, ImplementsGate, Gate!Spec
-----------------------------------------------------------------------------
(* Sessions do not run into each other.  The inductive invariant, for one     *)
(* switch: nothing stale is on its way at any time; whatever is on its way   *)
(* was noticed less than SESSION_END_TIMEOUT ago; and a switch that main has  *)
(* found silent, or has not started yet, stays silent, since its batch thread *)
(* waits at a locked gate.                                                   *)

\* main has found s silent, or never started it.
FoundSilent(s) ==
    \/ mainPc \in {"init", "new", "delay"}
    \/ mainPc = "check" /\ s < j
    \/ mainPc \in {"reset", "start"} /\ s >= j

CarryOK(s) ==
    /\ stale[s] = 0 /\ ~heldStale[s]
    /\ fresh[s] > 0 \/ batchPc[s] = "send" => recent[s]
    /\ Unparked(s) => fresh[s] = 0 /\ ~recent[s]
    /\ mainPc = "check" => Owed(s) = 0
    /\ FoundSilent(s) => ~recent[s] /\ Owed(s) = 0

CarryInv == \A s \in Switches : CarryOK(s)

LEMMA CarryInit == Init => CarryInv
  BY DEF Init, CarryInv, CarryOK, FoundSilent, Unparked, Owed

\* A reset of a silent switch changes nothing.
LEMMA SilentReset ==
  ASSUME IInv, NEW s \in Switches, NEW u \in Switches, CarryOK(s), CarryOK(u),
         ~recent[s], ResetStatistic(s)
  PROVE  stale'[u] = stale[u] /\ fresh'[u] = fresh[u] /\ (recent'[u] <=> recent[u])
         /\ (heldStale'[u] <=> heldStale[u])
<1>1. /\ fresh \in [Switches -> Nat] /\ stale \in [Switches -> Nat]
      /\ recent \in [Switches -> BOOLEAN] /\ heldStale \in [Switches -> BOOLEAN]
  BY DEF IInv, TypeOK
<1>2. fresh[s] = 0 /\ stale[s] = 0 /\ batchPc[s] # "send" /\ heldStale[s] = FALSE /\ recent[s] = FALSE
  BY <1>1 DEF CarryOK
<1>3. CASE u = s
  <2>1. recent'[s] = FALSE /\ fresh'[s] = 0
    BY <1>1 DEF ResetStatistic
  <2>2. stale'[s] = stale[s] + fresh[s]
    BY <1>1 DEF ResetStatistic
  <2>3. heldStale' = [heldStale EXCEPT ![s] = FALSE]
    BY <1>2 DEF ResetStatistic
  <2>4. heldStale'[s] = FALSE
    BY <1>1, <2>3
  <2> QED
    BY <1>2, <1>3, <2>1, <2>2, <2>4
<1>4. CASE u # s
  BY <1>1, <1>4 DEF ResetStatistic
<1> QED
  BY <1>3, <1>4

LEMMA CarryMain ==
  ASSUME IInv, GateInv, CarryInv, Prompt, Main
  PROVE  CarryInv'
<1> SUFFICES ASSUME NEW u \in Switches PROVE CarryOK(u)'
  BY DEF CarryInv
<1>0. /\ CarryOK(u) /\ u \in Nat /\ j \in Nat /\ intCountSwitches \in Nat
      /\ batchPc' = batchPc
  BY SessionAssumption DEF SessionAssumption, CarryInv, IInv, TypeOK, Main, CreateMinSwitch,
     MinSwitchesCreated, CreateSwitch, EndDelay, ResetSwitch, StartSwitch, ReadStatistics,
     StopSwitch, EndSleep, CheckSwitch, gateVars
<1>1. u \notin Created => Unparked(u)
  BY DEF IInv, ThreadOrder, Unparked
<1>2. CASE CreateMinSwitch \/ MinSwitchesCreated \/ CreateSwitch
  BY <1>0, <1>2 DEF CreateMinSwitch, MinSwitchesCreated, CreateSwitch, CarryOK, FoundSilent,
     Unparked, Owed, netVars
<1>3. CASE EndDelay
  BY <1>0, <1>3 DEF EndDelay, CarryOK, FoundSilent, Unparked, Owed, netVars
<1>4. CASE ResetSwitch
  <2>1. j \in Switches /\ CarryOK(j) /\ ~recent[j]
    BY <1>0, <1>4 DEF ResetSwitch, CarryInv, CarryOK, FoundSilent, IInv, TypeOK
  <2>2. stale'[u] = stale[u] /\ fresh'[u] = fresh[u] /\ (recent'[u] <=> recent[u])
        /\ (heldStale'[u] <=> heldStale[u])
    BY <1>0, <1>4, <2>1, SilentReset DEF ResetSwitch
  <2> QED
    BY <1>0, <1>4, <2>2 DEF ResetSwitch, CarryOK, FoundSilent, Unparked, Owed
<1>5. CASE StartSwitch
  BY <1>0, <1>5 DEF StartSwitch, NextSwitch, CarryOK, FoundSilent, Unparked, Owed, netVars
<1>6. CASE ReadStatistics \/ StopSwitch
  BY <1>0, <1>6 DEF ReadStatistics, StopSwitch, NextSwitch, CarryOK, FoundSilent, Unparked,
     Owed, netVars
<1>7. CASE EndSleep
  <2>1. Owed(u) = 0
    BY <1>1, <1>7 DEF EndSleep, Unparked, Owed
  <2>2. j = 1
    BY <1>7 DEF EndSleep, IInv, Cursor
  <2> QED
    BY <1>0, <1>7, <2>1, <2>2 DEF EndSleep, CarryOK, FoundSilent, Unparked, Owed, netVars
<1>8. CASE CheckSwitch
  <2>1. CASE recent[j]
    BY <1>0, <1>8, <2>1 DEF CheckSwitch, CarryOK, FoundSilent, Unparked, Owed, netVars
  <2>2. CASE ~recent[j]
    <3>1. UNCHANGED <<fresh, stale, heldStale, recent, batchPc>> /\ mainPc = "check"
      BY <1>0, <1>8 DEF CheckSwitch, netVars
    <3>2. \/ mainPc' = "check" /\ j' = j + 1
          \/ mainPc' \in {"new", "join"} /\ j >= intCountSwitches
      BY <1>0, <1>8, <2>2 DEF CheckSwitch, NextSwitch
    <3>3. Owed(u) = 0 /\ (u <= j => ~recent[u])
      BY <1>0, <2>2, <3>1 DEF CarryOK, FoundSilent
    <3>4. u > intCountSwitches => ~recent[u]
      BY <1>0, <1>1 DEF CarryOK, Created
    <3> QED
      BY <1>0, <3>1, <3>2, <3>3, <3>4 DEF CarryOK, FoundSilent, Unparked, Owed
  <2> QED
    BY <2>1, <2>2
<1> QED
  BY <1>2, <1>3, <1>4, <1>5, <1>6, <1>7, <1>8 DEF Main

\* Before its session the batch thread of a switch does not get through.
LEMMA SilentGate ==
  ASSUME IInv, GateInv, NEW s \in Switches, FoundSilent(s) \/ mainPc = "check"
  PROVE  ~PassGate(s)
<1> SUFFICES ASSUME PassGate(s) PROVE FALSE
  OBVIOUS
<1>1. s \in Nat /\ j \in Nat
  BY SessionAssumption DEF SessionAssumption, IInv, TypeOK
<1>2. ~InSession(s)
  BY <1>1 DEF FoundSilent, InSession
<1>3. Parked(s) /\ ~mutxBatchRun[s]
  BY DEF PassGate, BatchStep, Lock, Parked
<1> QED
  BY <1>2, <1>3 DEF GateInv, GateOK

LEMMA CarryThreads ==
  ASSUME IInv, GateInv, CarryInv, Prompt, NEW s \in Switches,
         StartThread(s) \/ BatchThread(s) \/ Network(s) \/ Elapse(s)
  PROVE  CarryInv'
<1> SUFFICES ASSUME NEW u \in Switches PROVE CarryOK(u)'
  BY DEF CarryInv
<1>0. /\ CarryOK(u) /\ CarryOK(s)
      /\ batchPc \in [Switches -> BatchPcs] /\ fresh \in [Switches -> Nat]
      /\ stale \in [Switches -> Nat]
      /\ recent \in [Switches -> BOOLEAN] /\ heldStale \in [Switches -> BOOLEAN]
  BY DEF CarryInv, IInv, TypeOK
<1>1. /\ mainPc' = mainPc /\ j' = j
      /\ FoundSilent(u)' <=> FoundSilent(u)
  BY DEF StartThread, StartInit, Connect, StartComThread, StartBatchThread, BatchThread,
     BatchReset, BatchPark, PassGate, LeaveGate, NoPacket, CreatePacket, SendPacket, Network,
     ReceiveAnswer, NoAnswer, TakePacket, Elapse, mainVars, FoundSilent
<1>2. CASE StartInit(s) \/ BatchReset(s)
  <2>1. ~recent[s] /\ Unparked(s) /\ ResetStatistic(s)
    BY <1>0, <1>2 DEF StartInit, BatchReset, BatchStep, IInv, ThreadOrder, Unparked, CarryOK
  <2>2. stale'[u] = stale[u] /\ fresh'[u] = fresh[u] /\ (recent'[u] <=> recent[u])
        /\ (heldStale'[u] <=> heldStale[u])
    BY <1>0, <2>1, SilentReset
  <2>3. batchPc'[u] = batchPc[u] \/ (u = s /\ batchPc'[u] = "park" /\ batchPc[u] = "reset")
    BY <1>0, <1>2 DEF StartInit, BatchReset, BatchStep, gateVars
  <2> QED
    BY <1>0, <1>1, <2>2, <2>3 DEF CarryOK, Unparked, Owed
<1>3. CASE Connect(s) \/ StartComThread(s)
  BY <1>0, <1>1, <1>3 DEF Connect, StartComThread, gateVars, netVars, CarryOK, Unparked, Owed
<1>4. CASE StartBatchThread(s) \/ BatchPark(s)
  <2>1. /\ Unparked(s)
        /\ batchPc' = [batchPc EXCEPT ![s] = batchPc'[s]] /\ batchPc'[s] \in {"reset", "gate"}
        /\ UNCHANGED <<recent, fresh, stale, heldStale>>
    BY <1>0, <1>4 DEF StartBatchThread, BatchPark, BatchStep, netVars, IInv, ThreadOrder, Unparked
  <2> QED
    BY <1>0, <1>1, <2>1 DEF CarryOK, Unparked, Owed
<1>5. CASE PassGate(s)
  <2>1. ~FoundSilent(s) /\ mainPc # "check"
    BY <1>5, SilentGate
  <2> QED
    BY <1>0, <1>1, <1>5, <2>1 DEF PassGate, BatchStep, netVars, CarryOK, Unparked, Owed
<1>6. CASE LeaveGate(s) \/ NoPacket(s)
  BY <1>0, <1>1, <1>6 DEF LeaveGate, NoPacket, BatchStep, netVars, CarryOK, Unparked, Owed
<1>7. CASE CreatePacket(s)
  <2>1. ~FoundSilent(s) /\ mainPc # "check"
    BY <1>0, <1>7 DEF CreatePacket, BatchStep, CarryOK, Owed
  <2> QED
    BY <1>0, <1>1, <1>7, <2>1 DEF CreatePacket, BatchStep, CarryOK, Unparked, Owed
<1>8. CASE SendPacket(s)
  <2>1. /\ heldStale[s] = FALSE /\ batchPc[s] = "send" /\ recent[s]
        /\ batchPc' = [batchPc EXCEPT ![s] = "gate"]
    BY <1>0, <1>8 DEF SendPacket, BatchStep, CarryOK
  <2>2. /\ fresh' = [fresh EXCEPT ![s] = @ + 1] /\ stale' = stale /\ recent' = recent
        /\ heldStale' = [heldStale EXCEPT ![s] = FALSE]
    BY <1>8, <2>1 DEF SendPacket
  <2> QED
    BY <1>0, <1>1, <2>1, <2>2 DEF CarryOK, Unparked, Owed
<1>9. CASE Network(s)
  <2>1. /\ stale[s] = 0 /\ fresh[s] > 0 /\ recent[s]
        /\ fresh' = [fresh EXCEPT ![s] = @ - 1] /\ stale' = stale
        /\ UNCHANGED <<batchPc, heldStale>>
    BY <1>0, <1>9 DEF Network, ReceiveAnswer, NoAnswer, TakePacket, CarryOK, gateVars
  <2>2. recent'[u] = recent[u]
    BY <1>0, <1>9, <2>1 DEF Network, ReceiveAnswer, NoAnswer
  <2>3. fresh'[u] > 0 => fresh[u] > 0
    BY <1>0, <2>1
  <2>4. ~Unparked(s) /\ ~FoundSilent(s)
    BY <1>0, <2>1 DEF CarryOK
  <2> QED
    BY <1>0, <1>1, <2>1, <2>2, <2>3, <2>4 DEF CarryOK, Unparked, Owed
<1>10. CASE Elapse(s)
  <2>1. fresh[s] = 0 /\ batchPc[s] # "send"
    BY <1>0, <1>10 DEF Elapse
  <2> QED
    BY <1>0, <1>1, <1>10, <2>1 DEF Elapse, gateVars, netVars, CarryOK, Unparked, Owed
<1> QED
  BY <1>2, <1>3, <1>4, <1>5, <1>6, <1>7, <1>8, <1>9, <1>10 DEF StartThread, BatchThread

LEMMA CarryStep == Prompt /\ IInv /\ GateInv /\ CarryInv /\ [Next]_vars => CarryInv'
<1> SUFFICES ASSUME Prompt, IInv, GateInv, CarryInv, [Next]_vars PROVE CarryInv'
  OBVIOUS
<1>1. CASE Main
  BY <1>1, CarryMain
<1>2. ASSUME NEW s \in Switches, StartThread(s) \/ BatchThread(s) \/ Network(s) \/ Elapse(s)
      PROVE  CarryInv'
  BY <1>2, CarryThreads
<1>3. CASE UNCHANGED vars
  BY <1>3 DEF vars, mainVars, gateVars, netVars, CarryInv, CarryOK, FoundSilent, Unparked, Owed
<1> QED
  BY <1>1, <1>2, <1>3 DEF Next, Terminating

(* If delay_create is long enough and threads and controller are prompt, the  *)
(* silence main waits for at the end of a session (SessionTimeouted) is real: *)
(* nothing of it is on its way in the next one, however many switches there   *)
(* are and whatever the sockets hold.                                        *)
THEOREM NoCarry == ASSUME TimelyBatch, Prompt PROVE Spec => []NoCarryOver
<1>1. CarryInv => NoCarryOver
  BY DEF CarryInv, CarryOK, NoCarryOver
<1>2. QED
  BY <1>1, CarryInit, CarryStep, GateAlways, PTL DEF Spec
=============================================================================
