------------------------------ MODULE Session ------------------------------
(***************************************************************************)
(* The session loop of main() (ofcbenchmark.cpp) and the threads it drives. *)
(* Every switch has a start thread, which connects to the controller and    *)
(* launches the other two; a communication thread, which handles what the   *)
(* controller sends; and a batch thread, which generates packet-ins.  main  *)
(* opens and closes the batch thread's gate, the mutex mutxBatchRun: the    *)
(* batch thread takes it once for good when it starts (it "parks"), start_() *)
(* unlocks it from main's thread, stop_() locks it again, and the batch     *)
(* thread locks and unlocks it once before every packet.                    *)
(*                                                                          *)
(* The mutex is what pthread_mutex_lock/unlock do to a normal mutex: lock   *)
(* waits until it is free, unlock frees it whoever holds it, and unlocking  *)
(* a free mutex changes nothing.                                            *)
(***************************************************************************)
EXTENDS Integers, FiniteSets

CONSTANTS
    MinSwitches,       \* min_switches of the config file
    MaxSwitches,       \* max_switches of the config file
    N_TRY_TO_CONNECT,  \* connection attempts before the last one
    MaxInFlight,       \* packets of a switch the sockets and the controller hold;
                       \* send() blocks beyond it
    TimelyBatch,       \* environment: delay_create outlasts every switch's set-up
    Prompt             \* environment: threads run within a second, the controller
                       \* answers within SESSION_END_TIMEOUT or not at all

ASSUME SessionAssumption ==
    /\ MinSwitches \in Nat \ {0}
    /\ MaxSwitches \in Nat
    /\ MinSwitches <= MaxSwitches
    /\ N_TRY_TO_CONNECT \in Nat
    /\ MaxInFlight \in Nat \ {0}
    /\ TimelyBatch \in BOOLEAN
    /\ Prompt \in BOOLEAN

Switches == 1..MaxSwitches

VARIABLES
    mainPc,            \* where main() is
    j,                 \* main's loop variable over the switches
    intCountSwitches,  \* switches created so far; also the session's number
    exited,            \* a start thread gave up: exit(EXIT_FAILURE)
    startPc, intTry,   \* start thread of each switch, its attempts to connect
    batchPc,           \* batch thread of each switch
    mutxBatchRun,      \* is the gate's mutex locked?
    recent,            \* traffic within SESSION_END_TIMEOUT: ~SessionTimeouted()
    fresh, stale,      \* packets in flight, created since / before the last reset
    heldStale,         \* the packet the batch thread is sending is a stale one
    late               \* history: packets created since stop_() returned

mainVars  == <<mainPc, j, intCountSwitches>>
startVars == <<startPc, intTry, exited>>
gateVars  == <<batchPc, mutxBatchRun>>
netVars   == <<fresh, stale, heldStale>>
vars == <<mainVars, startVars, gateVars, recent, netVars, late>>

MainPcs  == {"init", "new", "delay", "reset", "start", "read", "stop",
             "sleep", "check", "join"}
StartPcs == {"none", "init", "connect", "com", "batch", "join"}
BatchPcs == {"none", "reset", "park", "gate", "pass", "create", "send"}

Created   == 1..intCountSwitches
Parked(s) == batchPc[s] \in {"gate", "pass", "create", "send"}

\* main has called start_() on s and not yet stop_().
InSession(s) ==
    \/ mainPc \in {"reset", "start"} /\ s < j
    \/ mainPc = "read" /\ s \in Created
    \/ mainPc = "stop" /\ s \in j..intCountSwitches

\* A packet whose gate was passed and that SendPacketID has not numbered yet.
Owed(s) == IF batchPc[s] \in {"pass", "create"} THEN 1 ELSE 0

Init ==
    /\ mainPc = "init" /\ j = 1 /\ intCountSwitches = 0
    /\ exited = FALSE
    /\ startPc = [s \in Switches |-> "none"]
    /\ intTry  = [s \in Switches |-> 0]
    /\ batchPc = [s \in Switches |-> "none"]
    /\ mutxBatchRun = [s \in Switches |-> FALSE]
    /\ recent = [s \in Switches |-> FALSE]
    /\ fresh = [s \in Switches |-> 0]
    /\ stale = [s \in Switches |-> 0]
    /\ heldStale = [s \in Switches |-> FALSE]
    /\ late = [s \in Switches |-> 0]

-----------------------------------------------------------------------------
(* reset_statistic(): no packet sent or received yet; whatever is in flight  *)
(* was created before.                                                       *)
ResetStatistic(s) ==
    /\ recent' = [recent EXCEPT ![s] = FALSE]
    /\ stale' = [stale EXCEPT ![s] = @ + fresh[s]]
    /\ fresh' = [fresh EXCEPT ![s] = 0]
    /\ heldStale' = [heldStale EXCEPT ![s] = @ \/ batchPc[s] = "send"]

(* main: the constructor starts the switch's start thread. *)
NewSwitch ==
    /\ intCountSwitches' = intCountSwitches + 1
    /\ startPc' = [startPc EXCEPT ![intCountSwitches + 1] = "init"]

CreateMinSwitch ==
    /\ mainPc = "init" /\ intCountSwitches < MinSwitches - 1
    /\ NewSwitch
    /\ UNCHANGED <<mainPc, j, exited, intTry, gateVars, recent, netVars, late>>

MinSwitchesCreated ==
    /\ mainPc = "init" /\ intCountSwitches >= MinSwitches - 1
    /\ mainPc' = "new"
    /\ UNCHANGED <<j, intCountSwitches, startVars, gateVars, recent, netVars, late>>

CreateSwitch ==
    /\ mainPc = "new"
    /\ NewSwitch
    /\ mainPc' = "delay"
    /\ UNCHANGED <<j, exited, intTry, gateVars, recent, netVars, late>>

(* sleep(DELAY_CREATE): nothing in the code waits for the batch threads.     *)
EndDelay ==
    /\ mainPc = "delay"
    /\ TimelyBatch => \A s \in Created : Parked(s)
    /\ mainPc' = "reset" /\ j' = 1
    /\ UNCHANGED <<intCountSwitches, startVars, gateVars, recent, netVars, late>>

ResetSwitch ==
    /\ mainPc = "reset"
    /\ ResetStatistic(j)
    /\ mainPc' = "start"
    /\ UNCHANGED <<j, intCountSwitches, startVars, gateVars, late>>

\* The loop over the switches goes on, or main goes to pc.
NextSwitch(here, pc) ==
    /\ mainPc' = IF j < intCountSwitches THEN here ELSE pc
    /\ j' = IF j < intCountSwitches THEN j + 1 ELSE 1
    /\ UNCHANGED intCountSwitches

StartSwitch ==
    /\ mainPc = "start"
    /\ mutxBatchRun' = [mutxBatchRun EXCEPT ![j] = FALSE]
    /\ late' = [late EXCEPT ![j] = 0]
    /\ NextSwitch("reset", "read")
    /\ UNCHANGED <<startVars, batchPc, recent, netVars>>

(* sleep(RUN_TIME), then the statistics are read and written out. *)
ReadStatistics ==
    /\ mainPc = "read"
    /\ mainPc' = "stop"
    /\ UNCHANGED <<j, intCountSwitches, startVars, gateVars, recent, netVars, late>>

\* Mutant: stop_() clears the RunBatch flag, which nobody reads, and locks nothing.
StopSwitchNoLock ==
    /\ mainPc = "stop"
    /\ NextSwitch("stop", "sleep")
    /\ UNCHANGED <<startVars, gateVars, recent, netVars, late>>

StopSwitch ==
    /\ mainPc = "stop"
    /\ ~mutxBatchRun[j]
    /\ mutxBatchRun' = [mutxBatchRun EXCEPT ![j] = TRUE]
    /\ NextSwitch("stop", "sleep")
    /\ UNCHANGED <<startVars, batchPc, recent, netVars, late>>

(* sleep(1) of the wait loop. *)
EndSleep ==
    /\ mainPc = "sleep"
    /\ Prompt => \A s \in Created : Owed(s) = 0
    /\ mainPc' = "check"
    /\ UNCHANGED <<j, intCountSwitches, startVars, gateVars, recent, netVars, late>>

\* Mutant: wait = !SessionTimeouted(), so the last switch alone decides.
CheckLastSwitch ==
    /\ mainPc = "check"
    /\ IF j = intCountSwitches /\ recent[j]
         THEN mainPc' = "sleep" /\ j' = 1 /\ UNCHANGED intCountSwitches
         ELSE NextSwitch("check", IF intCountSwitches < MaxSwitches THEN "new" ELSE "join")
    /\ UNCHANGED <<startVars, gateVars, recent, netVars, late>>

(* wait = wait || !SessionTimeouted(): the first switch with traffic decides. *)
CheckSwitch ==
    /\ mainPc = "check"
    /\ IF recent[j]
         THEN mainPc' = "sleep" /\ j' = 1 /\ UNCHANGED intCountSwitches
         ELSE NextSwitch("check", IF intCountSwitches < MaxSwitches THEN "new" ELSE "join")
    /\ UNCHANGED <<startVars, gateVars, recent, netVars, late>>

Main == \/ CreateMinSwitch \/ MinSwitchesCreated \/ CreateSwitch \/ EndDelay
        \/ ResetSwitch \/ StartSwitch \/ ReadStatistics \/ StopSwitch
        \/ EndSleep \/ CheckSwitch

-----------------------------------------------------------------------------
(* The start thread of switch s. *)
StartInit(s) ==
    /\ startPc[s] = "init"
    /\ ResetStatistic(s)
    /\ startPc' = [startPc EXCEPT ![s] = "connect"]
    /\ UNCHANGED <<mainVars, intTry, exited, gateVars, late>>

\* Mutant: boTriesOut = (intTry++ > N_TRY_TO_CONNECT).
ConnectOnceMore(s) ==
    /\ startPc[s] = "connect"
    /\ intTry' = [intTry EXCEPT ![s] = @ + 1]
    /\ \/ startPc' = [startPc EXCEPT ![s] = "com"] /\ UNCHANGED exited
       \/ intTry[s] <= N_TRY_TO_CONNECT /\ UNCHANGED <<startPc, exited>>
       \/ intTry[s] > N_TRY_TO_CONNECT /\ exited' = TRUE /\ UNCHANGED startPc
    /\ UNCHANGED <<mainVars, gateVars, recent, netVars, late>>

Connect(s) ==
    /\ startPc[s] = "connect"
    /\ intTry' = [intTry EXCEPT ![s] = @ + 1]
    /\ \/ startPc' = [startPc EXCEPT ![s] = "com"] /\ UNCHANGED exited
       \/ intTry[s] < N_TRY_TO_CONNECT /\ UNCHANGED <<startPc, exited>>
       \/ intTry[s] >= N_TRY_TO_CONNECT /\ exited' = TRUE /\ UNCHANGED startPc
    /\ UNCHANGED <<mainVars, gateVars, recent, netVars, late>>

StartComThread(s) ==
    /\ startPc[s] = "com"
    /\ startPc' = [startPc EXCEPT ![s] = "batch"]
    /\ UNCHANGED <<mainVars, intTry, exited, gateVars, recent, netVars, late>>

StartBatchThread(s) ==
    /\ startPc[s] = "batch"
    /\ startPc' = [startPc EXCEPT ![s] = "join"]
    /\ batchPc' = [batchPc EXCEPT ![s] = "reset"]
    /\ UNCHANGED <<mainVars, intTry, exited, mutxBatchRun, recent, netVars, late>>

StartThread(s) == StartInit(s) \/ Connect(s) \/ StartComThread(s) \/ StartBatchThread(s)

-----------------------------------------------------------------------------
(* The batch thread of switch s. *)
BatchStep(s, from, to) ==
    /\ batchPc[s] = from
    /\ batchPc' = [batchPc EXCEPT ![s] = to]

BatchReset(s) ==
    /\ BatchStep(s, "reset", "park")
    /\ ResetStatistic(s)
    /\ UNCHANGED <<mainVars, startVars, mutxBatchRun, late>>

Lock(s)   == ~mutxBatchRun[s] /\ mutxBatchRun' = [mutxBatchRun EXCEPT ![s] = TRUE]
Unlock(s) == mutxBatchRun' = [mutxBatchRun EXCEPT ![s] = FALSE]

\* Mutant: the batch thread does not take the mutex when it starts.
BatchParkNoLock(s) ==
    /\ BatchStep(s, "park", "gate")
    /\ UNCHANGED <<mainVars, startVars, mutxBatchRun, recent, netVars, late>>

BatchPark(s) ==
    /\ BatchStep(s, "park", "gate")
    /\ Lock(s)
    /\ UNCHANGED <<mainVars, startVars, recent, netVars, late>>

\* Mutant: try_lock() with its result ignored.
PassGateNoWait(s) ==
    /\ BatchStep(s, "gate", "pass")
    /\ mutxBatchRun' = [mutxBatchRun EXCEPT ![s] = TRUE]
    /\ UNCHANGED <<mainVars, startVars, recent, netVars, late>>

PassGate(s) ==
    /\ BatchStep(s, "gate", "pass")
    /\ Lock(s)
    /\ UNCHANGED <<mainVars, startVars, recent, netVars, late>>

\* Mutant: the unlock() after the lock() is missing.
LeaveGateLocked(s) ==
    /\ BatchStep(s, "pass", "create")
    /\ UNCHANGED <<mainVars, startVars, mutxBatchRun, recent, netVars, late>>

LeaveGate(s) ==
    /\ BatchStep(s, "pass", "create")
    /\ Unlock(s)
    /\ UNCHANGED <<mainVars, startVars, recent, netVars, late>>

(* The pcap file is exhausted: no packet this time round. *)
NoPacket(s) ==
    /\ BatchStep(s, "create", "gate")
    /\ UNCHANGED <<mainVars, startVars, mutxBatchRun, recent, netVars, late>>

(* SendPacketID() stamps and counts the packet. *)
CreatePacket(s) ==
    /\ BatchStep(s, "create", "send")
    /\ recent' = [recent EXCEPT ![s] = TRUE]
    /\ heldStale' = [heldStale EXCEPT ![s] = FALSE]
    /\ late' = [late EXCEPT ![s] = IF InSession(s) THEN @ ELSE @ + 1]
    /\ UNCHANGED <<mainVars, startVars, mutxBatchRun, fresh, stale>>

(* send() on the controller's socket, blocking when there is no room. *)
SendPacket(s) ==
    /\ BatchStep(s, "send", "gate")
    /\ fresh[s] + stale[s] < MaxInFlight
    /\ \/ ~heldStale[s] /\ fresh' = [fresh EXCEPT ![s] = @ + 1] /\ UNCHANGED stale
       \/ heldStale[s] /\ stale' = [stale EXCEPT ![s] = @ + 1] /\ UNCHANGED fresh
    /\ heldStale' = [heldStale EXCEPT ![s] = FALSE]
    /\ UNCHANGED <<mainVars, startVars, mutxBatchRun, recent, late>>

BatchThread(s) == \/ BatchReset(s) \/ BatchPark(s) \/ PassGate(s) \/ LeaveGate(s)
                  \/ NoPacket(s) \/ CreatePacket(s) \/ SendPacket(s)

-----------------------------------------------------------------------------
(* The controller disposes of one packet of s. *)
TakePacket(s) ==
    /\ \/ /\ fresh[s] > 0
          /\ fresh' = [fresh EXCEPT ![s] = @ - 1]
          /\ UNCHANGED stale
       \/ /\ stale[s] > 0
          /\ stale' = [stale EXCEPT ![s] = @ - 1]
          /\ UNCHANGED fresh
    /\ UNCHANGED <<mainVars, startVars, gateVars, heldStale, late>>

(* The communication thread receives its answer: ReceivePacketID(). *)
ReceiveAnswer(s) ==
    /\ TakePacket(s)
    /\ recent' = [recent EXCEPT ![s] = TRUE]

(* The controller drops it without an answer. *)
NoAnswer(s) == TakePacket(s) /\ UNCHANGED recent

(* SESSION_END_TIMEOUT passes without a packet sent or received by s. *)
Elapse(s) ==
    /\ recent[s]
    /\ Prompt => fresh[s] + stale[s] = 0 /\ batchPc[s] # "send"
    /\ recent' = [recent EXCEPT ![s] = FALSE]
    /\ UNCHANGED <<mainVars, startVars, gateVars, netVars, late>>

Network(s) == ReceiveAnswer(s) \/ NoAnswer(s)

(* main waits for the start threads for ever: they wait for communication    *)
(* threads, whose loops nothing ends (quit_() has no caller: the mission     *)
(* control thread is never started).                                         *)
Terminating == (mainPc = "join" \/ exited) /\ UNCHANGED vars

Next == \/ /\ ~exited
           /\ \/ Main
              \/ \E s \in Switches : StartThread(s) \/ BatchThread(s) \/ Network(s) \/ Elapse(s)
        \/ Terminating

Spec == Init /\ [][Next]_vars

Fairness ==
    /\ WF_vars(~exited /\ Main)
    /\ SF_vars(~exited /\ StopSwitch)
    /\ \A s \in Switches :
         /\ WF_vars(~exited /\ StartThread(s))
         /\ WF_vars(~exited /\ BatchThread(s))
         /\ WF_vars(~exited /\ Network(s))
         /\ WF_vars(~exited /\ Elapse(s))

FairSpec == Spec /\ Fairness

-----------------------------------------------------------------------------
(* Types of all variables; main's cursor stays within the switches, and no    *)
(* switch tries to connect more than N_TRY_TO_CONNECT + 1 times.             *)
TypeOK ==
    /\ mainPc \in MainPcs /\ j \in Switches /\ intCountSwitches \in 0..MaxSwitches
    /\ exited \in BOOLEAN
    /\ startPc \in [Switches -> StartPcs]
    /\ intTry \in [Switches -> 0..(N_TRY_TO_CONNECT + 1)]
    /\ batchPc \in [Switches -> BatchPcs]
    /\ mutxBatchRun \in [Switches -> BOOLEAN]
    /\ recent \in [Switches -> BOOLEAN]
    /\ fresh \in [Switches -> Nat] /\ stale \in [Switches -> Nat]
    /\ heldStale \in [Switches -> BOOLEAN]
    /\ late \in [Switches -> Nat]

(* The gate of a parked batch thread follows main's start_() and stop_(): in  *)
(* a session only the batch thread itself ever holds the mutex, so stop_()    *)
(* waits for one packet at most; outside, the mutex is locked and the thread  *)
(* is not inside the gate.  Holds when delay_create is long enough.           *)
GateFollowsMain ==
    \A s \in Switches : Parked(s) =>
        IF InSession(s) THEN mutxBatchRun[s] <=> batchPc[s] = "pass"
                        ELSE mutxBatchRun[s] /\ batchPc[s] # "pass"

(* After stop_() has returned, a switch creates at most one more packet,     *)
(* the one whose gate was passed before (controller_batch locks and unlocks  *)
(* mutxBatchRun before it builds the packet, not around it).                 *)
StragglerBound ==
    \A s \in Switches : ~InSession(s) => late[s] + Owed(s) <= 1

(* start_() lets the batch thread of the switch go: while a switch is in a   *)
(* session its gate is never left locked with nobody inside to unlock it     *)
(* ("Start all switches").                                                   *)
StartedNotLockedOut ==
    \A s \in Switches : InSession(s) /\ mutxBatchRun[s] => batchPc[s] = "pass"

(* While main measures a session, nothing of an earlier one is on its way:   *)
(* SessionTimeouted() of all switches means that the next session starts     *)
(* clean.  Needs a prompt controller: main only watches for silence.         *)
NoCarryOver ==
    \A s \in Switches :
        mainPc \in {"reset", "start", "read", "stop"} => stale[s] = 0 /\ ~heldStale[s]

(* start_(), stop_() and the gate keep the promise of TrafficGate. *)
Gate == INSTANCE TrafficGate
          WITH on   <- [s \in Switches |-> InSession(s)],
               owed <- [s \in Switches |-> Owed(s)]
ImplementsGate == Gate!Spec

(* Every session ends and main reaches the join of the start threads, unless *)
(* a switch could not connect: neither stop_() nor the wait for the end of   *)
(* the session is stuck.                                                     *)
SessionsEnd == <>(mainPc = "join" \/ exited)
=============================================================================
