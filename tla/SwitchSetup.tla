---------------------------- MODULE SwitchSetup ----------------------------
(***************************************************************************)
(* How one switch gets its settings and its source of packets before its   *)
(* first session, and what its batch thread sends then.                    *)
(*                                                                         *)
(* main reads config.ini, creates the switch, whose constructor launches   *)
(* the start thread, and goes on to set what the thread and its successors *)
(* use: the callback (in the constructor, behind the launch) and Delta_t.  *)
(* The start thread reads config.ini itself, sleeps, connects and launches *)
(* the communication and the batch thread, which opens the pcap file if    *)
(* there was one.  The gate of the session is in Session; here it is       *)
(* mainPc.                                                                 *)
(***************************************************************************)
EXTENDS IniFile, PcapReader

CONSTANTS
    Timely          \* sleep(2) outlasts what main does in between

ASSUME SetupAssumption == Timely \in BOOLEAN

VARIABLES
    inifile,            \* config.ini
    mainPc,             \* "configure", "launch", "callback", "delta", "delay", "session"
    DELTA_T,            \* main's setting
    startPc,            \* "none", "init", "sleep", "launched"
    PCAP_ROUND_ROBIN,   \* the settings of the switch (class config)
    BATCH_FROM_FILE, Delta_t,
    deltaLength,        \* tsCur_delta_STOP - tsCur_delta_START
    send_to_switch,     \* the callback is set
    batchPc,            \* "none", "reset", "open", "round"
    sent                \* what the last round sent: "nothing", "fake", "file"

settings == <<DELTA_T, PCAP_ROUND_ROBIN, BATCH_FROM_FILE, Delta_t, deltaLength, send_to_switch>>
setupVars == <<inifile, mainPc, startPc, batchPc, settings, sent, content, reader>>

Unset == -3     \* memory that nothing has been written to

InitSetup ==
    /\ InitReader
    /\ mainPc = "configure" /\ startPc = "none" /\ batchPc = "none"
    /\ DELTA_T = Unset /\ PCAP_ROUND_ROBIN = Unset /\ Delta_t = Unset
    /\ BATCH_FROM_FILE = FALSE
    /\ deltaLength = Unset
    /\ send_to_switch = FALSE
    /\ sent = "nothing"

\* The default of delta_t, of which only its difference to other values matters.
DefaultDelta == 1000000

Configure ==
    /\ mainPc = "configure" /\ mainPc' = "launch"
    /\ DELTA_T' = ini_getl(inifile, "Simulation", "delta_t", DefaultDelta)
    /\ UNCHANGED <<inifile, startPc, batchPc, PCAP_ROUND_ROBIN, BATCH_FROM_FILE, Delta_t,
                   deltaLength, send_to_switch, sent, content, reader>>

(* The constructor.                                                          *)
Launch ==
    /\ mainPc = "launch" /\ mainPc' = "callback"
    /\ startPc' = "init"
    /\ UNCHANGED <<inifile, batchPc, settings, sent, content, reader>>

SetCallback ==
    /\ mainPc = "callback" /\ mainPc' = "delta"
    /\ send_to_switch' = TRUE
    /\ UNCHANGED <<inifile, startPc, batchPc, DELTA_T, PCAP_ROUND_ROBIN, BATCH_FROM_FILE,
                   Delta_t, deltaLength, sent, content, reader>>

SetDelta ==
    /\ mainPc = "delta" /\ mainPc' = "delay"
    /\ Delta_t' = DELTA_T
    /\ UNCHANGED <<inifile, startPc, batchPc, DELTA_T, PCAP_ROUND_ROBIN, BATCH_FROM_FILE,
                   deltaLength, send_to_switch, sent, content, reader>>

(* After delay_create: reset_statistic() and start_().                       *)
BeginSession ==
    /\ mainPc = "delay" /\ mainPc' = "session"
    /\ deltaLength' = Delta_t
    /\ UNCHANGED <<inifile, startPc, batchPc, DELTA_T, PCAP_ROUND_ROBIN, BATCH_FROM_FILE,
                   Delta_t, send_to_switch, sent, content, reader>>

(* config::init() in the start thread.                                       *)
InitConfig ==
    /\ startPc = "init" /\ startPc' = "sleep"
    /\ PCAP_ROUND_ROBIN' = ini_getl(inifile, "Switch", "pcap_round_robin", 0)
    /\ BATCH_FROM_FILE' = (onDisk # "missing")
    /\ deltaLength' = Delta_t
    /\ UNCHANGED <<inifile, mainPc, batchPc, DELTA_T, Delta_t, send_to_switch, sent, content, reader>>

\* Mutant: the threads are launched at once.
NoSleep == startPc = "sleep"

Slept == startPc = "sleep" /\ (Timely => mainPc \in {"delay", "session"})

(* The connection is there: the communication thread and the batch thread.   *)
LaunchThreads ==
    /\ Slept
    /\ startPc' = "launched" /\ batchPc' = "reset"
    /\ UNCHANGED <<inifile, mainPc, settings, sent, content, reader>>

BatchReset ==
    /\ batchPc = "reset" /\ batchPc' = "open"
    /\ deltaLength' = Delta_t
    /\ UNCHANGED <<inifile, mainPc, startPc, DELTA_T, PCAP_ROUND_ROBIN, BATCH_FROM_FILE,
                   Delta_t, send_to_switch, sent, content, reader>>

\* Mutant: the file is opened whether there is one or not.
BatchOpenAlways ==
    /\ batchPc = "open" /\ batchPc' = "round"
    /\ Open(PCAP_ROUND_ROBIN # 0)
    /\ UNCHANGED <<inifile, mainPc, startPc, settings, sent>>

BatchOpen ==
    /\ batchPc = "open" /\ batchPc' = "round"
    /\ IF BATCH_FROM_FILE
         THEN Open(PCAP_ROUND_ROBIN # 0)
         ELSE UNCHANGED <<content, reader>>
    /\ UNCHANGED <<inifile, mainPc, startPc, settings, sent>>

Round ==
    /\ batchPc = "round" /\ mainPc = "session"
    /\ IF BATCH_FROM_FILE
         THEN /\ NextPacket
              /\ sent' = IF last' = 0 THEN "nothing" ELSE "file"
         ELSE /\ sent' = "fake"
              /\ UNCHANGED <<content, reader>>
    /\ UNCHANGED <<inifile, mainPc, startPc, batchPc, settings>>

ReplaceFile ==
    /\ Replace
    /\ UNCHANGED <<inifile, mainPc, startPc, batchPc, settings, sent>>

Running ==
    \/ Configure \/ Launch \/ SetCallback \/ SetDelta \/ BeginSession
    \/ InitConfig \/ LaunchThreads
    \/ BatchReset \/ BatchOpen \/ Round
    \/ ReplaceFile

\* fread() got a NULL file: there is no process any more.
Dead == crashed /\ UNCHANGED setupVars

NextSetup == (~crashed /\ Running) \/ Dead

\* Whatever files there are.
InitAny ==
    /\ InitSetup
    /\ inifile \in Seq(IniLine)
    /\ records \in Seq(Record) /\ swapped \in BOOLEAN
    /\ onDisk \in {"good", "notPcap", "missing"}

SetupSpec == InitAny /\ [][NextSetup]_setupVars

Fairness ==
    /\ WF_setupVars(~crashed /\ (Configure \/ Launch \/ SetCallback \/ SetDelta \/ BeginSession))
    /\ WF_setupVars(~crashed /\ (InitConfig \/ LaunchThreads))
    /\ WF_setupVars(~crashed /\ (BatchReset \/ BatchOpen \/ Round))

-----------------------------------------------------------------------------
(* Types of all variables.                                                   *)
TypeOK ==
    /\ ReaderTypeOK
    /\ mainPc \in {"configure", "launch", "callback", "delta", "delay", "session"}
    /\ startPc \in {"none", "init", "sleep", "launched"}
    /\ batchPc \in {"none", "reset", "open", "round"}
    /\ DELTA_T \in Int /\ PCAP_ROUND_ROBIN \in Int /\ Delta_t \in Int /\ deltaLength \in Int
    /\ BATCH_FROM_FILE \in BOOLEAN /\ send_to_switch \in BOOLEAN
    /\ sent \in {"nothing", "fake", "file"}
    /\ batchPc = "round" => (BATCH_FROM_FILE <=> file # "none")

(* What a thread uses is set by then, although another thread sets it       *)
(* without telling: the communication thread has a callback for relayed      *)
(* packet-ins, and the deltas of a session have the length main was told,    *)
(* also when the start thread and the batch thread reset the statistics      *)
(* before main has set it or after main's own reset.                         *)
SetBeforeUse ==
    /\ startPc = "launched" => send_to_switch
    /\ mainPc = "session" => deltaLength = DELTA_T

(* A setting is what config.ini says of its key, or its default.             *)
AsWritten ==
    /\ mainPc # "configure" => DELTA_T = Written(inifile, "Simulation", "delta_t", DefaultDelta)
    /\ file # "none" => (loop_file <=> Written(inifile, "Switch", "pcap_round_robin", 0) # 0)
=============================================================================
