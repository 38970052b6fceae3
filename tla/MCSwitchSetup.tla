--------------------------- MODULE MCSwitchSetup ---------------------------
(* SwitchSetup with the files to check.                                      *)
EXTENDS SwitchSetup

CONSTANTS MaxLines, MaxRecords

\* An ini file of interest to the switch, and the lines of all files.
IniLines == {Section("Switch"), Section("Simulation"), OpenBracket, Other,
             Key("pcap_round_robin", 1), Key("pcap_round_robin", Text),
             Key("delta_t", 7), Key("delta_t", Empty)}
IniFiles == UNION {[1..n -> IniLines] : n \in 0..MaxLines}
RoundRobin(n) == <<Section("Switch"), Key("pcap_round_robin", n)>>

\* 256 has its length in the second byte; 65536 looks like 256 written in the
\* other order; of 65537 no order makes two bytes.
PcapFiles == UNION {[1..n -> {[len |-> l, complete |-> TRUE] : l \in {0, 1, 256, 65536, 65537}}
                            \cup {[len |-> l, complete |-> FALSE] : l \in {256, 65537}}] : n \in 0..MaxRecords}
OnePacket == <<[len |-> 1, complete |-> TRUE]>>

MCInit ==
    /\ InitSetup
    /\ \/ /\ inifile \in IniFiles
          /\ records = OnePacket /\ swapped = FALSE /\ onDisk = "good"
       \/ /\ inifile \in {RoundRobin(0), RoundRobin(1)}
          /\ records \in PcapFiles /\ swapped \in BOOLEAN
          /\ onDisk \in {"good", "notPcap", "missing"}

MCSpec == MCInit /\ [][NextSetup]_setupVars /\ Fairness

-----------------------------------------------------------------------------
(* In a session every packet of a looped file comes again and again, as long *)
(* as the file stays there and its lengths are sound.                        *)
PacketsRecur ==
    \A i \in 1..MaxRecords :
        (/\ mainPc = "session" /\ file = "open" /\ loop_file
         /\ i \in DOMAIN records /\ Source!WellFormed /\ Source!Usable(i))
        ~> (last = i \/ onDisk # "good")
=============================================================================
