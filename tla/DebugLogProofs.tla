--------------------------- MODULE DebugLogProofs ---------------------------
(***************************************************************************)
(* Theorems about DebugLog for every value of its constants: types, that a *)
(* file is only missed by a caller who came too early, that a time stamp   *)
(* is wrong only if it was disturbed, and that no line is lost or doubled. *)
(***************************************************************************)
EXTENDS DebugLog, TLAPS

(* Whether the log has a file.  The owner speaks behind its own set-up, so   *)
(* that the switch and the file agree when it looks at them; in an early     *)
(* call another writer may have looked at the switch while they did not.     *)
FileInv ==
    /\ setup \in {"level", "flag"} => ~DEBUG_TO_LOGFILE
    /\ setup # "done" => filLog = "NULL" /\ pc["owner"] = "idle"
    /\ setup = "done" => (DEBUG_TO_LOGFILE <=> filLog = "open")
    /\ pc["owner"] \in {"print", "flush"} => filLog = "open"
    /\ \A w \in Writers :
         /\ pc[w] # "idle" /\ setup # "done" => call[w].early
         /\ pc[w] \in {"print", "flush"} /\ filLog = "NULL" => call[w].early
    /\ CrashOnlyIfEarly

(* How far the stamp of an undisturbed call has come.                        *)
StampOK(w) ==
    /\ pc[w] \in {"localtime", "strftime", "usec"} => tvTimestamp = call[w].began
    /\ pc[w] = "strftime" => tmTime = call[w].began \div Parts
    /\ pc[w] \in {"usec", "check", "print", "flush"} => call[w].sec = call[w].began \div Parts
    /\ pc[w] \in {"check", "print", "flush"} => call[w].part = call[w].began % Parts

StampInv == \A w \in Writers : ~call[w].disturbed => StampOK(w)

-----------------------------------------------------------------------------
LEMMA Times ==
    ASSUME NEW t \in 0..MaxTime
    PROVE  t \div Parts \in Nat /\ t % Parts \in 0..(Parts - 1)
BY LogAssumption DEF LogAssumption

LEMMA LevelValues == Levels = 0..6 /\ MESSAGE = 3
BY DEF Levels, CRYTICAL_ERROOR_MESSAGE, ALL, MESSAGE

Call == [no : 0..MaxLines, early : BOOLEAN, due : BOOLEAN, began : 0..MaxTime, disturbed : BOOLEAN,
         sec : Nat, part : 0..(Parts - 1)]

\* What another thread does to a call leaves it one.
LEMMA DisturbedCalls ==
    ASSUME TypeOK, NEW w
    PROVE  /\ DisturbedBut(w) \in [Writers -> Call]
           /\ \A v \in Writers :
                /\ DisturbedBut(w)[v].no = call[v].no
                /\ DisturbedBut(w)[v].began = call[v].began
                /\ DisturbedBut(w)[v].sec = call[v].sec
                /\ DisturbedBut(w)[v].part = call[v].part
                /\ DisturbedBut(w)[v].early <=> call[v].early
                /\ DisturbedBut(w)[v].due <=> call[v].due
                /\ DisturbedBut(w)[v].disturbed <=>
                     (call[v].disturbed \/ (v # w /\ pc[v] \in Stamping))
<1> DEFINE D(v) == IF v # w /\ pc[v] \in Stamping
                     THEN [call[v] EXCEPT !.disturbed = TRUE] ELSE call[v]
<1>1. ASSUME NEW v \in Writers
      PROVE  /\ D(v) \in Call
             /\ D(v).no = call[v].no
             /\ D(v).began = call[v].began
             /\ D(v).sec = call[v].sec
             /\ D(v).part = call[v].part
             /\ D(v).early <=> call[v].early
             /\ D(v).due <=> call[v].due
             /\ D(v).disturbed <=> (call[v].disturbed \/ (v # w /\ pc[v] \in Stamping))
  <2>1. call[v] \in Call
    BY DEF TypeOK, Call
  <2> QED
    BY <2>1 DEF Call
<1>2. DisturbedBut(w) = [v \in Writers |-> D(v)]
  BY DEF DisturbedBut
<1> HIDE DEF D
<1> QED
  BY <1>1, <1>2

LEMMA Append1 ==
    ASSUME NEW s \in Seq(Line), NEW w \in Writers, NEW n \in 1..MaxLines
    PROVE  Append(s, <<w, n>>) \in Seq(Line)
BY DEF Line

-----------------------------------------------------------------------------
(* Types.  A call that is under way has a number, so its line is one.        *)
Numbered == \A w \in Writers : pc[w] # "idle" => call[w].no \in 1..MaxLines

LEMMA TypeInit == Init => TypeOK /\ Numbered
<1> SUFFICES ASSUME Init PROVE TypeOK /\ Numbered
  OBVIOUS
<1>1. NoCall \in Call
  BY LogAssumption DEF LogAssumption, NoCall, Call
<1>2. call \in [Writers -> Call]
  BY <1>1 DEF Init
<1>3. pc \in [Writers -> Stamping \cup {"idle", "check", "print", "flush"}]
  BY DEF Init
<1>4. buffer \in Seq(Line) /\ disk \in Seq(Line) /\ said \in Seq(Line)
  BY DEF Init
<1>5. Numbered
  BY DEF Init, Numbered
<1>6. /\ debuglevel \in Levels
      /\ DEBUG_TO_LOGFILE \in BOOLEAN /\ filLog \in {"NULL", "open"}
      /\ setup \in {"level", "flag", "fopen", "done"}
      /\ crashed \in BOOLEAN
  BY DEF Init
<1>7. tvTimestamp \in 0..MaxTime /\ now \in 0..MaxTime /\ tmTime \in Nat
  BY LogAssumption DEF LogAssumption, Init
<1> QED
  BY <1>2, <1>3, <1>4, <1>5, <1>6, <1>7 DEF TypeOK, Call

LEMMA TypeStep == TypeOK /\ Numbered /\ [Next]_vars => TypeOK' /\ Numbered'
<1> SUFFICES ASSUME TypeOK, Numbered, [Next]_vars PROVE TypeOK' /\ Numbered'
  OBVIOUS
<1> USE LogAssumption, LevelValues DEF LogAssumption
<1>1. CASE UNCHANGED vars
  BY <1>1 DEF TypeOK, Numbered, vars, setting, clocks, file
<1>2. CASE Tick
  BY <1>2 DEF Tick, TypeOK, Numbered, setting, file
<1>3. CASE LocalTimeElsewhere
  <2>1. /\ call' \in [Writers -> Call]
        /\ \A v \in Writers : call'[v].no = call[v].no
    BY <1>3, DisturbedCalls DEF LocalTimeElsewhere
  <2>2. tmTime' \in Nat
    BY <1>3, Times DEF LocalTimeElsewhere, TypeOK
  <2> QED
    BY <1>3, <2>1, <2>2 DEF LocalTimeElsewhere, TypeOK, Numbered, setting, file, Call
<1>4. CASE SetLevel \/ SetFlag \/ OpenLog
  <2>1. /\ debuglevel' \in Levels /\ DEBUG_TO_LOGFILE' \in BOOLEAN
        /\ filLog' \in {"NULL", "open"}
        /\ setup' \in {"level", "flag", "fopen", "done"}
    <3>1. CASE SetLevel
      BY <3>1 DEF SetLevel, TypeOK
    <3>2. CASE SetFlag
      BY <3>2 DEF SetFlag, TypeOK
    <3>3. CASE OpenLog
      BY <3>3 DEF OpenLog, TypeOK
    <3> QED
      BY <1>4, <3>1, <3>2, <3>3
  <2>2. UNCHANGED <<clocks, pc, call, file, crashed, said>>
    BY <1>4 DEF SetLevel, SetFlag, OpenLog
  <2> QED
    BY <2>1, <2>2 DEF TypeOK, Numbered, clocks, file
<1>5. ASSUME NEW w \in Writers, NEW l \in Levels, Say(w, l)
      PROVE  TypeOK' /\ Numbered'
  <2> DEFINE begun == [no |-> call[w].no + 1, early |-> setup # "done",
                    due |-> setup = "done" /\ filLog = "open" /\ l <= MESSAGE,
                    began |-> now, disturbed |-> FALSE, sec |-> 0, part |-> 0]
  <2>1. begun \in Call /\ begun.no \in 1..MaxLines
    <3>1. call[w].no \in 0..MaxLines /\ call[w].no < MaxLines /\ now \in 0..MaxTime
      BY <1>5 DEF Say, TypeOK
    <3> QED
      BY <3>1 DEF Call
  <2>2. CASE Printed(l)
    <3>1. /\ call' = [DisturbedBut(w) EXCEPT ![w] = begun]
          /\ tvTimestamp' = now /\ said' = said
          /\ pc' = [pc EXCEPT ![w] = "localtime"]
      BY <1>5, <2>2 DEF Say
    <3> HIDE DEF begun
    <3>2. call' \in [Writers -> Call]
      BY <2>1, <3>1, DisturbedCalls
    <3>3. \A v \in Writers : v # w => call'[v].no = call[v].no
      BY <3>1, DisturbedCalls
    <3>4. call'[w].no \in 1..MaxLines
      BY <2>1, <3>1, DisturbedCalls
    <3> QED
      BY <1>5, <3>1, <3>2, <3>3, <3>4 DEF Say, TypeOK, Numbered, setting, file, Call, Stamping
  <2>3. CASE ~Printed(l)
    <3>1. /\ call' = [call EXCEPT ![w] = begun]
          /\ said' = IF begun.due THEN Append(said, <<w, begun.no>>) ELSE said
          /\ UNCHANGED <<tvTimestamp, pc>>
      BY <1>5, <2>3 DEF Say
    <3> HIDE DEF begun
    <3>2. said' \in Seq(Line)
      BY <2>1, <3>1, Append1 DEF TypeOK
    <3>3. call' \in [Writers -> Call]
      BY <2>1, <3>1 DEF TypeOK, Call
    <3>4. \A v \in Writers : v # w => call'[v] = call[v]
      BY <3>1 DEF TypeOK
    <3>5. pc'[w] = "idle"
      BY <1>5, <3>1 DEF Say
    <3> QED
      BY <1>5, <3>1, <3>2, <3>3, <3>4, <3>5 DEF Say, TypeOK, Numbered, setting, file, Call
  <2> QED
    BY <2>2, <2>3
<1>6. ASSUME NEW w \in Writers, LocalTime(w)
      PROVE  TypeOK' /\ Numbered'
  <2>1. /\ call' \in [Writers -> Call]
        /\ \A v \in Writers : call'[v].no = call[v].no
    BY <1>6, DisturbedCalls DEF LocalTime
  <2>2. tmTime' \in Nat
    BY <1>6, Times DEF LocalTime, TypeOK
  <2>3. /\ pc' \in [Writers -> Stamping \cup {"idle", "check", "print", "flush"}]
        /\ \A v \in Writers : pc'[v] # "idle" => pc[v] # "idle"
    BY <1>6 DEF LocalTime, TypeOK, Stamping
  <2>4. UNCHANGED <<setting, tvTimestamp, now, file, crashed, said>>
    BY <1>6 DEF LocalTime
  <2> QED
    BY <2>1, <2>2, <2>3, <2>4 DEF TypeOK, Numbered, setting, file, Call
<1>7. ASSUME NEW w \in Writers, StrfTime(w)
      PROVE  TypeOK' /\ Numbered'
  <2>1. tmTime \in Nat
    BY DEF TypeOK
  <2>2. /\ call' \in [Writers -> Call]
        /\ \A v \in Writers : call'[v].no = call[v].no
    BY <1>7, <2>1 DEF StrfTime, TypeOK, Call
  <2>3. /\ pc' \in [Writers -> Stamping \cup {"idle", "check", "print", "flush"}]
        /\ \A v \in Writers : pc'[v] # "idle" => pc[v] # "idle"
    BY <1>7 DEF StrfTime, TypeOK, Stamping
  <2>4. UNCHANGED <<setting, clocks, file, crashed, said>>
    BY <1>7 DEF StrfTime
  <2> QED
    BY <2>2, <2>3, <2>4 DEF TypeOK, Numbered, setting, clocks, file, Call
<1>8. ASSUME NEW w \in Writers, USec(w)
      PROVE  TypeOK' /\ Numbered'
  <2>1. Part \in 0..(Parts - 1)
    BY Times DEF Part, TypeOK
  <2>2. /\ call' \in [Writers -> Call]
        /\ \A v \in Writers : call'[v].no = call[v].no
    BY <1>8, <2>1 DEF USec, TypeOK, Call
  <2>3. /\ pc' \in [Writers -> Stamping \cup {"idle", "check", "print", "flush"}]
        /\ \A v \in Writers : pc'[v] # "idle" => pc[v] # "idle"
    BY <1>8 DEF USec, TypeOK
  <2> QED
    BY <1>8, <2>2, <2>3 DEF USec, TypeOK, Numbered, setting, clocks, file, Call
<1>9. ASSUME NEW w \in Writers, CheckLog(w) \/ Flush(w)
      PROVE  TypeOK' /\ Numbered'
  <2>1. call[w].no \in 1..MaxLines
    BY <1>9 DEF Numbered, CheckLog, Flush
  <2>2. said' \in Seq(Line)
    <3>1. said' = said \/ said' = Append(said, <<w, call[w].no>>)
      BY <1>9 DEF CheckLog, Flush, Return
    <3>2. said \in Seq(Line)
      BY DEF TypeOK
    <3>3. Append(said, <<w, call[w].no>>) \in Seq(Line)
      BY <2>1, <3>2, Append1
    <3> QED
      BY <3>1, <3>2, <3>3
  <2>3. disk' \in Seq(Line) /\ buffer' \in Seq(Line)
    <3>1. \/ disk' = disk /\ buffer' = buffer
          \/ disk' = disk \o buffer /\ buffer' = << >>
      BY <1>9 DEF CheckLog, Flush, file
    <3>2. disk \in Seq(Line) /\ buffer \in Seq(Line)
      BY DEF TypeOK
    <3>3. disk \o buffer \in Seq(Line) /\ << >> \in Seq(Line)
      BY <3>2
    <3> QED
      BY <3>1, <3>2, <3>3
  <2>4. /\ pc' \in [Writers -> Stamping \cup {"idle", "check", "print", "flush"}]
        /\ \A v \in Writers : pc'[v] # "idle" => pc[v] # "idle"
    BY <1>9 DEF CheckLog, Flush, TypeOK
  <2>5. UNCHANGED <<setting, clocks, call, crashed>>
    BY <1>9 DEF CheckLog, Flush
  <2> QED
    BY <2>2, <2>3, <2>4, <2>5 DEF TypeOK, Numbered, setting, clocks
<1>10. ASSUME NEW w \in Writers, PrintLine(w)
       PROVE  TypeOK' /\ Numbered'
  <2>1. call[w].no \in 1..MaxLines
    BY <1>10 DEF Numbered, PrintLine
  <2>2. buffer' \in Seq(Line) /\ crashed' \in BOOLEAN
    <3>1. CASE filLog = "NULL"
      BY <1>10, <3>1 DEF PrintLine, TypeOK
    <3>2. CASE filLog # "NULL"
      <4>1. buffer' = Append(buffer, <<w, call[w].no>>) /\ crashed' = crashed
        BY <1>10, <3>2 DEF PrintLine
      <4> QED
        BY <2>1, <4>1, Append1 DEF TypeOK
    <3> QED
      BY <3>1, <3>2
  <2> QED
    BY <1>10, <2>2 DEF PrintLine, TypeOK, Numbered, setting, clocks, Stamping
<1> QED
  BY <1>1, <1>2, <1>3, <1>4, <1>5, <1>6, <1>7, <1>8, <1>9, <1>10 DEF Next, Running

(* Types of all variables of DebugLog, in every reachable state.             *)
THEOREM TypeCorrect == Spec => []TypeOK
<1>1. Spec => [](TypeOK /\ Numbered)
  BY TypeInit, TypeStep, PTL DEF Spec
<1> QED
  BY <1>1, PTL

-----------------------------------------------------------------------------
(* The log file.                                                             *)
LEMMA FileInit == Init => FileInv
BY DEF Init, FileInv, CrashOnlyIfEarly, Writers

LEMMA FileStep == TypeOK /\ FileInv /\ [Next]_vars => FileInv'
<1> SUFFICES ASSUME TypeOK, FileInv, [Next]_vars PROVE FileInv'
  OBVIOUS
<1> USE DEF FileInv, CrashOnlyIfEarly
<1>1. CASE UNCHANGED vars
  BY <1>1 DEF vars, setting
<1>2. CASE ~crashed /\ (Tick \/ LocalTimeElsewhere)
  <2>1. /\ UNCHANGED <<setting, pc, crashed>>
        /\ \A v \in Writers : call'[v].early <=> call[v].early
    BY <1>2, DisturbedCalls DEF Tick, LocalTimeElsewhere
  <2> QED
    BY <1>2, <2>1 DEF setting
<1>3. CASE ~crashed /\ SetLevel
  BY <1>3 DEF SetLevel
<1>4. CASE ~crashed /\ SetFlag
  BY <1>4 DEF SetFlag
<1>5. CASE ~crashed /\ OpenLog
  BY <1>5 DEF OpenLog
<1>6. ASSUME NEW w \in Writers, ~crashed,
             \/ \E l \in Levels : Say(w, l)
             \/ LocalTime(w) \/ StrfTime(w) \/ USec(w)
             \/ CheckLog(w) \/ PrintLine(w) \/ Flush(w)
      PROVE  FileInv'
  <2>1. "owner" \in Writers /\ DOMAIN pc = Writers
    BY DEF TypeOK, Writers
  <2>2. ASSUME NEW l \in Levels, Say(w, l)
        PROVE  FileInv'
    <3>1. /\ UNCHANGED <<DEBUG_TO_LOGFILE, filLog, setup, crashed>>
          /\ pc[w] = "idle"
          /\ pc' = [pc EXCEPT ![w] = "localtime"] \/ pc' = pc
          /\ w = "owner" => setup = "done"
      BY <2>2 DEF Say, setting
    <3>2. /\ call'[w].early <=> (setup # "done")
          /\ \A v \in Writers \ {w} : call'[v].early <=> call[v].early
      <4> DEFINE begun == [no |-> call[w].no + 1, early |-> setup # "done",
                           due |-> setup = "done" /\ filLog = "open" /\ l <= MESSAGE,
                           began |-> now, disturbed |-> FALSE, sec |-> 0, part |-> 0]
      <4>1. \/ call' = [DisturbedBut(w) EXCEPT ![w] = begun]
            \/ call' = [call EXCEPT ![w] = begun]
        BY <2>2 DEF Say
      <4>2. begun.early <=> (setup # "done")
        OBVIOUS
      <4> HIDE DEF begun
      <4> QED
        BY <4>1, <4>2, DisturbedCalls DEF TypeOK
    <3> QED
      BY <2>1, <3>1, <3>2, <1>6
  <2>3. CASE LocalTime(w) \/ StrfTime(w) \/ USec(w)
    <3>1. /\ UNCHANGED <<DEBUG_TO_LOGFILE, filLog, setup, crashed>>
          /\ pc[w] # "idle"
          /\ \/ pc' = [pc EXCEPT ![w] = "strftime"]
             \/ pc' = [pc EXCEPT ![w] = "usec"]
             \/ pc' = [pc EXCEPT ![w] = "check"]
      BY <2>3 DEF LocalTime, StrfTime, USec, setting
    <3>2. \A v \in Writers : call'[v].early <=> call[v].early
      <4>1. CASE LocalTime(w)
        BY <4>1, DisturbedCalls DEF LocalTime
      <4>2. CASE StrfTime(w)
        BY <4>2 DEF StrfTime, TypeOK
      <4>3. CASE USec(w)
        BY <4>3 DEF USec, TypeOK
      <4> QED
        BY <2>3, <4>1, <4>2, <4>3
    <3> QED
      BY <2>1, <3>1, <3>2, <1>6
  <2>4. CASE CheckLog(w)
    <3>1. /\ UNCHANGED <<DEBUG_TO_LOGFILE, filLog, setup, crashed, call>>
          /\ pc[w] = "check"
          /\ \/ pc' = [pc EXCEPT ![w] = "print"] /\ DEBUG_TO_LOGFILE
             \/ pc' = [pc EXCEPT ![w] = "idle"]
      BY <2>4 DEF CheckLog, setting
    <3> QED
      BY <2>1, <3>1, <1>6
  <2>5. CASE PrintLine(w)
    <3>1. /\ UNCHANGED <<DEBUG_TO_LOGFILE, filLog, setup, call>>
          /\ pc[w] = "print" /\ pc' = [pc EXCEPT ![w] = "flush"]
          /\ crashed' => filLog = "NULL"
      BY <1>6, <2>5 DEF PrintLine, setting
    <3> QED
      BY <2>1, <3>1
  <2>6. CASE Flush(w)
    <3>1. /\ UNCHANGED <<DEBUG_TO_LOGFILE, filLog, setup, crashed, call>>
          /\ pc' = [pc EXCEPT ![w] = "idle"]
      BY <2>6 DEF Flush, setting
    <3> QED
      BY <2>1, <3>1, <1>6
  <2> QED
    BY <1>6, <2>2, <2>3, <2>4, <2>5, <2>6
<1> QED
  BY <1>1, <1>2, <1>3, <1>4, <1>5, <1>6 DEF Next, Running

(* fprintf() meets a NULL file only in a call that main, or a thread that    *)
(* sends through switch 1, made before the owner had set up the log: the     *)
(* owner's own lines, and those the others write later, never do, whether or *)
(* not the file could be opened, and however many such threads there are.    *)
THEOREM CrashIsEarly == Spec => []CrashOnlyIfEarly
<1>1. FileInv => CrashOnlyIfEarly
  BY DEF FileInv
<1> QED
  BY <1>1, FileInit, FileStep, TypeCorrect, PTL DEF Spec

-----------------------------------------------------------------------------
(* Time stamps.                                                              *)
LEMMA StampInit == Init => StampInv
BY DEF Init, StampInv, StampOK

LEMMA StampStep == TypeOK /\ StampInv /\ [Next]_vars => StampInv'
<1> SUFFICES ASSUME TypeOK, StampInv, [Next]_vars, NEW v \in Writers,
                    ~call'[v].disturbed
             PROVE  StampOK(v)'
  BY DEF StampInv
<1>1. ASSUME UNCHANGED <<pc[v], tvTimestamp, tmTime>>, call'[v] = call[v]
      PROVE  StampOK(v)'
  BY <1>1 DEF StampInv, StampOK
<1>2. CASE UNCHANGED vars
  BY <1>1, <1>2 DEF vars, clocks
<1>3. CASE Tick \/ SetLevel \/ SetFlag \/ OpenLog
  BY <1>1, <1>3 DEF Tick, SetLevel, SetFlag, OpenLog, clocks
<1>4. ASSUME NEW w, call'[v] = DisturbedBut(w)[v], w # v, pc'[v] = pc[v]
      PROVE  StampOK(v)'
  <2>1. ~call[v].disturbed /\ pc[v] \notin Stamping
    BY <1>4, DisturbedCalls
  <2>2. call'[v].began = call[v].began /\ call'[v].sec = call[v].sec /\ call'[v].part = call[v].part
    BY <1>4, DisturbedCalls
  <2> QED
    BY <1>4, <2>1, <2>2 DEF StampInv, StampOK, Stamping
<1>5. CASE LocalTimeElsewhere
  <2>1. "elsewhere" # v
    BY LogAssumption DEF LogAssumption, Writers
  <2> QED
    BY <1>4, <1>5, <2>1 DEF LocalTimeElsewhere
<1>6. ASSUME NEW w \in Writers, NEW l \in Levels, Say(w, l)
      PROVE  StampOK(v)'
  <2> DEFINE begun == [no |-> call[w].no + 1, early |-> setup # "done",
                       due |-> setup = "done" /\ filLog = "open" /\ l <= MESSAGE,
                       began |-> now, disturbed |-> FALSE, sec |-> 0, part |-> 0]
  <2>1. begun.began = now
    OBVIOUS
  <2>2. pc[w] = "idle"
    BY <1>6 DEF Say
  <2>3. CASE Printed(l)
    <3>1. /\ call' = [DisturbedBut(w) EXCEPT ![w] = begun]
          /\ tvTimestamp' = now
          /\ pc' = [pc EXCEPT ![w] = "localtime"]
      BY <1>6, <2>3 DEF Say
    <3> HIDE DEF begun
    <3>2. CASE v = w
      <4>1. call'[v] = begun /\ pc'[v] = "localtime"
        BY <3>1, <3>2, DisturbedCalls DEF TypeOK
      <4> QED
        BY <2>1, <3>1, <4>1 DEF StampOK
    <3>3. CASE v # w
      <4>1. call'[v] = DisturbedBut(w)[v] /\ pc'[v] = pc[v]
        BY <3>1, <3>3, DisturbedCalls DEF TypeOK
      <4> QED
        BY <1>4, <3>3, <4>1
    <3> QED
      BY <3>2, <3>3
  <2>4. CASE ~Printed(l)
    <3>1. /\ call' = [call EXCEPT ![w] = begun]
          /\ UNCHANGED <<tvTimestamp, tmTime, pc>>
      BY <1>6, <2>4 DEF Say
    <3> HIDE DEF begun
    <3>2. CASE v = w
      BY <2>2, <3>1, <3>2 DEF StampOK
    <3>3. CASE v # w
      BY <1>1, <3>1, <3>3 DEF TypeOK
    <3> QED
      BY <3>2, <3>3
  <2> QED
    BY <2>3, <2>4
<1>7. ASSUME NEW w \in Writers, LocalTime(w)
      PROVE  StampOK(v)'
  <2>1. /\ pc[w] = "localtime" /\ pc' = [pc EXCEPT ![w] = "strftime"]
        /\ tmTime' = tvTimestamp \div Parts /\ tvTimestamp' = tvTimestamp
        /\ call' = DisturbedBut(w)
    BY <1>7 DEF LocalTime
  <2>2. CASE v = w
    <3>1. pc'[v] = "strftime"
      BY <2>1, <2>2 DEF TypeOK
    <3>2. call'[v].began = call[v].began /\ ~call[v].disturbed
      BY <2>1, <2>2, DisturbedCalls
    <3>3. tvTimestamp = call[v].began
      BY <2>1, <2>2, <3>2 DEF StampInv, StampOK
    <3> QED
      BY <2>1, <3>1, <3>2, <3>3 DEF StampOK
  <2>3. CASE v # w
    <3>1. pc'[v] = pc[v] /\ call'[v] = DisturbedBut(w)[v]
      BY <2>1, <2>3 DEF TypeOK
    <3> QED
      BY <1>4, <2>3, <3>1
  <2> QED
    BY <2>2, <2>3
<1>8. ASSUME NEW w \in Writers, StrfTime(w)
      PROVE  StampOK(v)'
  <2>1. /\ pc[w] = "strftime" /\ pc' = [pc EXCEPT ![w] = "usec"]
        /\ call' = [call EXCEPT ![w].sec = tmTime]
        /\ UNCHANGED <<tvTimestamp, tmTime>>
    BY <1>8 DEF StrfTime, clocks
  <2>2. CASE v = w
    <3>1. pc'[v] = "usec"
      BY <2>1, <2>2 DEF TypeOK
    <3>2. /\ call'[v].sec = tmTime /\ call'[v].began = call[v].began
          /\ ~call[v].disturbed
      BY <2>1, <2>2 DEF TypeOK
    <3>3. tvTimestamp = call[v].began /\ tmTime = call[v].began \div Parts
      BY <2>1, <2>2, <3>2 DEF StampInv, StampOK
    <3> QED
      BY <2>1, <3>1, <3>2, <3>3 DEF StampOK
  <2>3. CASE v # w
    BY <1>1, <2>1, <2>3 DEF TypeOK
  <2> QED
    BY <2>2, <2>3
<1>9. ASSUME NEW w \in Writers, USec(w)
      PROVE  StampOK(v)'
  <2>1. /\ pc[w] = "usec" /\ pc' = [pc EXCEPT ![w] = "check"]
        /\ call' = [call EXCEPT ![w].part = Part]
        /\ UNCHANGED <<tvTimestamp, tmTime>>
    BY <1>9 DEF USec, clocks
  <2>2. CASE v = w
    <3>1. pc'[v] = "check"
      BY <2>1, <2>2 DEF TypeOK
    <3>2. /\ call'[v].part = Part /\ call'[v].began = call[v].began
          /\ call'[v].sec = call[v].sec /\ ~call[v].disturbed
      BY <2>1, <2>2 DEF TypeOK
    <3>3. tvTimestamp = call[v].began /\ call[v].sec = call[v].began \div Parts
      BY <2>1, <2>2, <3>2 DEF StampInv, StampOK
    <3> QED
      BY <3>1, <3>2, <3>3 DEF StampOK, Part
  <2>3. CASE v # w
    BY <1>1, <2>1, <2>3 DEF TypeOK
  <2> QED
    BY <2>2, <2>3
<1>10. ASSUME NEW w \in Writers, CheckLog(w) \/ PrintLine(w) \/ Flush(w)
       PROVE  StampOK(v)'
  <2>1. /\ pc[w] \in {"check", "print", "flush"}
        /\ \/ pc' = [pc EXCEPT ![w] = "print"]
           \/ pc' = [pc EXCEPT ![w] = "flush"]
           \/ pc' = [pc EXCEPT ![w] = "idle"]
        /\ UNCHANGED <<tvTimestamp, tmTime, call>>
    BY <1>10 DEF CheckLog, PrintLine, Flush, clocks
  <2>2. CASE v = w
    <3>1. pc'[v] \in {"print", "flush", "idle"}
      BY <2>1, <2>2 DEF TypeOK
    <3> QED
      BY <2>1, <2>2, <3>1 DEF StampInv, StampOK
  <2>3. CASE v # w
    BY <1>1, <2>1, <2>3 DEF TypeOK
  <2> QED
    BY <2>2, <2>3
<1> QED
  BY <1>2, <1>3, <1>5, <1>6, <1>7, <1>8, <1>9, <1>10 DEF Next, Running

(* The second and its part in a line are those of the moment its call was    *)
(* made, if no other caller overwrote the shared time meanwhile.             *)
THEOREM StampIsOwn == Spec => []OwnTimeUnlessDisturbed
<1>1. StampInv => OwnTimeUnlessDisturbed
  BY DEF StampInv, StampOK, OwnTimeUnlessDisturbed
<1> QED
  BY <1>1, StampInit, StampStep, TypeCorrect, PTL DEF Spec

-----------------------------------------------------------------------------
(* Lines.  What the file holds, flushed or not; the numbers of a writer's    *)
(* lines grow, and a line is there before its call flushes it.               *)
Written == disk \o buffer

Ordered(s) ==
    \A i, j \in 1..Len(s) : i < j /\ s[i][1] = s[j][1] => s[i][2] < s[j][2]

\* A call that has not yet written its line.
Ahead == Stamping \cup {"check", "print"}

NumberInv ==
    \A j \in 1..Len(Written), w \in Writers :
      Written[j][1] = w => /\ Written[j][2] <= call[w].no
                           /\ pc[w] \in Ahead => Written[j][2] < call[w].no

DueInv == \A w \in Writers : call[w].due => setup = "done" /\ filLog = "open"

FlushInv ==
    \A w \in Writers : pc[w] = "flush" /\ call[w].due =>
      \E j \in 1..Len(Written) : Written[j] = <<w, call[w].no>>

SaidInv == \A i \in 1..Len(said) : \E j \in 1..Len(disk) : disk[j] = said[i]

LevelInv == setup # "level" => debuglevel = MESSAGE

LineInv ==
    /\ Ordered(Written) /\ NumberInv
    /\ DueInv /\ FlushInv /\ SaidInv /\ LevelInv

LEMMA LineInit == Init => LineInv
<1> SUFFICES ASSUME Init PROVE LineInv
  OBVIOUS
<1>1. Len(Written) = 0 /\ Len(said) = 0 /\ setup = "level"
  BY DEF Init, Written
<1>2. \A w \in Writers : pc[w] = "idle" /\ ~call[w].due
  BY DEF Init, NoCall
<1> QED
  BY <1>1, <1>2 DEF LineInv, Ordered, NumberInv, DueInv, FlushInv, SaidInv, LevelInv

\* A step that writes nothing, and in which no call gets ahead of its line.
LEMMA LineQuiet ==
    ASSUME TypeOK, LineInv, UNCHANGED <<disk, buffer, said>>,
           \A v \in Writers : /\ call'[v].no = call[v].no
                              /\ call'[v].due <=> call[v].due
                              /\ pc'[v] \in Ahead => pc[v] \in Ahead
                              /\ pc'[v] = "flush" => pc[v] = "flush",
           setup = "done" => UNCHANGED <<setup, filLog>>,
           LevelInv'
    PROVE  LineInv'
<1>1. Written' = Written /\ said' = said /\ disk' = disk
  BY DEF Written
<1>2. Ordered(Written)' /\ NumberInv'
  BY <1>1 DEF LineInv, NumberInv, Ordered
<1>3. DueInv'
  BY DEF LineInv, DueInv
<1>4. FlushInv'
  BY <1>1 DEF LineInv, FlushInv
<1>5. SaidInv'
  BY <1>1 DEF LineInv, SaidInv
<1> QED
  BY <1>2, <1>3, <1>4, <1>5 DEF LineInv

LEMMA AheadValues == Ahead = {"localtime", "strftime", "usec", "check", "print"}
BY DEF Ahead, Stamping

LEMMA LineSay ==
    ASSUME TypeOK, LineInv, NEW w \in Writers, NEW l \in Levels, Say(w, l)
    PROVE  LineInv'
<1> DEFINE begun == [no |-> call[w].no + 1, early |-> setup # "done",
                     due |-> setup = "done" /\ filLog = "open" /\ l <= MESSAGE,
                     began |-> now, disturbed |-> FALSE, sec |-> 0, part |-> 0]
<1>1. /\ UNCHANGED <<setting, disk, buffer>> /\ pc[w] = "idle"
      /\ Printed(l) => /\ call' = [DisturbedBut(w) EXCEPT ![w] = begun]
                       /\ pc' = [pc EXCEPT ![w] = "localtime"] /\ said' = said
      /\ ~Printed(l) => /\ call' = [call EXCEPT ![w] = begun] /\ pc' = pc
                        /\ said' = IF begun.due THEN Append(said, <<w, begun.no>>) ELSE said
  BY DEF Say, file
<1>2. /\ begun.no = call[w].no + 1
      /\ begun.due <=> (setup = "done" /\ filLog = "open" /\ l <= MESSAGE)
  OBVIOUS
<1>3. begun.due => Printed(l)
  BY <1>2, LevelValues DEF Printed, LineInv, LevelInv
<1> HIDE DEF begun
<1>4. /\ Written' = Written /\ said' = said /\ disk' = disk
      /\ UNCHANGED <<setup, filLog, debuglevel>>
  BY <1>1, <1>3 DEF Written, setting
<1>5. /\ call'[w] = begun
      /\ \A v \in Writers \ {w} : /\ call'[v].no = call[v].no
                                  /\ call'[v].due <=> call[v].due
                                  /\ pc'[v] = pc[v]
      /\ pc'[w] # "flush"
  BY <1>1, DisturbedCalls DEF TypeOK
<1>6. call[w].no \in Nat /\ \A j \in 1..Len(Written) : Written[j][2] \in Nat
  <2>1. disk \o buffer \in Seq(Line)
    BY DEF TypeOK
  <2>2. \A j \in 1..Len(Written) : Written[j] \in Line
    BY <2>1 DEF Written
  <2> QED
    BY <2>2 DEF Line, TypeOK
<1>7. NumberInv'
  BY <1>2, <1>4, <1>5, <1>6 DEF LineInv, NumberInv
<1>8. DueInv'
  BY <1>2, <1>4, <1>5 DEF LineInv, DueInv
<1>9. FlushInv'
  BY <1>4, <1>5 DEF LineInv, FlushInv
<1> QED
  BY <1>4, <1>7, <1>8, <1>9 DEF LineInv, Ordered, SaidInv, LevelInv

LEMMA LinePrint ==
    ASSUME TypeOK, Numbered, LineInv, NEW w \in Writers, PrintLine(w)
    PROVE  LineInv'
<1> DEFINE line == <<w, call[w].no>>
           n == Len(Written) + 1
<1>1. /\ pc[w] = "print" /\ pc' = [pc EXCEPT ![w] = "flush"]
      /\ UNCHANGED <<setting, call, disk, said>>
      /\ filLog = "NULL" => buffer' = buffer
      /\ filLog # "NULL" => buffer' = Append(buffer, line)
  BY DEF PrintLine
<1>2. /\ \A v \in Writers \ {w} : pc'[v] = pc[v]
      /\ pc'[w] = "flush"
      /\ UNCHANGED <<setup, filLog, debuglevel>>
  BY <1>1 DEF TypeOK, setting
<1>3. call[w].no \in 1..MaxLines
  BY <1>1 DEF Numbered
<1>4. CASE filLog = "NULL"
  <2>1. Written' = Written /\ ~call[w].due
    BY <1>1, <1>4 DEF Written, LineInv, DueInv
  <2>2. NumberInv'
    BY <1>1, <1>2, <2>1, AheadValues DEF LineInv, NumberInv
  <2>3. FlushInv'
    BY <1>1, <1>2, <2>1 DEF LineInv, FlushInv
  <2> QED
    BY <1>1, <1>2, <2>1, <2>2, <2>3 DEF LineInv, Ordered, DueInv, SaidInv, LevelInv
<1>5. CASE filLog # "NULL"
  <2>1. /\ Written \in Seq(Line) /\ n \in Nat /\ line \in Line
        /\ Written' = Append(Written, line)
    <3>1. disk \in Seq(Line) /\ buffer \in Seq(Line)
      BY DEF TypeOK
    <3>2. line \in Line
      BY <1>3 DEF Line
    <3> HIDE DEF line
    <3>3. disk' = disk /\ buffer' = Append(buffer, line)
      BY <1>1, <1>5
    <3>4. Written \in Seq(Line) /\ n \in Nat
      BY <3>1 DEF Written
    <3>5. Written' = Append(Written, line)
      BY <3>1, <3>2, <3>3 DEF Written
    <3> QED
      BY <3>2, <3>4, <3>5
  <2>2. /\ Len(Written') = n /\ Written'[n] = line
        /\ \A j \in 1..Len(Written) : Written'[j] = Written[j] /\ Written[j] \in Line
        /\ \A j \in 1..n : j = n \/ j \in 1..Len(Written)
    BY <2>1
  <2>3. /\ \A j \in 1..Len(Written) : Written[j][1] = w => Written[j][2] < call[w].no
        /\ \A j \in 1..Len(Written) : Written[j][1] \in Writers /\ Written[j][2] \in Nat
        /\ line[1] = w /\ line[2] = call[w].no
    BY <1>1, <2>2, AheadValues DEF LineInv, NumberInv, Line
  <2> HIDE DEF line, n
  <2>4. Ordered(Written)'
    <3> SUFFICES ASSUME NEW i \in 1..n, NEW j \in 1..n, i < j, Written'[i][1] = Written'[j][1]
                 PROVE  Written'[i][2] < Written'[j][2]
      BY <2>2 DEF Ordered
    <3>1. i \in 1..Len(Written)
      BY <2>1, <2>2 DEF n
    <3>2. CASE j = n
      BY <2>2, <2>3, <3>1, <3>2
    <3>3. CASE j # n
      BY <2>2, <3>1, <3>3 DEF LineInv, Ordered
    <3> QED
      BY <3>2, <3>3
  <2>5. NumberInv'
    <3> SUFFICES ASSUME NEW j \in 1..n, NEW v \in Writers, Written'[j][1] = v
                 PROVE  /\ Written'[j][2] <= call[v].no
                        /\ pc'[v] \in Ahead => Written'[j][2] < call[v].no
      BY <1>1, <2>2 DEF NumberInv
    <3>1. CASE j = n
      BY <1>2, <1>3, <2>2, <2>3, <3>1, AheadValues
    <3>2. CASE j # n
      <4>1. j \in 1..Len(Written) /\ Written'[j] = Written[j]
        BY <2>2, <3>2
      <4>2. Written[j][2] <= call[v].no /\ (pc[v] \in Ahead => Written[j][2] < call[v].no)
        BY <4>1 DEF LineInv, NumberInv
      <4> QED
        BY <1>2, <4>1, <4>2, AheadValues
    <3> QED
      BY <3>1, <3>2
  <2>6. FlushInv'
    <3> SUFFICES ASSUME NEW v \in Writers, pc'[v] = "flush", call[v].due
                 PROVE  \E j \in 1..n : Written'[j] = <<v, call[v].no>>
      BY <1>1, <2>2 DEF FlushInv
    <3>1. CASE v = w
      BY <2>1, <2>2, <3>1 DEF line, n
    <3>2. CASE v # w
      <4>1. PICK j \in 1..Len(Written) : Written[j] = <<v, call[v].no>>
        BY <1>2, <3>2 DEF LineInv, FlushInv
      <4>2. j \in 1..n /\ Written'[j] = Written[j]
        BY <2>1, <2>2 DEF n
      <4> QED
        BY <4>1, <4>2
    <3> QED
      BY <3>1, <3>2
  <2> QED
    BY <1>1, <1>2, <2>4, <2>5, <2>6 DEF LineInv, DueInv, SaidInv, LevelInv
<1> QED
  BY <1>4, <1>5

\* fflush() puts every line in the file, those of the other writers too.
LEMMA LineFlush ==
    ASSUME TypeOK, Numbered, LineInv, NEW w \in Writers, Flush(w)
    PROVE  LineInv'
<1> DEFINE line == <<w, call[w].no>>
<1>1. /\ pc[w] = "flush" /\ pc' = [pc EXCEPT ![w] = "idle"]
      /\ UNCHANGED <<setting, call>>
      /\ disk' = Written /\ buffer' = << >>
      /\ call[w].due => said' = Append(said, line)
      /\ ~call[w].due => said' = said
  BY DEF Flush, Return, Written
<1>2. /\ \A v \in Writers \ {w} : pc'[v] = pc[v]
      /\ pc'[w] = "idle"
      /\ UNCHANGED <<setup, filLog, debuglevel>>
  BY <1>1 DEF TypeOK, setting
<1>3. /\ Written \in Seq(Line) /\ disk \in Seq(Line) /\ said \in Seq(Line)
      /\ \A j \in 1..Len(disk) : j \in 1..Len(Written) /\ Written[j] = disk[j]
  BY DEF Written, TypeOK
<1>4. Written' = Written
  <2>1. Written' = Written \o << >>
    BY <1>1 DEF Written
  <2> QED
    BY <1>3, <2>1
<1>5. NumberInv'
  BY <1>1, <1>2, <1>4, AheadValues DEF LineInv, NumberInv
<1>6. FlushInv'
  BY <1>1, <1>2, <1>4 DEF LineInv, FlushInv
<1>7. SaidInv'
  <2>1. ASSUME NEW i \in 1..Len(said)
        PROVE  \E j \in 1..Len(disk') : disk'[j] = said[i]
    BY <1>1, <1>3 DEF LineInv, SaidInv
  <2>2. CASE ~call[w].due
    BY <1>1, <2>1, <2>2 DEF SaidInv
  <2>3. CASE call[w].due
    <3>1. \E j \in 1..Len(disk') : disk'[j] = line
      BY <1>1, <2>3 DEF LineInv, FlushInv
    <3> HIDE DEF line
    <3>2. /\ Len(said') = Len(said) + 1 /\ said'[Len(said) + 1] = line
          /\ \A i \in 1..Len(said) : said'[i] = said[i]
          /\ \A i \in 1..(Len(said) + 1) : i = Len(said) + 1 \/ i \in 1..Len(said)
      <4>1. said' = Append(said, line) /\ said \in Seq(Line) /\ Len(said) \in Nat
        BY <1>1, <1>3, <2>3 DEF line
      <4> QED
        BY <4>1
    <3>3. ASSUME NEW i \in 1..(Len(said) + 1)
          PROVE  \E j \in 1..Len(disk') : disk'[j] = said'[i]
      BY <2>1, <3>1, <3>2
    <3> QED
      BY <3>2, <3>3 DEF SaidInv
  <2> QED
    BY <2>2, <2>3
<1> QED
  BY <1>1, <1>2, <1>4, <1>5, <1>6, <1>7 DEF LineInv, Ordered, DueInv, LevelInv

LEMMA LineStep == TypeOK /\ Numbered /\ FileInv /\ LineInv /\ [Next]_vars => LineInv'
<1> SUFFICES ASSUME TypeOK, Numbered, FileInv, LineInv, [Next]_vars PROVE LineInv'
  OBVIOUS
<1>1. CASE UNCHANGED vars \/ Tick
  <2>1. UNCHANGED <<setting, pc, call, disk, buffer, said>>
    BY <1>1 DEF Tick, vars, file
  <2>2. LevelInv'
    BY <2>1 DEF LineInv, LevelInv, setting
  <2> QED
    BY <2>1, <2>2, LineQuiet DEF setting
<1>2. CASE SetLevel \/ SetFlag \/ OpenLog
  <2>1. UNCHANGED <<pc, call, disk, buffer, said>> /\ setup # "done" /\ LevelInv'
    BY <1>2 DEF SetLevel, SetFlag, OpenLog, file, LineInv, LevelInv
  <2> QED
    BY <2>1, LineQuiet
<1>3. CASE LocalTimeElsewhere
  <2>1. UNCHANGED <<setting, pc, disk, buffer, said>> /\ call' = DisturbedBut("elsewhere")
    BY <1>3 DEF LocalTimeElsewhere, file
  <2>2. LevelInv'
    BY <2>1 DEF LineInv, LevelInv, setting
  <2>3. \A v \in Writers : /\ call'[v].no = call[v].no
                           /\ call'[v].due <=> call[v].due
    BY <2>1, DisturbedCalls
  <2> QED
    BY <2>1, <2>2, <2>3, LineQuiet DEF setting
<1>4. ASSUME NEW w \in Writers, LocalTime(w) \/ StrfTime(w) \/ USec(w)
      PROVE  LineInv'
  <2>1. UNCHANGED <<setting, disk, buffer, said>>
    BY <1>4 DEF LocalTime, StrfTime, USec, file
  <2>2. LevelInv'
    BY <2>1 DEF LineInv, LevelInv, setting
  <2>3. \A v \in Writers : /\ pc'[v] \in Ahead => pc[v] \in Ahead
                           /\ pc'[v] = "flush" => pc[v] = "flush"
    BY <1>4, AheadValues DEF LocalTime, StrfTime, USec, TypeOK
  <2>4. \A v \in Writers : /\ call'[v].no = call[v].no
                           /\ call'[v].due <=> call[v].due
    <3>1. CASE LocalTime(w)
      BY <3>1, DisturbedCalls DEF LocalTime
    <3>2. CASE StrfTime(w)
      BY <3>2 DEF StrfTime, TypeOK
    <3>3. CASE USec(w)
      BY <3>3 DEF USec, TypeOK
    <3> QED
      BY <1>4, <3>1, <3>2, <3>3
  <2> QED
    BY <2>1, <2>2, <2>3, <2>4, LineQuiet DEF setting
<1>5. ASSUME NEW w \in Writers, CheckLog(w)
      PROVE  LineInv'
  <2>1. UNCHANGED <<setting, call, disk, buffer>> /\ pc[w] = "check"
    BY <1>5 DEF CheckLog, file
  <2>2. said' = said
    <3>1. call[w].due => DEBUG_TO_LOGFILE
      BY DEF LineInv, DueInv, FileInv
    <3> QED
      BY <1>5, <3>1 DEF CheckLog, Return
  <2>3. LevelInv'
    BY <2>1 DEF LineInv, LevelInv, setting
  <2>4. \A v \in Writers : /\ pc'[v] \in Ahead => pc[v] \in Ahead
                           /\ pc'[v] = "flush" => pc[v] = "flush"
    BY <1>5, AheadValues DEF CheckLog, TypeOK
  <2> QED
    BY <2>1, <2>2, <2>3, <2>4, LineQuiet DEF setting
<1> QED
  BY <1>1, <1>2, <1>3, <1>4, <1>5, LineSay, LinePrint, LineFlush DEF Next, Running

(* However the writers interleave:     a line that was due is in the file    *)
(* when its call has returned, and a writer's lines are there in its order.  *)
THEOREM LinesAreKept == Spec => []KeepsWhatItWasTold
<1>1. TypeOK /\ LineInv => KeepsWhatItWasTold
  <2> SUFFICES ASSUME TypeOK, LineInv PROVE KeepsWhatItWasTold
    OBVIOUS
  <2>1. \A j \in 1..Len(disk) : j \in 1..Len(Written) /\ Written[j] = disk[j]
    BY DEF Written, TypeOK
  <2> QED
    BY <2>1 DEF LineInv, Ordered, SaidInv, KeepsWhatItWasTold
<1>2. Spec => [](TypeOK /\ Numbered)
  BY TypeInit, TypeStep, PTL DEF Spec
<1> QED
  BY <1>1, <1>2, FileInit, FileStep, LineInit, LineStep, PTL DEF Spec
=============================================================================
