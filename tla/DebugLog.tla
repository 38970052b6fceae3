------------------------------ MODULE DebugLog ------------------------------
(***************************************************************************)
(* One log of a switch (class debug, debug.hpp): that of its communication *)
(* or of its batch thread.  The thread, the log's owner, sets the log up   *)
(* when it starts and then reports to it.  Others write to the same        *)
(* object: main its "N E W   S E S S I O N", after sleeping for what it    *)
(* hopes is long enough; and, in the communication log of switch 1, the    *)
(* communication threads of the other switches, whenever one of them sends *)
(* a packet through switch 1 (send_packet_to_controller).  Nothing keeps   *)
(* them apart but the C library's lock on a FILE: the object's tvTimestamp *)
(* and the C library's result of localtime() are shared, the latter with   *)
(* every log of the program.                                               *)
(*                                                                         *)
(* Time is counted in parts of a second.  What reaches the screen is left  *)
(* out, and so are the HTML file, the binary streams and the packet dumps: *)
(* no switch switches them on.                                             *)
(***************************************************************************)
EXTENDS Integers, Sequences, FiniteSets

CONSTANTS
    Relays,         \* the threads that send through the log's switch: for the
                    \* communication log of switch 1 those of the other
                    \* switches, for every other log none
    Parts,          \* parts of a second
    MaxTime,        \* bound of the model: time observed
    MaxLines,       \* bound of the model: calls of each writer
    MaxCalls        \* bound of the model: calls of all writers

ASSUME LogAssumption ==
    /\ Parts \in Nat \ {0}
    /\ MaxTime \in Nat /\ MaxLines \in Nat /\ MaxCalls \in Nat
    /\ Relays \cap {"owner", "main", "elsewhere"} = {}

CRYTICAL_ERROOR_MESSAGE == 0
ERROR_MESSAGE == 1
EXCEPTION == 2
MESSAGE == 3
GOSSIP == 4
WHISPER == 5
ALL == 6
Levels == CRYTICAL_ERROOR_MESSAGE..ALL

Writers == {"owner", "main"} \cup Relays

Line == Writers \X (1..MaxLines)

VARIABLES
    debuglevel,         \* not set by the constructor
    DEBUG_TO_LOGFILE,
    filLog,             \* "NULL" or "open"
    setup,              \* what the owner does next: "level", "flag", "fopen", "done"
    tvTimestamp,        \* the object's: when its last line was begun
    tmTime,             \* the C library's: the second last asked for
    now,
    pc,                 \* of each writer: its place in a call
    call,               \* of each writer: its call, with the stamp it has so far
    buffer, disk,       \* the log file: lines written, and lines flushed
    crashed,            \* fprintf() was called with a NULL file
    said                \* history: the lines that were due in the log, in the
                        \* order in which their calls returned

setting == <<debuglevel, DEBUG_TO_LOGFILE, filLog, setup>>
clocks == <<tvTimestamp, tmTime, now>>
file == <<buffer, disk>>
vars == <<setting, clocks, pc, call, file, crashed, said>>

NoCall == [no |-> 0, early |-> FALSE, due |-> FALSE, began |-> 0, disturbed |-> FALSE,
           sec |-> 0, part |-> 0]

Init ==
    /\ debuglevel \in Levels
    /\ DEBUG_TO_LOGFILE = FALSE /\ filLog = "NULL"
    /\ setup = "level"
    /\ tvTimestamp = 0 /\ tmTime = 0 /\ now = 0
    /\ pc = [w \in Writers |-> "idle"]
    /\ call = [w \in Writers |-> NoCall]
    /\ buffer = << >> /\ disk = << >>
    /\ crashed = FALSE
    /\ said = << >>

Tick ==
    /\ now < MaxTime /\ now' = now + 1
    /\ UNCHANGED <<setting, tvTimestamp, tmTime, pc, call, file, crashed, said>>

-----------------------------------------------------------------------------
(* The owner's first statements.                                           *)
SetLevel ==
    /\ setup = "level" /\ setup' = "flag"
    /\ debuglevel' = MESSAGE
    /\ UNCHANGED <<DEBUG_TO_LOGFILE, filLog, clocks, pc, call, file, crashed, said>>

(* set_debug_to_logfile(): the log is switched on, then its file opened,   *)
(* then the log switched off if that failed.                               *)
SetFlag ==
    /\ setup = "flag" /\ setup' = "fopen"
    /\ DEBUG_TO_LOGFILE' = TRUE
    /\ UNCHANGED <<debuglevel, filLog, clocks, pc, call, file, crashed, said>>

\* Mutant: a file that cannot be opened leaves the log switched on.
OpenLogKeepFlag ==
    /\ setup = "fopen" /\ setup' = "done"
    /\ filLog' \in {"open", "NULL"}
    /\ UNCHANGED <<debuglevel, DEBUG_TO_LOGFILE, clocks, pc, call, file, crashed, said>>

OpenLog ==
    /\ setup = "fopen" /\ setup' = "done"
    /\ filLog' \in {"open", "NULL"}
    /\ DEBUG_TO_LOGFILE' = (filLog' = "open")
    /\ UNCHANGED <<debuglevel, clocks, pc, call, file, crashed, said>>

-----------------------------------------------------------------------------
(* A call.  It is disturbed when someone else overwrites, before its time  *)
(* is made out, what the time is read from.                                *)
Stamping == {"localtime", "strftime", "usec"}

DisturbedBut(w) ==
    [v \in Writers |-> IF v # w /\ pc[v] \in Stamping
                         THEN [call[v] EXCEPT !.disturbed = TRUE] ELSE call[v]]

Calls == {line \in Line : line[2] <= call[line[1]].no}

Printed(l) == l = CRYTICAL_ERROOR_MESSAGE \/ debuglevel >= l

(* crytical_error_message(), error_message(), ... all(), up to the         *)
(* gettimeofday() of timestamp_str().  Only the owner waits for its own    *)
(* set-up, the others have only message() to say.  A call is early when it *)
(* is made before the set-up is done.                                      *)
Say(w, l) ==
    /\ pc[w] = "idle" /\ call[w].no < MaxLines /\ Cardinality(Calls) < MaxCalls
    /\ IF w = "owner" THEN setup = "done" ELSE l = MESSAGE
    /\ LET begun == [no |-> call[w].no + 1, early |-> setup # "done",
                  due |-> setup = "done" /\ filLog = "open" /\ l <= MESSAGE,
                  began |-> now, disturbed |-> FALSE, sec |-> 0, part |-> 0]
       IN IF Printed(l)
            THEN /\ call' = [DisturbedBut(w) EXCEPT ![w] = begun]
                 /\ tvTimestamp' = now
                 /\ pc' = [pc EXCEPT ![w] = "localtime"]
                 /\ UNCHANGED said
            ELSE /\ call' = [call EXCEPT ![w] = begun]
                 /\ said' = IF begun.due THEN Append(said, <<w, begun.no>>) ELSE said
                 /\ UNCHANGED <<tvTimestamp, pc>>
    /\ UNCHANGED <<setting, tmTime, now, file, crashed>>

LocalTime(w) ==
    /\ pc[w] = "localtime" /\ pc' = [pc EXCEPT ![w] = "strftime"]
    /\ tmTime' = tvTimestamp \div Parts
    /\ call' = DisturbedBut(w)
    /\ UNCHANGED <<setting, tvTimestamp, now, file, crashed, said>>

(* Another log of the program stamps a line of its own.                    *)
LocalTimeElsewhere ==
    /\ tmTime' = now \div Parts
    /\ call' = DisturbedBut("elsewhere")
    /\ UNCHANGED <<setting, tvTimestamp, now, pc, file, crashed, said>>

StrfTime(w) ==
    /\ pc[w] = "strftime" /\ pc' = [pc EXCEPT ![w] = "usec"]
    /\ call' = [call EXCEPT ![w].sec = tmTime]
    /\ UNCHANGED <<setting, clocks, file, crashed, said>>

\* Mutant: the clock is read a second time.
PartNow == now % Parts

\* Mutant: the whole time is printed as a fraction.
PartUnsplit == tvTimestamp

Part == tvTimestamp % Parts

(* The function reads tv_usec once for each of the two parts of the string *)
(* it puts together, here in one step.                                     *)
USec(w) ==
    /\ pc[w] = "usec" /\ pc' = [pc EXCEPT ![w] = "check"]
    /\ call' = [call EXCEPT ![w].part = Part]
    /\ UNCHANGED <<setting, clocks, file, crashed, said>>

Return(w) ==
    said' = IF call[w].due THEN Append(said, <<w, call[w].no>>) ELSE said

(* if (DEBUG_TO_LOGFILE) ...                                               *)
CheckLog(w) ==
    /\ pc[w] = "check"
    /\ IF DEBUG_TO_LOGFILE
         THEN pc' = [pc EXCEPT ![w] = "print"] /\ UNCHANGED said
         ELSE pc' = [pc EXCEPT ![w] = "idle"] /\ Return(w)
    /\ UNCHANGED <<setting, clocks, call, file, crashed>>

(* ... fprintf(filLog, ...); ...                                           *)
PrintLine(w) ==
    /\ pc[w] = "print" /\ pc' = [pc EXCEPT ![w] = "flush"]
    /\ IF filLog = "NULL"
         THEN crashed' = TRUE /\ UNCHANGED buffer
         ELSE buffer' = Append(buffer, <<w, call[w].no>>) /\ UNCHANGED crashed
    /\ UNCHANGED <<setting, clocks, call, disk, said>>

\* Mutant: the line stays in the buffer.
FlushNot(w) ==
    /\ pc[w] = "flush" /\ pc' = [pc EXCEPT ![w] = "idle"]
    /\ Return(w)
    /\ UNCHANGED <<setting, clocks, call, file, crashed>>

(* ... fflush(filLog);                                                     *)
Flush(w) ==
    /\ pc[w] = "flush" /\ pc' = [pc EXCEPT ![w] = "idle"]
    /\ disk' = disk \o buffer /\ buffer' = << >>
    /\ Return(w)
    /\ UNCHANGED <<setting, clocks, call, crashed>>

Running ==
    \/ Tick \/ LocalTimeElsewhere
    \/ SetLevel \/ SetFlag \/ OpenLog
    \/ \E w \in Writers :
         \/ \E l \in Levels : Say(w, l)
         \/ LocalTime(w) \/ StrfTime(w) \/ USec(w)
         \/ CheckLog(w) \/ PrintLine(w) \/ Flush(w)

(* After a crash there is no process any more.                             *)
Next == ~crashed /\ Running

Spec == Init /\ [][Next]_vars

-----------------------------------------------------------------------------
\* The values of the log's variables; a stamp is a second and a part of one.
TypeOK ==
    /\ debuglevel \in Levels
    /\ DEBUG_TO_LOGFILE \in BOOLEAN /\ filLog \in {"NULL", "open"}
    /\ setup \in {"level", "flag", "fopen", "done"}
    /\ tvTimestamp \in 0..MaxTime /\ now \in 0..MaxTime
    /\ tmTime \in Nat
    /\ pc \in [Writers -> Stamping \cup {"idle", "check", "print", "flush"}]
    /\ call \in [Writers -> [no : 0..MaxLines, early : BOOLEAN, due : BOOLEAN,
                             began : 0..MaxTime, disturbed : BOOLEAN,
                             sec : Nat, part : 0..(Parts - 1)]]
    /\ buffer \in Seq(Line) /\ disk \in Seq(Line) /\ said \in Seq(Line)
    /\ crashed \in BOOLEAN

\* fprintf() is called with a NULL file only in a call that someone other than
\* the owner - main, or a thread that sends through switch 1 - made before the
\* owner had set up the log: no call of the owner meets the log half open, a log
\* whose file cannot be opened is silent, and of two calls of the same writer
\* only the early one can fail (set_debug_to_logfile()).
CrashOnlyIfEarly ==
    crashed => \E w \in Writers \ {"owner"} : pc[w] = "flush" /\ call[w].early

\* The time in a line is the one at which its call was made, both halves of
\* it, unless someone else asked for the time meanwhile (timestamp_str()).
OwnTimeUnlessDisturbed ==
    \A w \in Writers :
      (pc[w] \in {"check", "print", "flush"} /\ ~call[w].disturbed)
        => /\ call[w].sec = call[w].began \div Parts
           /\ call[w].part = call[w].began % Parts

\* A log that was opened keeps what it is told: once a call that is due has
\* returned its line is in the file itself, once and in the order of its
\* writer, also when another writer has flushed it.
KeepsWhatItWasTold ==
    /\ \A i \in 1..Len(said) : \E j \in 1..Len(disk) : disk[j] = said[i]
    /\ \A i, j \in 1..Len(disk) :
         i < j /\ disk[i][1] = disk[j][1] => disk[i][2] < disk[j][2]
=============================================================================
