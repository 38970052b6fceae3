# TLA+ development of ofcbenchmark

`ofcbenchmark` measures an OpenFlow controller. It creates virtual switches one
by one; every switch connects to the controller, sends it packet-ins as fast as
its pauses allow, and measures how many answers come back and after what time.
For every number of switches there is one *session*: all switches are started,
run for `run_time` seconds, are stopped, and the next session begins when all of
them have been silent for five seconds.

This directory models the parts of the program that decide what it measures,
checks them with TLC on small instances, and proves the central results for all
values of the parameters with TLAPS.

## 1. Inventory

| component | source | state | operations | talks to |
|---|---|---|---|---|
| session loop | `ofcbenchmark.cpp` `main` | `switches[]`, `intCountSwitches`, loop variables, CSV streams | read settings, create switch, reset, `start_`, read statistics, `stop_`, wait for silence, join | calls the switches; reads their statistics without a lock |
| virtual switch | `switch.hpp` | connection, three threads, `mutxBatchRun`, `mutxSemaphoreControllerSocket` | start thread (`start`), communication thread (`controller_communication`), batch thread (`controller_batch`), `start_`, `stop_` | controller by TCP; main through `mutxBatchRun` |
| statistics | `config.hpp` class `config` | ring of time stamps, counts, the current delta, saved deltas | `reset_statistic`, `SendPacketID`, `ReceivePacketID`, `ChangeDelta`, `SaveDelta`, `SessionTimeouted`, `SwitchOutOfOrder`, means and variances | written by batch and communication thread, reset and read by main |
| packet dispatch | `packets.hpp` | none of its own | `process_packet`, `packet_create`, `packet_out_*` | called by both threads; sends under the socket mutex |
| stream framing | `switch.hpp`, `packets.hpp` `process_buffer_in` | `buf`, `processingEnd` | receive, cut into packets, keep half packets | feeds packet dispatch |
| topology, OFDP relay | `topology.hpp`, `packets.hpp` | matrix of ports | load a file, look up a neighbour, answer a probe through another switch | `send_packet_through_switch` reaches into another switch |
| pcap reader | `mypcap.hpp` | `_file_`, `_loop_file_`, position | open, next packet, reopen at the end of the file | batch thread |
| ini files | `minIni.c` | none | `ini_gets`, `ini_getl` | main and every start thread |
| log | `debug.hpp` | level, flag and `FILE` of the log, `tvTimestamp` | set-up, `message` and the other levels, time stamps | its thread, main between sessions, and for switch 1's communication log the communication threads of the other switches; the C library's `struct tm` |
| mission control | `switch.hpp`, `communication.hpp` | command socket | HELLO, GET, SET, START, STOP, QUIT | never started in this program |
| OpenFlow headers, utilities | `openflow.h`, `packets.h`, `util.*`, `random.*`, `compiler.h` | | | |

What is hard in this code:

* main and the batch thread synchronise through one mutex that each of them
  locks and the *other* unlocks, so a lost or early unlock changes who may send;
* nothing makes `start_` wait until a batch thread is ready; `delay_create` is a
  guess at how long connecting takes;
* a session ends by silence, so packets that are merely slow cross into the next
  session, where the ring of time stamps has been emptied;
* answers may be lost, repeated or late, ids wrap around, and time passes in
  deltas that may be skipped in whole;
* the statistics are written by two threads and reset and read by a third
  without a lock;
* TCP delivers the controller's messages in arbitrary pieces, and a connection
  reset enters the arithmetic of the receive loop as a length of -1;
* three kinds of threads write to one blocking socket while the controller may
  itself be blocked;
* a thread uses settings that another sets only after having launched it;
* pcap files may come from another machine, may be looped, and may disappear;
* a log is written by two threads, that of switch 1's communication by more, and
  stamped through the C library's only `struct tm`.

What makes the components correct, one line each:

* gate: outside a session a switch sends nothing but one straggler, inside it
  always may send;
* session loop: every session ends, and starts with no packet of an earlier one
  on its way;
* statistics: every packet is matched, waiting, or was reported overwritten; an
  answer is measured against its own stamp; every delta holds what happened in
  its window; a mean lies among the values it is the mean of;
* framing: packets reach `process_packet` whole, in order, once, and in the end
  all of them;
* socket: messages are not mixed; requests are answered, in order;
* topology: a lookup returns the other end of a link, from both ends;
* set-up: what a thread uses is set by then, and is what the file says;
* pcap reader: the packets of the file, in order, again and again when looped;
* log: every line that is due, once, in order, with its own time.

## 2. Modules

| module | models | builds on |
|---|---|---|
| `TrafficGate` | abstract: what `start_`/`stop_` promise main | |
| `Session`, `SessionProofs` | main's loop, the three threads of every switch, `mutxBatchRun`, packets under way | `INSTANCE TrafficGate` |
| `PacketTracking`, `PacketTrackingProofs` | the statistics of one switch, one step per call | |
| `StatRace`, `StatRaceProofs` | the same calls overlapping, one step per load or store | |
| `StreamFraming`, `StreamFramingProofs` | receive loop and `process_buffer_in` | |
| `MCStreamFraming` | the streams to check | `StreamFraming` |
| `Protocol`, `ProtocolProofs` | requests, answers, packet-ins and the socket mutex | |
| `Topology` | the matrix as pure operators | |
| `OfdpRelay`, `OfdpRelayProofs` | loading a file, probes and relayed packet-ins | `Topology` |
| `PcapSource` | abstract: what the batch thread expects of a pcap file | |
| `PcapReader` | opening and reading a pcap file | `INSTANCE PcapSource` |
| `IniFile` | looking up a key, as pure operators, and what a file says of a key, read off as a whole | |
| `SwitchSetup`, `SwitchSetupProofs` | from reading the settings to the batch thread's rounds, with main, start and batch thread racing | `IniFile`, `PcapReader` |
| `MCSwitchSetup` | the files to check | `SwitchSetup` |
| `DebugLog`, `DebugLogProofs` | one log and its writers | |

A module `XProofs` holds the theorems about `X`, and about the modules `X` extends.

### Session

`mainPc` names main's place: `init` and `new` create switches (390-421), `delay`
is `sleep(DELAY_CREATE)`, `reset`/`start` the two calls of the start loop for
switch `j`, `read` the run time with the statistics at its end, `stop` the stop
loop, `sleep`/`check` the wait loop, `join` the end. A switch that still has
traffic sends main back to `sleep`; the `||` of line 544 does not evaluate the
later switches, and neither does `CheckSwitch`. Writing the CSV files changes no
state and is part of the step that leads on.

`startPc` follows `vswitch::start` (connection attempts are counted in `intTry`;
the last failure is `exit(EXIT_FAILURE)` for the whole process, `exited`).
`batchPc` follows `controller_batch`: `reset`, `park` (line 615), `gate` (621,
waiting), `pass` (between 621 and 622), `create`, `send`. A boost mutex is a
pthread mutex: `lock` waits, `unlock` frees it whoever calls it.

The time-dependent part of the statistics is `recent[s]`, the negation of
`SessionTimeouted()`: set by `SendPacketID` and `ReceivePacketID`, cleared by
`Elapse` (five seconds passed) and `reset_statistic`. Packets on their way are
counted in `fresh` (created since the last reset) and `stale`. The controller
answers a packet (`ReceiveAnswer`) or does not (`NoAnswer`). `late` is a history
variable: packets created since `stop_` returned.

### PacketTracking and StatRace

`PacketTracking` has one action per call: `reset_statistic`, `SendPacketID`,
`ProcessAnswer` (the range test of `process_packet` and `ReceivePacketID`), plus
the clock. The controller may answer a packet late, more than once or never, and
at a reset any part of what is on its way may still be answered later (`wire'
\in SUBSET wire`). `ChangeDelta`'s loop is closed: the number of deltas to save
is computed, and the first of them holds the current counts, the others none.
Rates are packets per `Delta_t` because the factor is constant. `NoValues` and
`Include` keep what a mean, a variance and a range are computed from.
`sendTimes`/`matchTimes` record when packets were stamped and matched;
`DeltasFollowClock` compares the deltas with windows computed from that record
alone. `clean` records whether the session began with no answer due and no
packet was answered twice since.

`StatRace` splits `SendPacketID` (batch thread) and `ReceivePacketID`
(communication thread) into their loads and stores of the variables both write;
`pc[t]` names what thread `t` does next, `reg[t]` what it holds between a load
and a store. `underruns` and `clash` record the two events behind which nothing
is promised: an under run, and both threads being between the beginning of
`SaveDelta` and the count of their packet at the same time. `Return` is where a
packet goes out, as in the code: an answer cannot come before its stamp.
One load or store is one step. That is an abstraction: the variables are `long
double` (`config.hpp:103` and following), which a machine stores in more than one
piece, and without a lock the language promises nothing at all. What the model
shows going wrong (`race_rates`) needs no torn value; what it shows going right
is free of them, because there the accesses do not overlap (`RingSurvives`,
by slots of their own; `TotalsUnlessClash`, by its condition).
`RTT_in_delta_sum` and `RTT_in_delta_count`, also written by both threads, are
left out: `com` raises them where it counts its packet in the delta, and
`SaveDelta` divides and clears them where it clears `PPS_cur_delta`.

### StreamFraming

`buf` always holds a contiguous piece of the stream, so positions in the stream
(`consumed`, `received`) replace pointers. What must be kept of the buffer's old
contents are the two length bytes at its front (`old`), since the code reads
them before they have arrived. A stream is given by where its packets begin;
`BYTE` is the number of values of a byte. `RecvError` is the -1 of a reset
connection: the code adds it to the size of what was kept, so the last byte
received is lost.

### Protocol

The senders of one switch's socket: its communication thread (answers), its
batch thread, and one thread standing for the communication threads of other
switches that relay OFDP packet-ins. A message is sent in two parts, which is
enough for two senders to mix them. A request "calls for an answer" (`Calls`) if
`process_packet` has a case that answers it: barrier, statistics and
configuration requests, which OpenFlow wants answered and the code only logs
(`packets.hpp:628-648`), are `OTHER` and call for none. `writing` is the request the controller is
blocked in writing.

### Topology and OfdpRelay

Lines are given parsed. `LoadFromFile` passes a line without `=` on as a line
whose two sides are the same text, because `find` returns `npos` and the test is
`pos > 0`: a line may therefore join a port to itself.

### PcapReader and PcapSource

A packet is the number of its record. `Length` is `pcap_read`'s guess at the
byte order of a length, over the four bytes as they stand in the file; where it
errs (`Misread`) the reader is `lost`, and from then on takes anything for a
record (`Garbage`). `EPROTO` is returned in the place of a length and stays
`Garbage` too. Of a record the file does not hold all of, the length may still be
there and be misread, or the read may find the end of the file: both are
outcomes. `NextPacket` is `get_next_packet` with the reopening of a looped
file; a `FILE` that could not be opened is passed to `fread`, `Crash`. The
abstract `PcapSource` promises the usable records in order: of a looped file
those in front of the first record without data, or that record's successors if
it is the first, because `fread` of no bytes looks like the end of the file.

### IniFile, SwitchSetup

`getkeystring` applies `Step` to the lines of the file one after the other; a line is given by
what the reader can tell of it. In `SwitchSetup` main (`mainPc`), the start
thread (`startPc`) and the batch thread (`batchPc`) each go through their own
statements; `Unset` is memory nothing has been written to. `deltaLength` is what
`reset_statistic`, called by all three, made of `Delta_t`.

### DebugLog

The owner sets the log up (`setup`) and then calls it; main, and the threads in
`Relays`, call it whenever they like. `Relays` are the communication threads of
other switches: an OFDP packet-in one of them sends through switch 1 is reported
in switch 1's communication log first (`switch.hpp:1381`), and nothing orders
that behind switch 1's set-up. For every other log the set is empty. A call is
`early` when it is made before the set-up is done. It goes from
`Say` through the three reads of its time stamp (`localtime`, `strftime`, `usec`)
to `check`, `print` and `flush`. `buffer` and `disk` are lines written and lines
flushed. `LocalTimeElsewhere` is any other log of the program.

## 3. Runs

| run | checks | expected |
|---|---|---|
| `session` | `TypeOK`, `GateFollowsMain`, `StragglerBound`, `NoCarryOver`, `ImplementsGate`, `SessionsEnd` | holds |
| `session_late` | `StartedNotLockedOut` | violated |
| `tracking` | `TypeOK`, `Accounted`, `OwnStamp`, `DeltasFollowClock`, `AvailableMeansAnswered`, `MeansInRange`, `VariancesReal` | holds |
| `tracking_means` | `DeltaMeansInRange` | violated |
| `race` | `TypeOK`, `RingSurvives`, `TotalsUnlessClash`, `RatesUnlessClash` | holds |
| `race_rates` | `RatesOverDelta` | violated |
| `framing` | `TypeOK`, `InSync`, `KeptIsShort`, `AllProcessed` | holds |
| `framing_split` | `InSync` | violated |
| `relay` | `TypeOK`, `LookupFollowsFile` | holds |
| `protocol` | `TypeOK`, `WholeMessages`, `PairedByOrder`, `AllAnswered` | holds |
| `setup` | `TypeOK`, `SetBeforeUse`, `AsWritten`, `InStepUnlessTooLong`, `ImplementsSource`, `PacketsRecur` | holds |
| `log` | `TypeOK`, `CrashOnlyIfEarly`, `OwnTimeUnlessDisturbed`, `KeepsWhatItWasTold` | holds |

The four violations are the project's findings. `session_late`: a switch that
needs longer than `delay_create` to connect misses its `start_()` and is measured
as one that sends nothing. `race_rates`: `ChangeDelta` moves START to STOP before
it moves STOP, and the other thread, in `SaveDelta` at that moment, computes a
rate over a delta of no length. `framing_split`: a `recv` that ends within the
header of a packet makes `process_buffer_in` read a length from stale bytes.
`tracking_means`: the "mean of pps-es measured in deltas" (`config.hpp:161`)
divides by `PPS_delta_counter`, which starts at 1, one more than the deltas in
the sum; TLC's trace saves one delta of one packet, whose mean is a half.

`AvailableMeansAnswered` covers one divisor, `PACKET_received_count` in
`RTT_mean()` and `RTT_VAR()`; for the two it does not cover see section 6.
`MeansInRange` bounds the means of the deltas from above only, because below is
where `tracking_means` finds them.

Bounds and why they are enough:

* Session: two switches at first and one more for the second session, so a
  switch that joins later meets two that have been through a session; one failed
  connection attempt before the last; one or two packets on their way, so that
  `send` blocks. The run assumes `Prompt` for `NoCarryOver` and `SessionsEnd`;
  the gate is per switch, and the proofs of section 5 remove the bounds and, for
  the results about the gate, `Prompt`. `session_late` has one switch at first
  and no `Prompt`.
* Tracking: a ring of two slots wraps around and is overwritten within three
  packets; six ticks with `Delta_t = 2` give up to two saved deltas, an idle one
  among them, and packets exactly at a boundary; three answers, one of them
  repeated; two sessions, so that answers cross over.
* Race: the ring as above; deltas of one tick, so that both threads find one
  over, or several, within five ticks; three packets per session.
* Framing: three packets suffice for "the one before, this one, the next"; with
  bytes of eight values the lengths 8 and 17 need the high length byte and have
  a low byte smaller than a header, 4 is a packet of a bare header, and behind
  17 bytes a packet and a bare header are kept together. All cuttings by `recv`
  are explored, and a reset at every point.
* Relay: three switches, two ports, three lines: parallel links, links that
  share a switch, a port joined to itself. Switch 0 does not exist (the code uses
  it for "none"). Every port occurs once in a file.
* Protocol: two requests of any type, two packet-ins of each generator, room for
  three parts in the socket, so every sender is blocked in `send` and on
  the mutex.
* Setup: three lines of an ini file are a section, an end of it and a key, in any
  order and with repetitions; three records of a pcap file one in front of the
  special one and one behind it. Either the ini file or the pcap file varies;
  they meet in one number, whether the file is looped.
* Log: three writers (owner, main, one relaying thread), up to two calls of each
  and three in all, seconds of two parts, two ticks: a call overlaps any call of
  any other writer, one writer calls twice, and a second begins in between.
* `tracking_means` has the bounds of `tracking`.

`CHECK_DEADLOCK FALSE` in `log` only: the process stops when `fprintf` gets a
NULL file.

## 4. Environment assumptions and fairness

Each assumption is a constant or a history variable, and where the program
depends on one for what it says of itself, a run shows what happens without it.

* `TimelyBatch` (Session): `delay_create` outlasts connecting, i.e. all batch
  threads have parked when main starts a session. Without it: `session_late`.
* `Prompt` (Session): threads that are ready run within a second, a packet or its
  answer does not travel for longer than five seconds. Without it `NoCarryOver`
  has no chance: main only watches for silence. The proofs of the results about
  the gate do not use it.
* `clean` (PacketTracking): `OwnStamp` and the mean round trip time are promised
  for sessions that began without an answer due (`NoCarryOver`) and packets that
  are answered once. `Accounted` and the rest hold whatever the controller does.
* `SplitHeaders` (StreamFraming): TCP may cut inside the first four bytes of a
  packet. Off in `framing`, on in `framing_split`.
* `Junk` (StreamFraming): what the stack held where `buf` is. Both runs use a
  large value; with arbitrary junk `SplitHeaders` fails even earlier.
* `Timely` (SwitchSetup): `sleep(2)` of the start thread outlasts main's next two
  assignments. Nothing else orders them.
* `ReadsAlways` (Protocol): the controller reads while its own write is blocked.
  Without it there is a deadlock: the batch thread is blocked in `send` with the
  mutex, the communication thread waits for the mutex and does not receive, the
  controller waits for it to receive. No run records it because nothing in the
  repository promises otherwise. `WholeMessages` is proved without it.

Fairness is used by the four liveness properties only. Every thread that can run
does in the end (`WF` per thread: the operating system's scheduler). In Session,
`stop_` needs strong fairness: the mutex is free again and again while the batch
thread runs, but not permanently, and neither pthread nor boost promises a
queue; main gets it with probability one, not with certainty. `Elapse` and
`Network` are weakly fair: time passes, and a packet is disposed of in the end
(with or without an answer). In Protocol packet-ins are bounded (`stop_` ends
them), so weak fairness is enough for the mutex. In StreamFraming only the
thread is fair; nothing makes the controller send or close: `AllProcessed` says
what happens *if* it closes. In SwitchSetup the three threads are fair;
`PacketsRecur` is about a session that goes on for ever, and nobody is forced to
replace the file.

## 5. Proofs

Eight modules of theorems, for any values of the constants:

| module | theorems | from |
|---|---|---|
| `SessionProofs` | `TypeCorrect`; `GateCorrect`, `AtMostOneStraggler`, `NotLockedOut`, `GateImplemented`; `NoCarry` | but for the first, from `TimelyBatch`; the last from `Prompt`, too |
| `PacketTrackingProofs` | `TypeCorrect`, `AllAccounted`, `StampsAreOwn`, `AvailableIsAnswered`, `DeltasAreWindows`, `MeansAreInRange`, `VariancesAreReal` | |
| `StatRaceProofs` | `TypeCorrect`, `RingIsSafe`, `TotalsAreSafe`, `RatesAreSafe` | |
| `StreamFramingProofs` | `TypeCorrect`; `PacketsInOrder`, `KeptShort` | the last two from `~SplitHeaders` |
| `ProtocolProofs` | `TypeCorrect`, `MessagesStayWhole`, `AnswersArePaired` | |
| `OfdpRelayProofs` | `TypeCorrect`, `LookupsAreRight` | |
| `SwitchSetupProofs` | of `PcapReader`: `ReaderTypeCorrect`, `ReaderInStep`, `ReaderImplementsSource`; of `SwitchSetup`: `SetupTypeCorrect`, `SettingsAsWritten`, `SwitchReadsInStep`, `SwitchImplementsSource`; `SettingsInTime` | the last from `Timely` |
| `DebugLogProofs` | `TypeCorrect`, `CrashIsEarly`, `StampIsOwn`, `LinesAreKept` | |

Every invariant and the two refinements that a passing run checks are among
them. Beyond the assumptions named, the proofs use the `ASSUME`s of the modules,
which only give the constants their types.

Hardly an invariant is inductive. What makes them so:

* *Session, types* (`IInv`): main's cursor stays within the created switches
  (its loops end at `intCountSwitches`, a switch is created only where there is
  room), and threads are launched in order and no attempt follows the last.
* *Session, gate* (`GateInv`), one `GateOK` per switch: (1) while main is in a
  session or waits for its end, the batch threads of all created switches have
  parked; (2) a thread that has not parked holds nothing and its switch is in no
  session; (3) for a parked one the mutex is held exactly by the thread in its
  gate, if in a session, and by main's `stop_` or the thread's own first lock
  otherwise; (4) the late packets and the one still owed are at most one, and in
  a session no late packet is counted. (1) is where `TimelyBatch` enters, in the
  step that ends the delay; (3) is why the unlock by another thread is sound:
  whoever unlocks finds the mutex in the one state meant for it. The step of
  every action is split into the switch it concerns and the others, whose gate
  nobody touched (`GateFrame`, `SameMain`, `GateOther`). The refinement maps
  `on` to "between `start_` and `stop_`" and `owed` to "the gate is passed and
  the packet not stamped".
* *Session, carry over* (`CarryInv`): nothing stale is on its way at any time;
  whatever is on its way was noticed within the last five seconds (here `Prompt`
  enters); and a switch that main has found silent, or not started yet
  (`FoundSilent`), stays silent, because its batch thread waits at a locked gate.
* *PacketTracking*: the counts (`RingSums`) follow from the cardinality of the
  waiting slots, which a send raises by one, or not, and then is an under run.
  The stamps (`RingInv`) need that no two packets on their way share an id; a
  send can only break that by overwriting a slot in use, which is reported.
* *PacketTracking, deltas* (`DeltaInv`): `DeltasFollowClock` speaks of the saved
  deltas and the current one only; inductive is that *every* window of the clock
  holds what was stamped and matched in it, those behind the current one being
  empty, and that the current one began before the present (`Bounds`). One more packet raises the count of its own window (`CountAppend`),
  and after `ChangeDelta` that window is the current one (`BoundsKept`,
  `DeltasReachNow`).
* *PacketTracking, means* (`SeriesInv`): of every sum it is kept that it is at
  most its count times the maximum and at least its count times the minimum, and
  that its square is at most the count times the sum of squares (`Series`). One
  value more keeps the last (`OneMoreSquare`) by 2ab <= a^2 + b^2, any number of
  idle deltas by the same; the induction of Cauchy's inequality is that of the
  program's run. Under `clean` the count main divides by is that of the matched
  answers (`AllMatched`). The means of the deltas divide by one more than the values
  of their sums, which can only lower them (`MeanOfMore`).
* *StatRace, ring* (`RingInv`): packets on their way, the one the batch thread
  has stamped and not sent, and the one the communication thread answers have
  ids of their own. That is all: the ring needs no lock.
* *StatRace, deltas* (`TotalsInv`, `RatesInv`): as long as there was no clash at
  most one thread is in the deltas, and its register holds what its last load
  read; in between, the packets of a delta are in its own count, or have been
  added to the sum and are about to be set to 0 (`Adding`), never both or none.
* *StreamFraming* (`FrameInv`): the loop only goes on where the next header has
  arrived (`OwnLength`): at the start of a round one byte suffices, and then the
  other three are there because no `recv` ends within a header; afterwards the
  last packet's length is left, which is no shorter than a header. A header cut
  by a reset stays so because nothing arrives any more (`CutIsClosed`).
* *Protocol* (`WholeInv`): a thread in `send` or about to unlock is the owner of
  the mutex, and the stream ends in a first part exactly while its owner is
  between the two.
* *StreamFraming, what is kept* (`KeptInv`): where the next header has arrived,
  the loop ends only with fewer bytes left than the last packet had; where
  packets got out of order a header was cut, and no whole packet has arrived
  behind it.
* *Protocol, pairing* (`PairInv`): the requests that call for an answer lie, by
  their numbers, one behind the other in `answers`, on the way to the controller
  or with the communication thread, in `inbox` and with the controller that is
  writing: three cuts divide the numbers among them (`Cuts`), and each part holds
  every number between its cuts once and in order (`Holds`). What the other
  senders put in between has no number.
* *OfdpRelay* (`RelayInv`): the cells of a line in force hold its ports, from
  both ends, and a cell that holds a port does so for a line in force. Since a
  port occurs in one line, the row of a switch holds it once.
* *PcapReader* (`WayInv`): the position reached is behind complete records only,
  and in a looped file behind records with data only, the first excepted;
  `LengthInOrder` and `LengthSwapped` are the arithmetic of byte orders, for all
  lengths below 65536.
* *IniFile*: `getkeystring` is a recursive function; that there is one
  (`ReadingExists`) and what its value is (`KnowsTheFile`) are inductions over the
  lines, by the smallest number of lines for which it fails (`SmallestOf`, from
  the library's `WFMin`). After every line the reader knows (`Knows`) that the
  section has not come, or where it began and that the key has not come since, or
  the line that ended the search and what it was.
* *SwitchSetup* (`SetupInv`): how far main, start thread and batch thread are
  relative to each other, and which settings each has made by then. `Timely`
  enters in the step that launches the threads. Every step is a step of
  `PcapReader` or leaves it alone (`SetupIsReader`), so that the theorems about
  the reader hold of the reader in its switch.
* *DebugLog* (`FileInv`, `StampInv`): the owner speaks behind its own set-up, so
  the flag and the file agree when it looks at them; a call of anybody else that
  is under way before the set-up is done, or that goes on to print into a file
  that is not there, was made early; an undisturbed call finds in `tvTimestamp`
  and `tmTime` what it put there. The set of writers is any set: no step of the
  proof counts them.
* *DebugLog, lines* (`LineInv`): file and buffer together hold the lines of each
  writer in the order of its calls, each below the number of the call under way
  unless that call has printed; a call about to flush has its line in one of the
  two.

Only model-checked: liveness (`SessionsEnd`, `AllProcessed`, `AllAnswered`,
`PacketsRecur`), for fairness and ENABLED are beyond the prover; and the four
properties of the findings, which do not hold. Two things the proofs do not
connect: the run `setup` starts `SwitchSetup` from chosen files (`MCInit`) and
the theorems from any (`InitAny`); and the theorems on `PacketTracking` take a
call as one step, which `StatRace` shows to be more than the code grants when
both threads are in the deltas at once.

## 6. Divergences noted

Facts met while modelling that are in the models as the code has them, and that
no run of its own records:

* `PACKET_received_count` is commented "RTT count too" (`config.hpp:119`) and
  `RTT_mean()` divides by it, but it also counts answers that found no stamp
  (`config.hpp:377`). `MeansInRange` therefore needs `clean`.
* `RTT_Ca()` divides by `RTT_mean()` (`config.hpp:263`), which is 0 when every
  answer counted found no stamp. `PacketTracking` reaches that after a reset: the
  answers to packets of the session before are counted, and add nothing to
  `RTT_sum`.
* main divides by `intAvailableSwitches` without a guard
  (`ofcbenchmark.cpp:497-503`); it is 0 when no switch was answered in the
  session.
* A delta without an answer has a mean round trip time of 0/0, which goes to the
  CSV file.
* `switch.hpp:542` keeps "half packets", but also whole ones shorter than the
  last packet processed (`packets.hpp:677`); `KeptIsShort` says when.
* After a connection reset the size -1 takes a byte from what was kept. Where
  that byte belonged to a bare header, the next round reads a length from stale
  bytes, a length of 0 for instance, with which `process_packet` is called.
* Replies carry a constant transaction id (`packets.hpp:252`, 231, 277), where
  `openflow.h:153` says "Replies use the same id as was in the request to
  facilitate pairing": the reply to a second request has the id 1, like the
  first. Only their order pairs them (`PairedByOrder`).
* A closed connection is not noticed: `recv` returns 0 and the loop spins
  (`switch.hpp:528`), the `break` is commented out.
* The OFDP packet-in always goes through switch 1 (`packets.hpp:566`), whichever
  switch the lookup returned; `send_packet_through_switch` could do better
  (`ofcbenchmark.cpp:28`).
* A pcap record without data ends the file, or starts a looped one over; what is
  behind it is never sent. A length of 65536 in the machine's own order is taken
  for 256 in the other. An `EPROTO` (71) in the place of a length makes the batch
  thread send what is left in its buffer.
* `BATCH_FROM_FILE` is found out by the start thread, the file opened seconds
  later, and the NULL of an `fopen` that failed is given to `fread`.
* `join_controller_batch_thread` joins nothing, and the program waits at its end
  for threads nothing stops.
* A line into a log between its flag and its `fopen` gives a NULL file to
  `fprintf`: main's "N E W   S E S S I O N", from which `delay_create` keeps it, or
  the report of a packet another switch sends through switch 1, from which
  nothing does but that switch 1 was created first.

## 7. Not modelled

* Mission control: `start_mission_control_thread` has no caller, and main's loop
  over its commands is commented out.
* The screen, and the log's HTML file, binary streams and packet dumps, which no
  switch switches on; the layout of the CSV files; main's walk over `vec_deltas`
  while they grow (undefined behaviour with no state to go on from).
* The exact time of a step of `PacketTracking`: it reads the clock once, where the
  code calls `timestamp(NULL)` for the stamp (`config.hpp:359`, `381`), in the loop
  of `ChangeDelta` (403) and twice in `reset_statistic` (200, 203). A packet
  stamped just before the end of a delta may in the code be counted in the next
  one, and `DeltasFollowClock` is about the calls that see one time.
* Records that overflow the reader's `packIn[9001]` (`mypcap.hpp:100-104`): of the
  lengths `pcap_read` accepts, up to 65535, those above about 8980 do, and what
  happens then is undefined. `PcapReader` assumes there are none of a length two
  bytes hold.
* The two reads of `tv_usec` in one call of `timestamp_str` (`debug.hpp:135`,
  `139`), which are one step of `DebugLog`.
* Packet layouts and the recognition of LLDP and OFDP packets: data.
* Floating-point division and square root. Of the conditions under which they are
  defined, those on the counts of answers and of deltas and on the variances are
  properties; the other two divisors are in section 6.
* A receive buffer that is full (`recv` with a room of 0 looks like a closed
  connection), and streams with packets shorter than a header, which no OpenFlow
  controller sends.
* Errors of thread creation and of `send`, and socket options.
* Writing ini files, which has no caller.
* The vendored OpenFlow headers and utilities, which keep no state of this
  program.
