----------------------------- MODULE PcapReader -----------------------------
(***************************************************************************)
(* The pcap file a switch takes its packets from (mypcap.hpp): opening it, *)
(* reading a record, starting over at its end.                             *)
(*                                                                         *)
(* A packet is the number of its record; what the record holds and what    *)
(* get_next_packet writes around it is left out.  A record fits the buffer *)
(* of 9001 bytes with its header.                                          *)
(***************************************************************************)
EXTENDS Integers, Sequences

VARIABLES
    records,     \* the file: lengths of its records, and whether all of each is there
    swapped,     \* ... written in the other byte order
    onDisk,      \* "good", "notPcap" or "missing"
    file,        \* _file_: "none" before the constructor, "open" or "NULL"
    loop_file,   \* _loop_file_
    pos,         \* the record to be read next
    lost,        \* a length was misread: pos means nothing
    last,        \* the packet of the last round: a record, 0 for none, or Garbage
    crashed      \* fread() was called with a NULL file

content == <<records, swapped, onDisk>>
reader == <<file, loop_file, pos, lost, last, crashed>>

Garbage == -2
EOF == -1
EPROTO == 71

-----------------------------------------------------------------------------
(* incl_len: four bytes, in the order of the machine that wrote the file.     *)
Byte == 0..255
Word == [1..4 -> Byte]
Value(w) == w[1] + 256 * w[2] + 65536 * w[3] + 16777216 * w[4]
Swap(w) == [i \in 1..4 |-> w[5 - i]]

\* The bytes of n, lowest first.
BytesOf(n) == [i \in 1..4 |-> CASE i = 1 -> n % 256
                                [] i = 2 -> (n \div 256) % 256
                                [] i = 3 -> (n \div 65536) % 256
                                [] i = 4 -> n \div 16777216]

\* Mutant: the length is read as it stands.
LengthUnswapped(w) == IF Value(w) > 65535 THEN EPROTO ELSE Value(w)

Length(w) ==
    IF Value(w) <= 65535 THEN Value(w)
    ELSE IF Value(Swap(w)) <= 65535 THEN Value(Swap(w))
    ELSE EPROTO

\* What pcap_read() makes of the length of record r.
LengthRead(r) == Length(IF swapped THEN Swap(BytesOf(r.len)) ELSE BytesOf(r.len))

Misread(r) == LengthRead(r) # r.len

-----------------------------------------------------------------------------
(* pcap_open(): a file that cannot be opened, or whose magic number is wrong, *)
(* is NULL, which the constructor and get_next_packet only report.            *)
PcapOpen == IF onDisk = "good" THEN "open" ELSE "NULL"

Open(loop) ==
    /\ file = "none"
    /\ file' = PcapOpen
    /\ loop_file' = loop
    /\ pos' = 1 /\ lost' = FALSE
    /\ UNCHANGED <<content, last, crashed>>

(* pcap_read() at position p: what it gets and where it leaves the file.  A   *)
(* length of 0 reads no object and is taken for the end of the file, as is a  *)
(* record that the file does not hold all of.  Behind a misread length the    *)
(* reader takes whatever follows for a record; of a record that is not all    *)
(* there, enough may be there for its length to be misread.                   *)
AtEnd(p) == p > Len(records)

NoData(p) == AtEnd(p) \/ ~records[p].complete \/ records[p].len = 0

MayMisread(p) == ~AtEnd(p) /\ Misread(records[p])

Behind(p) ==
    IF AtEnd(p) THEN p ELSE IF records[p].complete THEN p + 1 ELSE Len(records) + 1

Reads(p, isLost) ==
    LET misread == [got |-> Garbage, pos |-> p + 1, lost |-> TRUE]
    IN  IF isLost THEN {[got |-> g, pos |-> p, lost |-> TRUE] : g \in {EOF, Garbage}}
        ELSE IF NoData(p)
          THEN {[got |-> EOF, pos |-> Behind(p), lost |-> FALSE]}
                 \cup (IF MayMisread(p) THEN {misread} ELSE {})
          ELSE {IF MayMisread(p) THEN misread ELSE [got |-> p, pos |-> p + 1, lost |-> FALSE]}

\* Without a packet ret_size is negative, and nothing is sent.
HandOver(o) ==
    /\ last' = IF o.got = EOF THEN 0 ELSE o.got
    /\ pos' = o.pos /\ lost' = o.lost
    /\ UNCHANGED <<file, crashed>>

Crash == crashed' = TRUE /\ UNCHANGED <<file, pos, lost, last>>

(* get_next_packet(): at the end of a looped file it is opened again, and its *)
(* first record is read.                                                      *)
\* Mutant: the file goes on behind the last record, it is not opened again.
NextPacketOnce ==
    /\ file # "none" /\ ~crashed
    /\ IF file = "NULL" THEN Crash ELSE \E o \in Reads(pos, lost) : HandOver(o)
    /\ UNCHANGED <<content, loop_file>>

\* Mutant: the record that ended the file is skipped, too.
NextPacketSkipping ==
    /\ file # "none" /\ ~crashed
    /\ IF file = "NULL" THEN Crash
       ELSE \E o \in Reads(pos, lost) :
              IF o.got = EOF /\ loop_file
                THEN \E again \in Reads(2, FALSE) : HandOver(again)
                ELSE HandOver(o)
    /\ UNCHANGED <<content, loop_file>>

NextPacket ==
    /\ file # "none" /\ ~crashed
    /\ IF file = "NULL"
         THEN Crash
         ELSE \E o \in Reads(pos, lost) :
                IF o.got # EOF \/ ~loop_file THEN HandOver(o)
                ELSE IF PcapOpen = "NULL" THEN Crash
                ELSE \E again \in Reads(1, FALSE) : HandOver(again)
    /\ UNCHANGED <<content, loop_file>>

(* Somebody removes the file, or writes another one in its place.             *)
Replace ==
    /\ onDisk = "good" /\ onDisk' \in {"notPcap", "missing"}
    /\ UNCHANGED <<records, swapped, reader>>

-----------------------------------------------------------------------------
Record == [len : Nat, complete : BOOLEAN]

InitReader ==
    /\ file = "none" /\ loop_file = FALSE
    /\ pos = 1 /\ lost = FALSE
    /\ last = 0
    /\ crashed = FALSE

Init ==
    /\ records \in Seq(Record) /\ swapped \in BOOLEAN
    /\ onDisk \in {"good", "notPcap", "missing"}
    /\ InitReader

Next == (\E loop \in BOOLEAN : Open(loop)) \/ NextPacket \/ Replace

Spec == Init /\ [][Next]_<<content, reader>>

-----------------------------------------------------------------------------
(* Types of all variables of the reader.                                     *)
ReaderTypeOK ==
    /\ file \in {"none", "open", "NULL"} /\ loop_file \in BOOLEAN
    /\ pos \in Nat \ {0} /\ lost \in BOOLEAN
    /\ last \in {Garbage, 0} \cup DOMAIN records
    /\ crashed \in BOOLEAN

(* A record of up to 65535 bytes is read in its length, whichever machine    *)
(* wrote the file, so the reader is out of step only in a file with a longer *)
(* one, and sends nothing but records of the file as long as it is not.      *)
InStepUnlessTooLong ==
    lost \/ last = Garbage => \E i \in DOMAIN records : records[i].len > 65535

(* What get_next_packet hands over is what PcapSource promises.              *)
Source == INSTANCE PcapSource WITH
    loop <- loop_file, opened <- file # "none", next <- pos

ImplementsSource == Source!Spec
=============================================================================
