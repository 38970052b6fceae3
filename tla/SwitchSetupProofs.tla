------------------------- MODULE SwitchSetupProofs -------------------------
(***************************************************************************)
(* Theorems about PcapReader for every file: the length of a record is     *)
(* read right in either byte order, types, that the reader is out of step  *)
(* only in a file with a record that is too long, and that what it hands   *)
(* over is what PcapSource promises.                                       *)
(*                                                                         *)
(* Then about IniFile and SwitchSetup, for every config.ini: a setting is  *)
(* what the file says of its key, what a thread uses is set by then, and   *)
(* the reader in its switch is the reader above.                           *)
(***************************************************************************)
EXTENDS SwitchSetup, WellFoundedInduction, TLAPS

-----------------------------------------------------------------------------
(* Lengths.                                                                  *)

LEMMA TwoBytes ==
    ASSUME NEW n \in Nat, n < 65536
    PROVE  /\ n % 256 \in Nat /\ n % 256 < 256 /\ n \div 256 \in Nat /\ n \div 256 < 256
           /\ n = (n % 256) + 256 * (n \div 256)
           /\ (n \div 256) % 256 = n \div 256
           /\ (n \div 65536) % 256 = 0 /\ n \div 16777216 = 0
OBVIOUS

LEMMA BytesOfShort ==
    ASSUME NEW n \in Nat, n < 65536
    PROVE  \E lo, hi \in Nat :
             /\ n = lo + 256 * hi
             /\ BytesOf(n) = [i \in 1..4 |-> IF i = 1 THEN lo ELSE IF i = 2 THEN hi ELSE 0]
<1> DEFINE lo == n % 256
           hi == n \div 256
<1>1. \A i \in 1..4 : BytesOf(n)[i] = IF i = 1 THEN lo ELSE IF i = 2 THEN hi ELSE 0
  BY TwoBytes DEF BytesOf
<1>2. BytesOf(n) = [i \in 1..4 |-> BytesOf(n)[i]]
  BY DEF BytesOf
<1>3. lo \in Nat /\ hi \in Nat /\ n = lo + 256 * hi
  BY TwoBytes
<1> HIDE DEF lo, hi
<1> QED
  BY <1>1, <1>2, <1>3

\* A length of up to two bytes is read right in the order of this machine ...
LEMMA LengthInOrder ==
    ASSUME NEW n \in Nat, n < 65536
    PROVE  Length(BytesOf(n)) = n
<1>1. PICK lo, hi \in Nat :
        /\ n = lo + 256 * hi
        /\ BytesOf(n) = [i \in 1..4 |-> IF i = 1 THEN lo ELSE IF i = 2 THEN hi ELSE 0]
  BY BytesOfShort
<1>2. Value(BytesOf(n)) = n
  BY <1>1 DEF Value
<1> QED
  BY <1>2 DEF Length

\* ... and in the other one, since only 0 is the same number both ways.
LEMMA LengthSwapped ==
    ASSUME NEW n \in Nat, n < 65536
    PROVE  Length(Swap(BytesOf(n))) = n
<1>1. PICK lo, hi \in Nat :
        /\ n = lo + 256 * hi
        /\ BytesOf(n) = [i \in 1..4 |-> IF i = 1 THEN lo ELSE IF i = 2 THEN hi ELSE 0]
  BY BytesOfShort
<1> DEFINE w == BytesOf(n)
<1>2. w[1] = lo /\ w[2] = hi /\ w[3] = 0 /\ w[4] = 0
  BY <1>1
<1>3. Swap(w)[1] = w[4] /\ Swap(w)[2] = w[3] /\ Swap(w)[3] = w[2] /\ Swap(w)[4] = w[1]
  BY DEF Swap
<1>4. /\ Swap(Swap(w))[1] = w[1] /\ Swap(Swap(w))[2] = w[2]
      /\ Swap(Swap(w))[3] = w[3] /\ Swap(Swap(w))[4] = w[4]
  BY DEF Swap
<1> HIDE DEF w
<1>5. Value(Swap(w)) = 65536 * hi + 16777216 * lo
  BY <1>2, <1>3 DEF Value
<1>6. Value(Swap(Swap(w))) = n
  BY <1>1, <1>2, <1>4 DEF Value
<1>7. Value(Swap(w)) <= 65535 => Value(Swap(w)) = n
  BY <1>1, <1>5
<1> QED
  BY <1>6, <1>7 DEF Length, w

LEMMA SoundIsRead ==
    ASSUME NEW r \in Record, r.len <= 65535
    PROVE  ~Misread(r)
<1>1. r.len \in Nat /\ r.len < 65536
  BY DEF Record
<1> QED
  BY <1>1, LengthInOrder, LengthSwapped DEF Misread, LengthRead

-----------------------------------------------------------------------------
TypeInv == records \in Seq(Record) /\ ReaderTypeOK

\* The reader is lost only in a file that promises nothing.
LostInv == InStepUnlessTooLong

\* Behind position p are whole records, and, when the file is looped, none but
\* the first without data.
Reached(p) ==
    /\ p <= Len(records) + 1
    /\ AtEnd(p) \/ /\ \A j \in 1..(p - 1) : records[j].complete
                   /\ loop_file => \A j \in 2..(p - 1) : records[j].len > 0

WayInv ==
    /\ file = "none" => pos = 1 /\ last = 0
    /\ ~lost => Reached(pos)

Inv == TypeInv /\ LostInv /\ WayInv

\* A read of a reader that is not lost.
InStepReads(p) == Reads(p, FALSE)

LEMMA ReadsInStep ==
    ASSUME TypeInv, NEW p \in Nat \ {0}, NEW o \in InStepReads(p)
    PROVE  /\ \/ NoData(p) /\ o.got = EOF /\ o.pos = Behind(p) /\ ~o.lost
              \/ ~NoData(p) /\ o.got = p /\ o.pos = p + 1 /\ ~o.lost
              \/ /\ ~AtEnd(p) /\ records[p].len > 65535
                 /\ o.got = Garbage /\ o.pos = p + 1 /\ o.lost
           /\ o.lost \in BOOLEAN
<1> DEFINE misread == [got |-> Garbage, pos |-> p + 1, lost |-> TRUE]
           nothing == [got |-> EOF, pos |-> Behind(p), lost |-> FALSE]
           packet == [got |-> p, pos |-> p + 1, lost |-> FALSE]
<1>1. \/ NoData(p) /\ o = nothing
      \/ ~NoData(p) /\ o = packet
      \/ MayMisread(p) /\ o = misread
  BY DEF InStepReads, Reads
<1>2. CASE NoData(p) /\ o = nothing
  BY <1>2
<1>3. CASE ~NoData(p) /\ o = packet
  BY <1>3
<1>4. CASE MayMisread(p) /\ o = misread
  <2>1. ~AtEnd(p) /\ records[p] \in Record
    BY <1>4 DEF MayMisread, AtEnd, TypeInv
  <2>2. records[p].len > 65535
    BY <1>4, <2>1, SoundIsRead DEF MayMisread, Record
  <2> QED
    BY <1>4, <2>1, <2>2
<1> QED
  BY <1>1, <1>2, <1>3, <1>4

LEMMA ReadsLost ==
    ASSUME NEW p, NEW o \in Reads(p, TRUE)
    PROVE  o.got \in {EOF, Garbage} /\ o.pos = p /\ o.lost
BY DEF Reads

LEMMA BehindIsThere ==
    ASSUME TypeInv, NEW p \in Nat \ {0}
    PROVE  /\ Behind(p) \in Nat \ {0}
           /\ p <= Len(records) + 1 => Behind(p) <= Len(records) + 1 /\ Behind(p) >= p
BY DEF TypeInv, Behind, AtEnd

LEMMA RecordsHeld ==
    ASSUME TypeInv, NEW p \in Nat \ {0}, ~AtEnd(p)
    PROVE  p \in DOMAIN records /\ records[p] \in Record /\ p <= Len(records)
BY DEF TypeInv, AtEnd

LEMMA FirstReached == ASSUME TypeInv PROVE Reached(1)
BY DEF Reached, AtEnd, TypeInv

LEMMA InvInit == Init => Inv
<1> SUFFICES ASSUME Init PROVE Inv
  OBVIOUS
<1>1. /\ records \in Seq(Record) /\ file = "none" /\ loop_file = FALSE /\ pos = 1
      /\ lost = FALSE /\ last = 0 /\ crashed = FALSE
  BY DEF Init, InitReader
<1>2. TypeInv
  <2>1. loop_file \in BOOLEAN /\ lost \in BOOLEAN /\ crashed \in BOOLEAN
    BY <1>1
  <2>2. pos \in Nat \ {0} /\ last \in {Garbage, 0} \cup DOMAIN records
    BY <1>1
  <2> QED
    BY <1>1, <2>1, <2>2 DEF TypeInv, ReaderTypeOK
<1>3. LostInv
  BY <1>1 DEF LostInv, InStepUnlessTooLong, Garbage
<1>4. WayInv
  BY <1>1, FirstReached, <1>2 DEF WayInv
<1> QED
  BY <1>2, <1>3, <1>4 DEF Inv

\* One read in step, handed over: in a looped file it is the first record, or
\* one with data.
LEMMA HandOverKeeps ==
    ASSUME TypeInv, file # "none", NEW p \in Nat \ {0}, Reached(p),
           NEW o \in InStepReads(p), loop_file /\ o.got = EOF => p = 1,
           HandOver(o), UNCHANGED <<records, loop_file>>
    PROVE  Inv'
<1>1. /\ last' = IF o.got = EOF THEN 0 ELSE o.got
      /\ pos' = o.pos /\ lost' = o.lost /\ UNCHANGED <<file, crashed>>
  BY DEF HandOver
<1> DEFINE lastOK == last' = 0 \/ last' = Garbage \/ last' \in DOMAIN records
<1>0. ASSUME lastOK, pos' \in Nat \ {0}
      PROVE  TypeInv'
  <2>1. lost' \in BOOLEAN
    BY <1>1, ReadsInStep
  <2> QED
    BY <1>0, <1>1, <2>1 DEF TypeInv, ReaderTypeOK
<1>2. CASE NoData(p) /\ o.got = EOF /\ o.pos = Behind(p) /\ ~o.lost
  <2>1. last' = 0 /\ ~lost' /\ pos' = Behind(p)
    BY <1>1, <1>2
  <2>2. Reached(pos)'
    <3>1. CASE AtEnd(p)
      BY <2>1, <3>1 DEF Behind, Reached, AtEnd
    <3>2. CASE ~AtEnd(p) /\ records[p].complete
      <4>1. pos' = p + 1 /\ p <= Len(records) /\ Len(records) \in Nat
        BY <2>1, <3>2, RecordsHeld DEF Behind, TypeInv
      <4>2. \A j \in 1..p : records[j].complete
        BY <3>2 DEF Reached
      <4>3. loop_file => \A j \in 2..p : records[j].len > 0
        BY <1>2
      <4> QED
        BY <4>1, <4>2, <4>3 DEF Reached
    <3>3. CASE ~AtEnd(p) /\ ~records[p].complete
      <4>1. pos' = Len(records) + 1 /\ Len(records) \in Nat
        BY <2>1, <3>3 DEF Behind, TypeInv
      <4> QED
        BY <4>1 DEF Reached, AtEnd
    <3> QED
      BY <3>1, <3>2, <3>3
  <2>3. pos' \in Nat \ {0}
    BY <2>1, BehindIsThere
  <2>4. LostInv'
    BY <2>1 DEF LostInv, InStepUnlessTooLong, Garbage
  <2>5. WayInv'
    BY <1>1, <2>2 DEF WayInv
  <2> QED
    BY <1>0, <2>1, <2>3, <2>4, <2>5 DEF Inv
<1>3. CASE ~NoData(p) /\ o.got = p /\ o.pos = p + 1 /\ ~o.lost
  <2>1. /\ p \in DOMAIN records /\ records[p] \in Record /\ p <= Len(records)
        /\ records[p].complete /\ records[p].len > 0 /\ Len(records) \in Nat
    BY <1>3, RecordsHeld DEF NoData, Record, TypeInv
  <2>2. last' = p /\ ~lost' /\ pos' = p + 1 /\ p # Garbage
    BY <1>1, <1>3 DEF EOF, Garbage
  <2>3. Reached(pos)'
    <3>1. \A j \in 1..p : records[j].complete
      BY <2>1 DEF Reached, AtEnd
    <3>2. loop_file => \A j \in 2..p : records[j].len > 0
      BY <2>1 DEF Reached, AtEnd
    <3> QED
      BY <2>1, <2>2, <3>1, <3>2 DEF Reached
  <2>4. LostInv'
    BY <2>2 DEF LostInv, InStepUnlessTooLong
  <2>5. WayInv'
    BY <1>1, <2>3 DEF WayInv
  <2>6. pos' \in Nat \ {0}
    BY <2>2
  <2> QED
    BY <1>0, <2>1, <2>2, <2>4, <2>5, <2>6 DEF Inv
<1>4. CASE /\ ~AtEnd(p) /\ records[p].len > 65535
           /\ o.got = Garbage /\ o.pos = p + 1 /\ o.lost
  <2>1. p \in DOMAIN records
    BY <1>4, RecordsHeld
  <2>2. last' = Garbage /\ lost' /\ pos' = p + 1
    BY <1>1, <1>4 DEF EOF, Garbage
  <2>3. LostInv'
    BY <1>4, <2>1 DEF LostInv, InStepUnlessTooLong
  <2>4. WayInv'
    BY <1>1, <2>2 DEF WayInv
  <2>5. pos' \in Nat \ {0}
    BY <2>2
  <2> QED
    BY <1>0, <2>2, <2>3, <2>4, <2>5 DEF Inv
<1>5. \/ NoData(p) /\ o.got = EOF /\ o.pos = Behind(p) /\ ~o.lost
      \/ ~NoData(p) /\ o.got = p /\ o.pos = p + 1 /\ ~o.lost
      \/ /\ ~AtEnd(p) /\ records[p].len > 65535
         /\ o.got = Garbage /\ o.pos = p + 1 /\ o.lost
  BY ReadsInStep
<1> QED
  BY <1>2, <1>3, <1>4, <1>5

LEMMA InvStep == Inv /\ [Next]_<<content, reader>> => Inv'
<1> SUFFICES ASSUME Inv, [Next]_<<content, reader>> PROVE Inv'
  OBVIOUS
<1>1. CASE UNCHANGED <<content, reader>> \/ Replace
  <2>1. UNCHANGED <<records, reader>>
    BY <1>1 DEF Replace, content
  <2> QED
    BY <2>1 DEF reader, Inv, TypeInv, ReaderTypeOK, LostInv, InStepUnlessTooLong,
       WayInv, Reached, AtEnd
<1>2. ASSUME NEW loop \in BOOLEAN, Open(loop)
      PROVE  Inv'
  <2>1. /\ file' = PcapOpen /\ PcapOpen \in {"open", "NULL"} /\ loop_file' \in BOOLEAN
        /\ pos' = 1 /\ lost' = FALSE /\ UNCHANGED <<records, last, crashed>>
    BY <1>2 DEF Open, PcapOpen, content
  <2>2. last' = 0
    BY <1>2, <2>1 DEF Open, Inv, WayInv
  <2>3. Reached(pos)'
    BY <2>1 DEF Reached, AtEnd, Inv, TypeInv
  <2>4. lost' \in BOOLEAN
    BY <2>1
  <2> QED
    BY <2>1, <2>2, <2>3, <2>4 DEF Inv, TypeInv, ReaderTypeOK, LostInv, InStepUnlessTooLong,
       WayInv, Garbage
<1>3. CASE NextPacket
  <2>1. UNCHANGED <<records, loop_file>> /\ file # "none" /\ TypeInv
    BY <1>3 DEF NextPacket, content, Inv
  <2>2. CASE Crash
    <3>1. crashed' \in BOOLEAN
      BY <2>2 DEF Crash
    <3> QED
      BY <2>1, <2>2, <3>1 DEF Crash, Inv, TypeInv, ReaderTypeOK, LostInv, InStepUnlessTooLong,
         WayInv, Reached, AtEnd
  <2>3. ASSUME NEW o \in Reads(pos, lost), o.got # EOF \/ ~loop_file, HandOver(o)
        PROVE  Inv'
    <3>1. CASE lost
      <4>1. /\ o \in Reads(pos, TRUE) /\ lost \in BOOLEAN
        BY <3>1 DEF Inv, TypeInv, ReaderTypeOK
      <4>2. o.got \in {EOF, Garbage} /\ o.pos = pos /\ o.lost
        BY <4>1, ReadsLost
      <4>3. last' \in {0, Garbage} /\ pos' = pos /\ lost' = lost /\ UNCHANGED <<file, crashed>>
        BY <2>3, <3>1, <4>1, <4>2 DEF HandOver, Reads
      <4> QED
        BY <2>1, <3>1, <4>3 DEF Inv, TypeInv, ReaderTypeOK, LostInv, InStepUnlessTooLong, WayInv
    <3>2. CASE ~lost
      <4>1. o \in InStepReads(pos) /\ Reached(pos) /\ pos \in Nat \ {0}
        BY <3>2 DEF Inv, TypeInv, ReaderTypeOK, WayInv, Reads, InStepReads
      <4> QED
        BY <2>1, <2>3, <4>1, HandOverKeeps
    <3> QED
      BY <3>1, <3>2
  <2>4. ASSUME NEW again \in InStepReads(1), HandOver(again)
        PROVE  Inv'
    <3>1. 1 \in Nat \ {0} /\ Reached(1)
      BY <2>1, FirstReached
    <3> QED
      BY <2>1, <2>4, <3>1, HandOverKeeps
  <2> QED
    BY <1>3, <2>2, <2>3, <2>4 DEF NextPacket, InStepReads
<1> QED
  BY <1>1, <1>2, <1>3 DEF Next

LEMMA InvAlways == Spec => []Inv
BY InvInit, InvStep, PTL DEF Spec

(* Types of all variables of the reader, whatever file it reads.             *)
THEOREM ReaderTypeCorrect == Spec => []ReaderTypeOK
<1>1. Inv => ReaderTypeOK
  BY DEF Inv, TypeInv
<1> QED
  BY <1>1, InvAlways, PTL

(* The reader is out of step, or sends what is no record, only in a file     *)
(* with a record of more than 65535 bytes; neither the byte order nor the    *)
(* end of the file, a cut record or an empty one gets it there.              *)
THEOREM ReaderInStep == Spec => []InStepUnlessTooLong
<1>1. Inv => InStepUnlessTooLong
  BY DEF Inv, LostInv
<1> QED
  BY <1>1, InvAlways, PTL

-----------------------------------------------------------------------------
(* The refinement.                                                           *)
LEMMA DataIsUsable ==
    ASSUME TypeInv, NEW p \in Nat \ {0}, Reached(p), ~NoData(p)
    PROVE  Source!Usable(p)
<1>1. /\ p \in DOMAIN records /\ records[p] \in Record /\ p <= Len(records)
      /\ records[p].complete /\ records[p].len > 0 /\ Len(records) \in Nat
  BY RecordsHeld DEF NoData, Record, TypeInv
<1>2. \A j \in 1..p : records[j].complete
  BY <1>1 DEF Reached, AtEnd
<1>3. loop_file => \A j \in 2..p : records[j].len > 0
  BY <1>1 DEF Reached, AtEnd
<1> QED
  BY <1>1, <1>2, <1>3 DEF Source!Usable, Source!HasData

LEMMA NoDataIsNotUsable ==
    ASSUME TypeInv, NEW p \in Nat \ {0}, NoData(p)
    PROVE  /\ ~Source!Usable(p)
           /\ AtEnd(p) \/ ~records[p].complete => \A j \in Nat : j >= p => ~Source!Usable(j)
           /\ loop_file /\ p >= 2 => \A j \in Nat : j >= p => ~Source!Usable(j)
<1>1. Len(records) \in Nat /\ DOMAIN records = 1..Len(records)
  BY DEF TypeInv
<1> QED
  BY <1>1 DEF NoData, AtEnd, Source!Usable, Source!HasData

LEMMA LostMayDoAnything ==
    ASSUME Inv, lost \/ \E i \in DOMAIN records : records[i].len > 65535,
           file # "none", UNCHANGED <<records, loop_file, file>>
    PROVE  Source!Next
<1>1. PICK i \in DOMAIN records : records[i].len > 65535
  BY DEF Inv, LostInv, InStepUnlessTooLong
<1>2. records[i].len \in Nat
  <2>1. records[i] \in Record
    BY DEF Inv, TypeInv
  <2> QED
    BY <2>1 DEF Record
<1>3. ~Source!WellFormed
  BY <1>1, <1>2 DEF Source!WellFormed, Source!Sound
<1> QED
  BY <1>3 DEF Source!Next, Source!Anything

\* A read in step that is handed over: a delivery, a pause or anything.
LEMMA HandOverRefines ==
    ASSUME Inv, ~lost, file # "none", UNCHANGED <<records, loop_file>>,
           NEW o \in InStepReads(pos), o.got # EOF \/ ~loop_file, HandOver(o)
    PROVE  Source!Next
<1>1. TypeInv /\ Reached(pos) /\ pos \in Nat \ {0} /\ UNCHANGED file
  BY DEF Inv, TypeInv, ReaderTypeOK, WayInv, HandOver
<1>2. CASE NoData(pos) /\ o.got = EOF /\ o.pos = Behind(pos)
  <2>1. last' = 0 /\ pos' = Behind(pos)
    BY <1>2 DEF HandOver
  <2>2. pos' \in Nat /\ pos' >= pos
    BY <1>1, <2>1, BehindIsThere DEF Reached
  <2>3. \A j \in pos..(pos' - 1) : ~Source!Usable(j)
    <3>1. CASE AtEnd(pos) \/ ~records[pos].complete
      BY <1>1, <1>2, <2>2, <3>1, NoDataIsNotUsable
    <3>2. CASE ~AtEnd(pos) /\ records[pos].complete
      <4>1. pos' - 1 = pos
        BY <1>1, <2>1, <3>2 DEF Behind
      <4> QED
        BY <1>1, <1>2, <4>1, NoDataIsNotUsable
    <3> QED
      BY <3>1, <3>2
  <2> QED
    BY <1>1, <2>1, <2>2, <2>3 DEF Source!Next, Source!Pause
<1>3. CASE ~NoData(pos) /\ o.got = pos /\ o.pos = pos + 1
  <2>1. last' = pos /\ pos' = pos + 1
    BY <1>1, <1>3 DEF HandOver, EOF
  <2>2. Source!Usable(pos) /\ pos \in DOMAIN records
    BY <1>1, <1>3, DataIsUsable, RecordsHeld DEF NoData
  <2>3. Source!Following(pos, pos)
    BY <1>1, <2>2 DEF Source!Following
  <2>4. Source!Deliver(pos)
    BY <1>1, <2>1, <2>3 DEF Source!Deliver
  <2> QED
    BY <2>2, <2>4 DEF Source!Next
<1>4. CASE ~AtEnd(pos) /\ records[pos].len > 65535
  <2>1. pos \in DOMAIN records
    BY <1>1, <1>4, RecordsHeld
  <2> QED
    BY <1>1, <1>4, <2>1, LostMayDoAnything
<1>5. \/ NoData(pos) /\ o.got = EOF /\ o.pos = Behind(pos)
      \/ ~NoData(pos) /\ o.got = pos /\ o.pos = pos + 1
      \/ ~AtEnd(pos) /\ records[pos].len > 65535
  BY <1>1, ReadsInStep
<1> QED
  BY <1>2, <1>3, <1>4, <1>5

\* ... and the same when the end of a looped file was met before.
LEMMA StartOverRefines ==
    ASSUME Inv, ~lost, file # "none", UNCHANGED <<records, loop_file>>, loop_file,
           NoData(pos), NEW o \in InStepReads(1), HandOver(o)
    PROVE  Source!Next
<1>1. /\ TypeInv /\ Reached(pos) /\ pos \in Nat \ {0} /\ UNCHANGED file
      /\ 1 \in Nat \ {0} /\ Reached(1)
  BY FirstReached DEF Inv, TypeInv, ReaderTypeOK, WayInv, HandOver
<1>0. ASSUME ~AtEnd(1), records[1].len > 65535
      PROVE  Source!Next
  <2>1. 1 \in DOMAIN records
    BY <1>0, <1>1, RecordsHeld
  <2> QED
    BY <1>0, <1>1, <2>1, LostMayDoAnything
<1>2. CASE pos = 1 /\ o.got = EOF
  <2>1. o.got = EOF /\ o.pos = Behind(1)
    BY <1>1, <1>2, ReadsInStep DEF Garbage, EOF
  <2>2. last' = 0 /\ pos' = Behind(pos)
    BY <1>2, <2>1 DEF HandOver
  <2>3. pos' \in Nat /\ pos' >= pos
    BY <1>1, <2>2, BehindIsThere DEF Reached
  <2>4. \A j \in pos..(pos' - 1) : ~Source!Usable(j)
    <3>1. CASE AtEnd(pos) \/ ~records[pos].complete
      BY <1>1, <2>3, <3>1, NoDataIsNotUsable
    <3>2. CASE ~AtEnd(pos) /\ records[pos].complete
      <4>1. pos' - 1 = pos
        BY <1>1, <2>2, <3>2 DEF Behind
      <4> QED
        BY <1>1, <4>1, NoDataIsNotUsable
    <3> QED
      BY <3>1, <3>2
  <2> QED
    BY <1>1, <2>2, <2>3, <2>4 DEF Source!Next, Source!Pause
<1>3. CASE pos >= 2
  <2>1. \A j \in Nat : j >= pos => ~Source!Usable(j)
    BY <1>1, <1>3, NoDataIsNotUsable
  <2>2. Source!Over
    BY <1>1, <2>1 DEF Source!Over, TypeInv
  <2>3. Len(records) \in Nat /\ ~AtEnd(1) /\ pos <= Len(records) + 1
    BY <1>1, <1>3 DEF TypeInv, Reached, AtEnd
  <2>4. CASE NoData(1) /\ o.got = EOF /\ o.pos = Behind(1)
    <3>1. last' = 0 /\ pos' = Behind(1)
      BY <2>4 DEF HandOver
    <3>2. ~Source!Usable(1)
      BY <1>1, <2>4, NoDataIsNotUsable
    <3>3. CASE records[1].complete
      <4>1. pos' = 2
        BY <2>3, <3>1, <3>3 DEF Behind
      <4> QED
        BY <1>1, <2>2, <3>1, <3>2, <4>1 DEF Source!Next, Source!Pause
    <3>4. CASE ~records[1].complete
      <4>1. pos' = Len(records) + 1
        BY <2>3, <3>1, <3>4 DEF Behind
      <4>2. pos' >= pos /\ \A j \in pos..(pos' - 1) : ~Source!Usable(j)
        BY <1>1, <2>1, <2>3, <4>1
      <4> QED
        BY <1>1, <3>1, <4>2 DEF Source!Next, Source!Pause
    <3> QED
      BY <3>3, <3>4
  <2>5. CASE ~NoData(1) /\ o.got = 1 /\ o.pos = 2
    <3>1. last' = 1 /\ pos' = 1 + 1
      BY <2>5 DEF HandOver, EOF
    <3>2. Source!Usable(1) /\ 1 \in DOMAIN records
      BY <1>1, <2>5, DataIsUsable, RecordsHeld DEF NoData
    <3>3. Source!Following(1, 1)
      BY <3>2 DEF Source!Following
    <3>4. Source!Deliver(1)
      BY <1>1, <2>2, <3>1, <3>3 DEF Source!Deliver
    <3> QED
      BY <3>2, <3>4 DEF Source!Next
  <2>6. CASE ~AtEnd(1) /\ records[1].len > 65535
    BY <1>0, <2>6
  <2>7. \/ NoData(1) /\ o.got = EOF /\ o.pos = Behind(1)
        \/ ~NoData(1) /\ o.got = 1 /\ o.pos = 2
        \/ ~AtEnd(1) /\ records[1].len > 65535
    BY <1>1, ReadsInStep
  <2> QED
    BY <2>4, <2>5, <2>6, <2>7
<1>4. CASE pos = 1 /\ o.got # EOF
  <2>1. ~AtEnd(1) /\ records[1].len > 65535
    BY <1>1, <1>4, ReadsInStep
  <2> QED
    BY <1>0, <2>1
<1> QED
  BY <1>1, <1>2, <1>3, <1>4

LEMMA SourceStep == Inv /\ [Next]_<<content, reader>> => [Source!Next]_(Source!vars)
<1> SUFFICES ASSUME Inv, [Next]_<<content, reader>> PROVE [Source!Next]_(Source!vars)
  OBVIOUS
<1>1. ASSUME UNCHANGED <<records, loop_file, file, pos, last>>
      PROVE  UNCHANGED Source!vars
  BY <1>1 DEF Source!vars
<1>2. CASE UNCHANGED <<content, reader>> \/ Replace
  BY <1>1, <1>2 DEF Replace, content, reader
<1>3. ASSUME NEW loop \in BOOLEAN, Open(loop)
      PROVE  Source!Next
  <2>1. pos' = 1 /\ last' = last /\ pos = 1
    BY <1>3 DEF Open, Inv, WayInv
  <2> QED
    BY <1>3, <2>1 DEF Open, PcapOpen, content, Source!Next, Source!Open
<1>4. CASE NextPacket
  <2>1. UNCHANGED <<records, loop_file>> /\ file # "none"
    BY <1>4 DEF NextPacket, content
  <2>2. CASE Crash
    BY <1>1, <2>1, <2>2 DEF Crash
  <2>3. ASSUME lost, UNCHANGED file
        PROVE  Source!Next
    BY <2>1, <2>3, LostMayDoAnything
  <2>4. ASSUME NEW o \in Reads(pos, lost), o.got # EOF \/ ~loop_file, HandOver(o)
        PROVE  Source!Next
    <3>1. CASE ~lost
      <4>1. o \in InStepReads(pos)
        BY <2>4, <3>1 DEF InStepReads, Reads
      <4> QED
        BY <2>1, <2>4, <3>1, <4>1, HandOverRefines
    <3> QED
      BY <2>3, <2>4, <3>1 DEF HandOver
  <2>5. ASSUME NEW o \in Reads(pos, lost), o.got = EOF, loop_file,
               NEW again \in InStepReads(1), HandOver(again)
        PROVE  Source!Next
    <3>1. CASE ~lost
      <4>1. o \in InStepReads(pos) /\ TypeInv /\ pos \in Nat \ {0}
        BY <2>5, <3>1 DEF InStepReads, Reads, Inv, TypeInv, ReaderTypeOK
      <4>2. NoData(pos)
        <5>1. o.got # pos /\ o.got # Garbage
          BY <2>5, <4>1 DEF EOF, Garbage
        <5> QED
          BY <4>1, <5>1, ReadsInStep
      <4> QED
        BY <2>1, <2>5, <3>1, <4>2, StartOverRefines
    <3> QED
      BY <2>3, <2>5, <3>1 DEF HandOver
  <2> QED
    BY <1>4, <2>2, <2>4, <2>5 DEF NextPacket, InStepReads
<1> QED
  BY <1>2, <1>3, <1>4 DEF Next

LEMMA SourceInit == Init => Source!Init
BY DEF Init, InitReader, Source!Init

(* Every file is read as PcapSource promises: one packet per round, in the   *)
(* order of the file, round and round if it is looped.                       *)
THEOREM ReaderImplementsSource == Spec => ImplementsSource
<1>1. Spec => Source!Init
  BY SourceInit DEF Spec
<1>2. Spec => [][Source!Next]_(Source!vars)
  <2>1. Inv /\ [Next]_<<content, reader>> => [Source!Next]_(Source!vars)
    BY SourceStep
  <2> QED
    BY <2>1, InvAlways, PTL DEF Spec
<1> QED
  BY <1>1, <1>2 DEF ImplementsSource, Source!Spec

-----------------------------------------------------------------------------
(* Ini files.                                                                *)
Below == {p \in Nat \X Nat : p[1] < p[2]}

\* The smallest of some numbers: induction over the lines of a file.
LEMMA SmallestOf ==
    ASSUME NEW S \in SUBSET Nat, S # {}
    PROVE  \E m \in S : \A i \in S : m <= i
<1>1. IsWellFoundedOn(Below, Nat)
  BY NatLessThanWellFounded DEF OpToRel, Below
<1>2. PICK m \in S : \A i \in S : ~(<<i, m>> \in Below)
  BY <1>1, WFMin
<1>3. ASSUME NEW i \in S
      PROVE  m <= i
  <2>1. m \in Nat /\ i \in Nat /\ <<i, m>> \in Nat \X Nat
    OBVIOUS
  <2>2. <<i, m>>[1] = i /\ <<i, m>>[2] = m
    OBVIOUS
  <2>3. ~(i < m)
    BY <1>2, <2>1, <2>2 DEF Below
  <2> QED
    BY <2>1, <2>3
<1> QED
  BY <1>3

\* How far the reader has come after each of the first n lines.
Reading(lines, section, key, n, h) ==
    /\ h \in [0..n -> {h[i] : i \in 0..n}]
    /\ h[0] = Looking
    /\ \A i \in 1..n : h[i] = Step(section, key, h[i - 1], lines[i])

LEMMA ReadingExists ==
    ASSUME NEW lines, NEW section, NEW key, NEW n \in Nat
    PROVE  \E h : Reading(lines, section, key, n, h)
<1> DEFINE Bad == {m \in Nat : ~\E h : Reading(lines, section, key, m, h)}
<1>1. SUFFICES ASSUME Bad # {} PROVE FALSE
  OBVIOUS
<1>2. PICK m \in Bad : \A i \in Bad : m <= i
  BY <1>1, SmallestOf
<1>3. m # 0
  <2>1. Reading(lines, section, key, 0, [i \in 0..0 |-> Looking])
    BY DEF Reading
  <2> QED
    BY <1>2, <2>1
<1>4. m - 1 \in Nat /\ m - 1 \notin Bad
  BY <1>2, <1>3
<1>5. PICK h : Reading(lines, section, key, m - 1, h)
  BY <1>4
<1> DEFINE g == [i \in 0..m |-> IF i = m THEN Step(section, key, h[m - 1], lines[m]) ELSE h[i]]
<1>6. Reading(lines, section, key, m, g)
  <2>1. g[0] = Looking
    BY <1>2, <1>3, <1>5 DEF Reading
  <2>2. ASSUME NEW i \in 1..m
        PROVE  g[i] = Step(section, key, g[i - 1], lines[i])
    <3>1. CASE i = m
      <4>1. g[m] = Step(section, key, h[m - 1], lines[m])
        BY <1>2
      <4>2. g[m - 1] = h[m - 1]
        BY <1>2, <1>3
      <4> QED
        BY <3>1, <4>1, <4>2
    <3>2. CASE i # m
      <4>1. i \in 1..(m - 1) /\ g[i] = h[i] /\ g[i - 1] = h[i - 1]
        BY <1>2, <3>2
      <4> QED
        BY <1>5, <4>1 DEF Reading
    <3> QED
      BY <3>1, <3>2
  <2>3. g \in [0..m -> {g[i] : i \in 0..m}]
    OBVIOUS
  <2> HIDE DEF g
  <2> QED
    BY <2>1, <2>2, <2>3 DEF Reading
<1> QED
  BY <1>2, <1>6

\* getkeystring() ends where such a reading ends.
LEMMA GetkeystringReads ==
    ASSUME NEW lines, Len(lines) \in Nat, NEW section, NEW key
    PROVE  \E h : /\ Reading(lines, section, key, Len(lines), h)
                  /\ getkeystring(lines, section, key) = h[Len(lines)]
<1> DEFINE n == Len(lines)
           Body(f) == [i \in 0..n |-> IF i = 0 THEN Looking
                                      ELSE Step(section, key, f[i - 1], lines[i])]
           after == CHOOSE f : f = Body(f)
<1>1. PICK h : Reading(lines, section, key, n, h)
  BY ReadingExists
<1>2. h = Body(h)
  <2>1. h = [i \in 0..n |-> h[i]]
    BY <1>1 DEF Reading
  <2>2. ASSUME NEW i \in 0..n
        PROVE  h[i] = IF i = 0 THEN Looking ELSE Step(section, key, h[i - 1], lines[i])
    <3>1. i = 0 \/ i \in 1..n
      OBVIOUS
    <3>2. h[0] = Looking /\ \A k \in 1..n : h[k] = Step(section, key, h[k - 1], lines[k])
      BY <1>1 DEF Reading
    <3> QED
      BY <3>1, <3>2
  <2> QED
    BY <2>1, <2>2
<1>3. after = Body(after)
  BY <1>2
<1>4. getkeystring(lines, section, key) = after[n]
  BY DEF getkeystring
<1>5. Reading(lines, section, key, n, after)
  <2> HIDE DEF after
  <2>1. after[0] = Looking
    BY <1>3
  <2>2. \A i \in 1..n : after[i] = Step(section, key, after[i - 1], lines[i])
    BY <1>3
  <2>3. after \in [0..n -> {after[i] : i \in 0..n}]
    <3>1. after = [i \in 0..n |-> after[i]]
      BY <1>3
    <3> QED
      BY <3>1
  <2> QED
    BY <2>1, <2>2, <2>3 DEF Reading
<1> QED
  BY <1>4, <1>5

IsKey(line, key) == line.kind = "key" /\ line.name = key
EndsSection(line) == line.kind \in {"section", "bracket"}

\* Nothing that concerns the reader of a key in a section.
PassedBy(lines, key, from, to) ==
    \A k \in from..to : ~EndsSection(lines[k]) /\ ~IsKey(lines[k], key)

\* What the reader knows after n lines.
Knows(lines, section, key, n, s) ==
    \/ s = Looking /\ \A k \in 1..n : lines[k] # Section(section)
    \/ \E i \in 1..n :
         /\ lines[i] = Section(section)
         /\ \A k \in 1..(i - 1) : lines[k] # Section(section)
         /\ \/ s = [at |-> "key", value |-> Empty] /\ PassedBy(lines, key, i + 1, n)
            \/ \E j \in (i + 1)..n :
                 /\ PassedBy(lines, key, i + 1, j - 1)
                 /\ \/ s = [at |-> "gone", value |-> Empty] /\ EndsSection(lines[j])
                    \/ s = Found(lines[j].value) /\ IsKey(lines[j], key)

LEMMA KnowsOneMore ==
    ASSUME NEW lines, NEW section, NEW key, NEW n \in Nat, NEW s,
           Knows(lines, section, key, n, s)
    PROVE  Knows(lines, section, key, n + 1, Step(section, key, s, lines[n + 1]))
<1> DEFINE line == lines[n + 1]
           t == Step(section, key, s, line)
<1>1. CASE s = Looking /\ \A k \in 1..n : lines[k] # Section(section)
  <2>1. CASE line = Section(section)
    <3>1. t = [at |-> "key", value |-> Empty]
      BY <1>1, <2>1 DEF Step, Looking
    <3>2. /\ lines[n + 1] = Section(section) /\ n + 1 \in 1..(n + 1)
          /\ \A k \in 1..((n + 1) - 1) : lines[k] # Section(section)
          /\ PassedBy(lines, key, (n + 1) + 1, n + 1)
      BY <1>1, <2>1 DEF PassedBy
    <3> QED
      BY <3>1, <3>2 DEF Knows
  <2>2. CASE line # Section(section)
    <3>1. t = Looking
      BY <1>1, <2>2 DEF Step, Looking
    <3>2. \A k \in 1..(n + 1) : lines[k] # Section(section)
      BY <1>1, <2>2
    <3> QED
      BY <3>1, <3>2 DEF Knows
  <2> QED
    BY <2>1, <2>2
<1>2. ASSUME NEW i \in 1..n, lines[i] = Section(section),
             \A k \in 1..(i - 1) : lines[k] # Section(section),
             s = [at |-> "key", value |-> Empty], PassedBy(lines, key, i + 1, n)
      PROVE  Knows(lines, section, key, n + 1, t)
  <2>0. i \in 1..(n + 1) /\ n + 1 \in (i + 1)..(n + 1) /\ PassedBy(lines, key, i + 1, (n + 1) - 1)
    BY <1>2
  <2>1. CASE EndsSection(line)
    <3>1. t = [at |-> "gone", value |-> Empty]
      BY <1>2, <2>1 DEF Step, EndsSection
    <3> QED
      BY <1>2, <2>0, <2>1, <3>1 DEF Knows
  <2>2. CASE ~EndsSection(line) /\ IsKey(line, key)
    <3>1. t = Found(line.value)
      BY <1>2, <2>2 DEF Step, EndsSection, IsKey
    <3> QED
      BY <1>2, <2>0, <2>2, <3>1 DEF Knows
  <2>3. CASE ~EndsSection(line) /\ ~IsKey(line, key)
    <3>1. t = s
      BY <1>2, <2>3 DEF Step, EndsSection, IsKey
    <3>2. PassedBy(lines, key, i + 1, n + 1)
      BY <1>2, <2>3 DEF PassedBy
    <3> QED
      BY <1>2, <2>0, <3>1, <3>2 DEF Knows
  <2> QED
    BY <2>1, <2>2, <2>3
<1>3. ASSUME NEW i \in 1..n, lines[i] = Section(section),
             \A k \in 1..(i - 1) : lines[k] # Section(section),
             NEW j \in (i + 1)..n, PassedBy(lines, key, i + 1, j - 1),
             \/ s = [at |-> "gone", value |-> Empty] /\ EndsSection(lines[j])
             \/ s = Found(lines[j].value) /\ IsKey(lines[j], key)
      PROVE  Knows(lines, section, key, n + 1, t)
  <2>1. t = s
    BY <1>3 DEF Step, Found
  <2>2. i \in 1..(n + 1) /\ j \in (i + 1)..(n + 1)
    OBVIOUS
  <2> HIDE DEF t
  <2> QED
    BY <1>3, <2>1, <2>2 DEF Knows
<1> QED
  BY <1>1, <1>2, <1>3 DEF Knows

LEMMA KnowsTheFile ==
    ASSUME NEW lines, NEW section, NEW key, NEW n \in Nat, NEW h,
           Reading(lines, section, key, n, h)
    PROVE  Knows(lines, section, key, n, h[n])
<1> DEFINE Bad == {m \in 0..n : ~Knows(lines, section, key, m, h[m])}
<1>1. SUFFICES ASSUME Bad # {} PROVE FALSE
  BY DEF Bad
<1>2. PICK m \in Bad : \A i \in Bad : m <= i
  <2>1. Bad \in SUBSET Nat
    OBVIOUS
  <2> HIDE DEF Bad
  <2> QED
    BY <1>1, <2>1, SmallestOf
<1>3. m # 0
  <2>1. Knows(lines, section, key, 0, Looking)
    BY DEF Knows
  <2> QED
    BY <1>2, <2>1 DEF Reading
<1>4. m \in 1..n /\ m - 1 \in 0..n /\ (m - 1) + 1 = m /\ ~(m <= m - 1)
  BY <1>2, <1>3
<1>5. Knows(lines, section, key, m - 1, h[m - 1])
  BY <1>2, <1>4
<1>6. h[m] = Step(section, key, h[m - 1], lines[m])
  BY <1>4 DEF Reading
<1>7. Knows(lines, section, key, m, h[m])
  <2>1. m - 1 \in Nat
    BY <1>4
  <2>2. Knows(lines, section, key, (m - 1) + 1, Step(section, key, h[m - 1], lines[(m - 1) + 1]))
    BY <1>5, <2>1, KnowsOneMore
  <2> QED
    BY <1>4, <1>6, <2>2
<1> QED
  BY <1>2, <1>7

LEMMA LineType ==
    ASSUME NEW line \in IniLine
    PROVE  line.value \in Int
<1>1. ASSUME NEW n, line = Section(n)
      PROVE  line.value \in Int
  BY <1>1 DEF Section, Empty
<1>2. ASSUME NEW n, NEW v \in Nat \cup {Empty, Text}, line = Key(n, v)
      PROVE  line.value \in Int
  BY <1>2 DEF Key, Empty, Text
<1>3. line = OpenBracket \/ line = Other => line.value \in Int
  BY DEF OpenBracket, Other, Empty
<1>4. \/ \E n \in STRING : line = Section(n)
      \/ line = OpenBracket \/ line = Other
      \/ \E n \in STRING : \E v \in Nat \cup {Empty, Text} : line = Key(n, v)
  BY DEF IniLine
<1> QED
  BY <1>1, <1>2, <1>3, <1>4

\* What a number in a file stands for.
AsNumber(v, default) == IF v = Empty THEN default ELSE IF v = Text THEN 0 ELSE v

LEMMA WrittenNowhere ==
    ASSUME NEW lines, NEW section, NEW key, NEW default,
           KeyLines(lines, section, key) = {}
    PROVE  Written(lines, section, key, default) = default
BY DEF Written

LEMMA WrittenIn ==
    ASSUME NEW lines \in Seq(IniLine), NEW section, NEW key, NEW default,
           NEW j \in KeyLines(lines, section, key),
           \A k \in KeyLines(lines, section, key) : j <= k
    PROVE  Written(lines, section, key, default) = AsNumber(lines[j].value, default)
<1> DEFINE js == KeyLines(lines, section, key)
           first == CHOOSE i \in js : \A k \in js : i <= k
<1>1. js \subseteq Nat
  BY DEF KeyLines
<1>2. first \in js /\ \A k \in js : first <= k
  OBVIOUS
<1>3. first = j
  <2> HIDE DEF first, js
  <2>1. j \in js /\ \A k \in js : j <= k
    BY DEF js
  <2>2. first <= j /\ j <= first
    BY <1>2, <2>1
  <2> QED
    BY <1>1, <1>2, <2>1, <2>2
<1>4. Written(lines, section, key, default) = AsNumber(lines[first].value, default)
  BY DEF Written, AsNumber
<1> QED
  BY <1>3, <1>4

(* A setting is read as its file says it, and is a number.                   *)
LEMMA GetlAsWritten ==
    ASSUME NEW lines \in Seq(IniLine), NEW section, NEW key, NEW default \in Int
    PROVE  /\ ini_getl(lines, section, key, default) = Written(lines, section, key, default)
           /\ ini_getl(lines, section, key, default) \in Int
<1> DEFINE n == Len(lines)
           s == getkeystring(lines, section, key)
           js == KeyLines(lines, section, key)
<1>1. n \in Nat /\ DOMAIN lines = 1..n
  OBVIOUS
<1>2. Knows(lines, section, key, n, s)
  BY <1>1, GetkeystringReads, KnowsTheFile
<1>3. ini_getl(lines, section, key, default) =
        IF s.at = "found" THEN AsNumber(s.value, default) ELSE default
  BY DEF ini_getl, ini_gets, AsNumber
<1> HIDE DEF s
<1>4. \A j \in js : /\ j \in 1..n /\ IsKey(lines[j], key)
                     /\ \E i \in 1..j :
                          /\ i \in 1..n /\ lines[i] = Section(section)
                          /\ \A k \in 1..(i - 1) : lines[k] # Section(section)
                          /\ \A k \in (i + 1)..j : ~EndsSection(lines[k])
  BY <1>1 DEF KeyLines, FirstSection, IsKey, EndsSection
<1>5. CASE s = Looking /\ \A k \in 1..n : lines[k] # Section(section)
  <2>1. js = {}
    BY <1>4, <1>5
  <2>2. s.at # "found"
    BY <1>5 DEF Looking
  <2> QED
    BY <1>3, <2>1, <2>2, WrittenNowhere
<1>6. ASSUME NEW i \in 1..n, lines[i] = Section(section),
             \A k \in 1..(i - 1) : lines[k] # Section(section)
      PROVE  \A j \in js : /\ j \in (i + 1)..n /\ IsKey(lines[j], key)
                           /\ \A k \in (i + 1)..j : ~EndsSection(lines[k])
  <2> SUFFICES ASSUME NEW j \in js
               PROVE  /\ j \in (i + 1)..n /\ IsKey(lines[j], key)
                      /\ \A k \in (i + 1)..j : ~EndsSection(lines[k])
    OBVIOUS
  <2>1. PICK f \in 1..j : /\ f \in 1..n /\ lines[f] = Section(section)
                          /\ \A k \in 1..(f - 1) : lines[k] # Section(section)
                          /\ \A k \in (f + 1)..j : ~EndsSection(lines[k])
    BY <1>4
  <2>2. j \in 1..n /\ IsKey(lines[j], key)
    BY <1>4
  <2>3. f = i
    <3>1. ~(f < i) /\ ~(i < f)
      BY <1>6, <2>1
    <3> QED
      BY <1>1, <2>1, <3>1
  <2>4. j # i
    BY <1>6, <2>2 DEF IsKey, Section
  <2>5. j \in (i + 1)..n
    BY <2>1, <2>2, <2>3, <2>4
  <2> QED
    BY <2>1, <2>2, <2>3, <2>5
<1>7. ASSUME NEW i \in 1..n, lines[i] = Section(section),
             \A k \in 1..(i - 1) : lines[k] # Section(section),
             s = [at |-> "key", value |-> Empty], PassedBy(lines, key, i + 1, n)
      PROVE  Written(lines, section, key, default) = ini_getl(lines, section, key, default)
  <2>1. js = {}
    BY <1>6, <1>7 DEF PassedBy
  <2>2. s.at # "found"
    BY <1>7
  <2> QED
    BY <1>3, <2>1, <2>2, WrittenNowhere
<1>8. ASSUME NEW i \in 1..n, lines[i] = Section(section),
             \A k \in 1..(i - 1) : lines[k] # Section(section),
             NEW j \in (i + 1)..n, PassedBy(lines, key, i + 1, j - 1)
      PROVE  \A k \in js : j <= k
  <2>1. \A k \in js : k \in (i + 1)..n /\ IsKey(lines[k], key)
    BY <1>6, <1>8
  <2>2. \A k \in (i + 1)..(j - 1) : ~IsKey(lines[k], key)
    BY <1>8 DEF PassedBy
  <2> QED
    BY <1>1, <2>1, <2>2
<1>9. ASSUME NEW i \in 1..n, lines[i] = Section(section),
             \A k \in 1..(i - 1) : lines[k] # Section(section),
             NEW j \in (i + 1)..n, PassedBy(lines, key, i + 1, j - 1),
             s = [at |-> "gone", value |-> Empty], EndsSection(lines[j])
      PROVE  Written(lines, section, key, default) = ini_getl(lines, section, key, default)
  <2>1. js = {}
    <3>1. \A k \in js : j <= k /\ k \in Int
      BY <1>8, <1>9, <1>4
    <3>2. \A k \in js : ~(j \in (i + 1)..k)
      BY <1>6, <1>9
    <3> QED
      BY <1>1, <3>1, <3>2
  <2>2. s.at # "found"
    BY <1>9
  <2> QED
    BY <1>3, <2>1, <2>2, WrittenNowhere
<1>10. ASSUME NEW i \in 1..n, lines[i] = Section(section),
              \A k \in 1..(i - 1) : lines[k] # Section(section),
              NEW j \in (i + 1)..n, PassedBy(lines, key, i + 1, j - 1),
              s = Found(lines[j].value), IsKey(lines[j], key)
       PROVE  /\ Written(lines, section, key, default) = ini_getl(lines, section, key, default)
              /\ ini_getl(lines, section, key, default) \in Int
  <2>1. j \in js
    <3>1. j \in DOMAIN lines /\ i \in 1..j /\ FirstSection(lines, section, i)
      BY <1>1, <1>10 DEF FirstSection
    <3>2. \A k \in (i + 1)..j : ~EndsSection(lines[k])
      <4>1. \A k \in (i + 1)..j : k = j \/ k \in (i + 1)..(j - 1)
        BY <1>1
      <4>2. ~EndsSection(lines[j])
        BY <1>10 DEF EndsSection, IsKey
      <4> QED
        BY <1>10, <4>1, <4>2 DEF PassedBy
    <3> QED
      BY <1>10, <3>1, <3>2 DEF KeyLines, IsKey, EndsSection
  <2>2. \A k \in js : j <= k
    BY <1>8, <1>10
  <2>3. Written(lines, section, key, default) = AsNumber(lines[j].value, default)
    BY <2>1, <2>2, WrittenIn
  <2>4. s.at = "found" /\ s.value = lines[j].value
    BY <1>10 DEF Found
  <2>5. AsNumber(lines[j].value, default) \in Int
    <3>1. lines[j] \in IniLine
      BY <1>1
    <3> QED
      BY <3>1, LineType DEF AsNumber
  <2> QED
    BY <1>3, <2>3, <2>4, <2>5
<1>11. Written(lines, section, key, default) = ini_getl(lines, section, key, default)
  BY <1>2, <1>5, <1>7, <1>9, <1>10 DEF Knows
<1>12. ini_getl(lines, section, key, default) \in Int
  <2>1. s = Looking \/ s.at # "found" \/ ini_getl(lines, section, key, default) \in Int
    BY <1>2, <1>10 DEF Knows
  <2> QED
    BY <1>3, <2>1 DEF Looking
<1> QED
  BY <1>11, <1>12

-----------------------------------------------------------------------------
(* A switch.                                                                 *)

\* The files that were there at the start; and which of main, start thread and
\* batch thread has come how far.
FilesInv == inifile \in Seq(IniLine)

StagesInv ==
    /\ mainPc \in {"configure", "launch", "callback", "delta", "delay", "session"}
    /\ startPc \in {"none", "init", "sleep", "launched"}
    /\ batchPc \in {"none", "reset", "open", "round"}
    /\ mainPc \in {"configure", "launch"} => startPc = "none"
    /\ batchPc # "none" => startPc = "launched"
    /\ file # "none" => batchPc = "round"

\* What main has set, and what the start thread and the batch thread have.
MainInv ==
    /\ DELTA_T \in Int /\ Delta_t \in Int /\ deltaLength \in Int /\ send_to_switch \in BOOLEAN
    /\ mainPc # "configure" => DELTA_T = Written(inifile, "Simulation", "delta_t", DefaultDelta)
    /\ mainPc \in {"delta", "delay", "session"} => send_to_switch
    /\ mainPc \in {"delay", "session"} => Delta_t = DELTA_T
    /\ mainPc = "session" => deltaLength = Delta_t
    /\ Timely /\ startPc = "launched" => mainPc \in {"delay", "session"}

ThreadInv ==
    /\ PCAP_ROUND_ROBIN \in Int /\ BATCH_FROM_FILE \in BOOLEAN
    /\ sent \in {"nothing", "fake", "file"}
    /\ startPc \in {"sleep", "launched"} =>
         PCAP_ROUND_ROBIN = Written(inifile, "Switch", "pcap_round_robin", 0)
    /\ file # "none" => (loop_file <=> PCAP_ROUND_ROBIN # 0)
    /\ batchPc = "round" => (BATCH_FROM_FILE <=> file # "none")

SetupInv == FilesInv /\ StagesInv /\ MainInv /\ ThreadInv

LEMMA SetupInvInit == InitAny => SetupInv
<1> SUFFICES ASSUME InitAny PROVE SetupInv
  OBVIOUS
<1>1. /\ inifile \in Seq(IniLine)
      /\ file = "none" /\ mainPc = "configure" /\ startPc = "none" /\ batchPc = "none"
      /\ DELTA_T = -3 /\ PCAP_ROUND_ROBIN = -3 /\ Delta_t = -3 /\ deltaLength = -3
      /\ BATCH_FROM_FILE = FALSE /\ send_to_switch = FALSE /\ sent = "nothing"
  BY DEF InitAny, InitSetup, InitReader, Unset
<1>2. BATCH_FROM_FILE \in BOOLEAN /\ send_to_switch \in BOOLEAN
  BY <1>1
<1> QED
  BY <1>1, <1>2 DEF SetupInv, FilesInv, StagesInv, MainInv, ThreadInv

\* The parts of the state that no step of the reader touches.
LEMMA ReaderKeeps ==
    ASSUME NextPacket \/ Replace
    PROVE  (file' = "none" <=> file = "none") /\ loop_file' = loop_file
<1>1. CASE Replace
  BY <1>1 DEF Replace, reader
<1>2. CASE NextPacket
  BY <1>2 DEF NextPacket, Crash, HandOver
<1> QED
  BY <1>1, <1>2

LEMMA SetupInvStep == SetupInv /\ [NextSetup]_setupVars => SetupInv'
<1> SUFFICES ASSUME SetupInv, [NextSetup]_setupVars PROVE SetupInv'
  OBVIOUS
<1> USE DEF SetupInv, FilesInv, StagesInv, MainInv, ThreadInv
<1>1. CASE UNCHANGED setupVars
  BY <1>1 DEF setupVars, settings, content, reader
<1>2. CASE Configure
  <2>1. DELTA_T' = ini_getl(inifile, "Simulation", "delta_t", DefaultDelta)
        /\ inifile' = inifile
    BY <1>2 DEF Configure
  <2>2. DELTA_T' \in Int /\ DELTA_T' = Written(inifile, "Simulation", "delta_t", DefaultDelta)
    BY <2>1, GetlAsWritten DEF DefaultDelta
  <2> QED
    BY <1>2, <2>2 DEF Configure, content, reader
<1>3. CASE Launch
  BY <1>3 DEF Launch, settings, content, reader
<1>4. CASE SetCallback
  BY <1>4 DEF SetCallback, content, reader
<1>5. CASE SetDelta
  BY <1>5 DEF SetDelta, content, reader
<1>6. CASE BeginSession
  BY <1>6 DEF BeginSession, content, reader
<1>7. CASE InitConfig
  <2>1. /\ PCAP_ROUND_ROBIN' = ini_getl(inifile, "Switch", "pcap_round_robin", 0)
        /\ inifile' = inifile
    BY <1>7 DEF InitConfig
  <2>2. /\ PCAP_ROUND_ROBIN' \in Int
        /\ PCAP_ROUND_ROBIN' = Written(inifile, "Switch", "pcap_round_robin", 0)
    BY <2>1, GetlAsWritten
  <2>3. BATCH_FROM_FILE' \in BOOLEAN /\ file = "none" /\ batchPc = "none"
    BY <1>7 DEF InitConfig
  <2> QED
    BY <1>7, <2>2, <2>3 DEF InitConfig, content, reader
<1>8. CASE LaunchThreads
  BY <1>8 DEF LaunchThreads, Slept, settings, content, reader
<1>9. CASE BatchReset
  BY <1>9 DEF BatchReset, content, reader
<1>10. CASE BatchOpen
  <2>1. CASE BATCH_FROM_FILE
    <3>1. file' \in {"open", "NULL"} /\ (loop_file' <=> PCAP_ROUND_ROBIN # 0)
      BY <1>10, <2>1 DEF BatchOpen, Open, PcapOpen
    <3> QED
      BY <1>10, <2>1, <3>1 DEF BatchOpen, settings
  <2>2. CASE ~BATCH_FROM_FILE
    BY <1>10, <2>2 DEF BatchOpen, settings, content, reader
  <2> QED
    BY <2>1, <2>2
<1>11. CASE Round
  <2>1. CASE BATCH_FROM_FILE
    BY <1>11, <2>1, ReaderKeeps DEF Round, settings
  <2>2. CASE ~BATCH_FROM_FILE
    BY <1>11, <2>2 DEF Round, settings, content, reader
  <2> QED
    BY <2>1, <2>2
<1>12. CASE ReplaceFile
  BY <1>12, ReaderKeeps DEF ReplaceFile, settings
<1> QED
  BY <1>1, <1>2, <1>3, <1>4, <1>5, <1>6, <1>7, <1>8, <1>9, <1>10, <1>11, <1>12
     DEF NextSetup, Running, Dead

LEMMA SetupInvAlways == SetupSpec => []SetupInv
BY SetupInvInit, SetupInvStep, PTL DEF SetupSpec

\* The reader of a switch is a reader: the switch opens it once, reads from it
\* in its rounds and leaves it alone otherwise.
LEMMA SetupIsReader == SetupSpec => Spec
<1>1. InitAny => Init
  BY DEF InitAny, InitSetup, Init
<1>2. [NextSetup]_setupVars => [Next]_<<content, reader>>
  <2> SUFFICES ASSUME [NextSetup]_setupVars PROVE [Next]_<<content, reader>>
    OBVIOUS
  <2>1. CASE \/ UNCHANGED setupVars \/ Configure \/ Launch \/ SetCallback \/ SetDelta
             \/ BeginSession \/ InitConfig \/ LaunchThreads \/ BatchReset
    BY <2>1 DEF setupVars, Configure, Launch, SetCallback, SetDelta, BeginSession, InitConfig,
       LaunchThreads, BatchReset
  <2>2. CASE BatchOpen
    <3>1. (PCAP_ROUND_ROBIN # 0) \in BOOLEAN
      OBVIOUS
    <3> QED
      BY <2>2, <3>1 DEF BatchOpen, Next
  <2>3. CASE Round
    BY <2>3 DEF Round, Next
  <2>4. CASE ReplaceFile
    BY <2>4 DEF ReplaceFile, Next
  <2> QED
    BY <2>1, <2>2, <2>3, <2>4 DEF NextSetup, Running, Dead
<1> QED
  BY <1>1, <1>2, PTL DEF SetupSpec, Spec

(* Types of all variables, whatever config.ini and the pcap file are; a file *)
(* is opened by the first round exactly when there was one.                  *)
THEOREM SetupTypeCorrect == SetupSpec => []TypeOK
<1>1. SetupInv /\ ReaderTypeOK => TypeOK
  BY DEF SetupInv, StagesInv, MainInv, ThreadInv, TypeOK
<1>2. SetupSpec => []ReaderTypeOK
  BY SetupIsReader, ReaderTypeCorrect, PTL
<1> QED
  BY <1>1, <1>2, SetupInvAlways, PTL

(* When the start thread's sleep outlasts what main does meanwhile, the      *)
(* callback is set before a thread can use it; and the deltas of a session   *)
(* have the length main was told, whichever thread reset them last.          *)
THEOREM SettingsInTime == ASSUME Timely PROVE SetupSpec => []SetBeforeUse
<1>1. SetupInv => SetBeforeUse
  BY DEF SetupInv, MainInv, SetBeforeUse
<1> QED
  BY <1>1, SetupInvAlways, PTL

(* A setting in use is what config.ini says of its key, however the file is  *)
(* laid out, or its default.                                                 *)
THEOREM SettingsAsWritten == SetupSpec => []AsWritten
<1>1. SetupInv => AsWritten
  BY DEF SetupInv, StagesInv, MainInv, ThreadInv, AsWritten
<1> QED
  BY <1>1, SetupInvAlways, PTL

(* What is proved of the reader above holds of the reader of a switch.       *)
THEOREM SwitchReadsInStep == SetupSpec => []InStepUnlessTooLong
BY SetupIsReader, ReaderInStep, PTL

THEOREM SwitchImplementsSource == SetupSpec => ImplementsSource
BY SetupIsReader, ReaderImplementsSource, PTL
=============================================================================
