------------------------ MODULE StreamFramingProofs ------------------------
(***************************************************************************)
(* Theorems about StreamFraming, for any streams and any size of a byte:    *)
(* the types, and, if no recv ends within the header of a packet, that      *)
(* packets are processed whole, in order and once (InSync), and that a      *)
(* whole packet is kept in the buffer only behind a longer one.             *)
(***************************************************************************)
EXTENDS StreamFraming, WellFoundedInduction, TLAPS

Below == {p \in Nat \X Nat : p[1] < p[2]}

\* The smallest of some numbers: induction over the packets of a stream.
LEMMA SmallestOf ==
    ASSUME NEW S \in SUBSET Nat, S # {}
    PROVE  \E m \in S : \A i \in S : m <= i
<1>1. IsWellFoundedOn(Below, Nat)
  BY NatLessThanWellFounded DEF OpToRel, Below
<1>2. PICK m \in S : \A i \in S : ~(<<i, m>> \in Below)
  BY <1>1, WFMin
<1>3. ASSUME NEW i \in S
      PROVE  m <= i
  <2>1. m \in Nat /\ i \in Nat /\ <<i, m>> \in Nat \X Nat
    OBVIOUS
  <2>2. <<i, m>>[1] = i /\ <<i, m>>[2] = m
    OBVIOUS
  <2>3. ~(i < m)
    BY <1>2, <2>1, <2>2 DEF Below
  <2> QED
    BY <2>1, <2>3
<1> QED
  BY <1>3

\* Each packet begins behind the header of the one before, so every packet does
\* behind those of all before.
LEMMA PacketsInARow ==
    ASSUME NEW s \in Streams
    PROVE  /\ \A i \in 1..Len(s) : s[i] \in Nat
           /\ \A i, j \in 1..Len(s) : i < j => s[i] + HEADER <= s[j]
<1>1. Len(s) \in Nat /\ \A i \in 1..Len(s) : s[i] \in Nat
  BY FramingAssumption
<1>2. \A i \in 1..(Len(s) - 1) : s[i] + HEADER <= s[i + 1]
  <2>1. \A i \in 1..(Len(s) - 1) : s[i + 1] - s[i] >= HEADER /\ s[i] \in Nat /\ s[i + 1] \in Nat
    BY <1>1, FramingAssumption DEF HEADER
  <2> QED
    BY <2>1 DEF HEADER
<1>3. ASSUME NEW i \in 1..Len(s)
      PROVE  \A j \in 1..Len(s) : i < j => s[i] + HEADER <= s[j]
  <2> DEFINE Bad == {j \in 1..Len(s) : i < j /\ ~(s[i] + HEADER <= s[j])}
  <2>1. SUFFICES ASSUME Bad # {} PROVE FALSE
    OBVIOUS
  <2>2. PICK j \in Bad : \A k \in Bad : j <= k
    <3>1. Bad \in SUBSET Nat
      BY <1>1
    <3> HIDE DEF Bad
    <3> QED
      BY <2>1, <3>1, SmallestOf
  <2>3. /\ j \in 1..Len(s) /\ j - 1 \in 1..(Len(s) - 1) /\ j - 1 \in 1..Len(s)
        /\ i <= j - 1 /\ (j - 1) + 1 = j /\ ~(j <= j - 1)
    BY <1>1, <2>2
  <2>4. s[j - 1] + HEADER <= s[j]
    BY <1>2, <2>3
  <2>5. s[i] <= s[j - 1]
    <3>1. CASE i = j - 1
      BY <1>1, <3>1
    <3>2. CASE i < j - 1
      <4>1. s[i] + HEADER <= s[j - 1]
        BY <2>2, <2>3, <3>2
      <4> QED
        BY <1>1, <2>3, <4>1 DEF HEADER
    <3> QED
      BY <2>3, <3>1, <3>2
  <2> QED
    BY <1>1, <2>2, <2>3, <2>4, <2>5 DEF HEADER
<1> QED
  BY <1>1, <1>3

Bytes == 0..(BYTE - 1)

(* Once a recv error has taken a byte of a header away nothing arrives any    *)
(* more: whatever happens then, no recv makes the header whole again.         *)
CutIsClosed == HeadersWhole(received) \/ closed

FrameInv == CutIsClosed /\ InSync

-----------------------------------------------------------------------------
(* The stream and its bytes. *)
LEMMA QuotientAndRemainder ==
    ASSUME NEW length \in Nat, length < BYTE * BYTE
    PROVE  /\ length \div BYTE \in Bytes /\ length % BYTE \in Bytes
           /\ (length \div BYTE) * BYTE + (length % BYTE) = length
<1>1. BYTE \in Nat \ {0}
  BY FramingAssumption
<1> DEFINE q == length \div BYTE
           r == length % BYTE
<1>2. q \in Nat /\ r \in Bytes /\ (q * BYTE) + r = length
  BY <1>1 DEF Bytes
<1>3. q * BYTE <= length
  BY <1>1 DEF Bytes
<1> HIDE DEF q, r
<1>4. ASSUME q >= BYTE
      PROVE  FALSE
  BY <1>1, <1>2, <1>3, <1>4
<1>5. q \in Bytes
  BY <1>1, <1>2, <1>4 DEF Bytes
<1> QED
  BY <1>2, <1>5 DEF q, r

LEMMA StreamShape ==
    ASSUME stream \in Streams
    PROVE  /\ Packets \in Nat /\ Total \in Nat /\ Total = Start(Packets + 1) /\ Start(1) = 0
           /\ \A i \in 1..(Packets + 1) : Start(i) \in Nat /\ Start(i) <= Total
           /\ \A i, j \in 1..(Packets + 1) : i < j => Start(i) + 4 <= Start(j)
           /\ \A i \in 1..Packets : /\ End(i) = Start(i + 1) /\ End(i) \in Nat
                                    /\ Start(i) + 4 <= End(i)
                                    /\ End(i) - Start(i) < BYTE * BYTE
<1>1. /\ stream \in Seq(Nat) /\ stream # << >> /\ stream[1] = 0
      /\ \A i \in 1..(Len(stream) - 1) : stream[i + 1] - stream[i] < BYTE * BYTE
      /\ \A i, j \in 1..Len(stream) : i < j => stream[i] + 4 <= stream[j]
  <2>1. /\ stream \in Seq(Nat) /\ stream # << >> /\ stream[1] = 0
        /\ \A i \in 1..(Len(stream) - 1) : stream[i + 1] - stream[i] \in 4..(BYTE * BYTE - 1)
    BY FramingAssumption DEF HEADER
  <2>2. BYTE * BYTE \in Nat
    BY FramingAssumption
  <2>3. \A i \in 1..(Len(stream) - 1) : stream[i + 1] - stream[i] < BYTE * BYTE
    BY <2>1, <2>2
  <2> QED
    BY <2>1, <2>3, PacketsInARow DEF HEADER
<1>2. Len(stream) \in Nat /\ Len(stream) >= 1 /\ Packets \in Nat /\ Packets + 1 = Len(stream)
  BY <1>1 DEF Packets
<1>3. \A i \in 1..(Packets + 1) : Start(i) \in Nat
  BY <1>1, <1>2 DEF Start
<1>4. \A i, j \in 1..(Packets + 1) : i < j => Start(i) + 4 <= Start(j)
  BY <1>1, <1>2 DEF Start
<1>5. Total = Start(Packets + 1) /\ Total \in Nat
  BY <1>2, <1>3 DEF Total, Start
<1>6. \A i \in 1..(Packets + 1) : Start(i) <= Total
  BY <1>2, <1>3, <1>4, <1>5
<1>7. \A i \in 1..Packets : /\ End(i) = Start(i + 1) /\ End(i) - Start(i) < BYTE * BYTE
                            /\ i \in 1..(Packets + 1) /\ i + 1 \in 1..(Packets + 1) /\ i < i + 1
  BY <1>1, <1>2 DEF Start, End
<1> QED
  BY <1>1, <1>2, <1>3, <1>4, <1>5, <1>6, <1>7 DEF Start

\* The two bytes of length in every header.
LEMMA LengthBytes ==
    ASSUME stream \in Streams, NEW i \in 1..Packets
    PROVE  /\ Byte(Start(i) + 2) = (End(i) - Start(i)) \div BYTE
           /\ Byte(Start(i) + 3) = (End(i) - Start(i)) % BYTE
<1>1. /\ \A j \in 1..Packets : j # i => \/ Start(j) + 4 <= Start(i)
                                       \/ Start(i) + 4 <= Start(j)
      /\ Start(i) \in Nat /\ \A j \in 1..Packets : Start(j) \in Nat
  BY StreamShape
<1>2. ASSUME NEW j \in 1..Packets
      PROVE  /\ Start(i) + 2 = Start(j) + 2 <=> j = i
             /\ Start(i) + 3 = Start(j) + 3 <=> j = i
             /\ Start(i) + 3 # Start(j) + 2
  BY <1>1
<1>3. (CHOOSE j \in 1..Packets : Start(i) + 2 = Start(j) + 2) = i
  BY <1>2
<1>4. (CHOOSE j \in 1..Packets : Start(i) + 3 = Start(j) + 3) = i
  BY <1>2
<1>5. Byte(Start(i) + 2) = (End(i) - Start(i)) \div BYTE
  BY <1>2, <1>3 DEF Byte
<1>6. Byte(Start(i) + 3) = (End(i) - Start(i)) % BYTE
  BY <1>2, <1>4 DEF Byte
<1> QED
  BY <1>5, <1>6

LEMMA ByteType == ASSUME stream \in Streams, NEW p PROVE Byte(p) \in Bytes
<1>1. 0 \in Bytes
  BY FramingAssumption DEF Bytes
<1>2. \A i \in 1..Packets : /\ (End(i) - Start(i)) \div BYTE \in Bytes
                            /\ (End(i) - Start(i)) % BYTE \in Bytes
  <2>1. \A i \in 1..Packets : End(i) - Start(i) \in Nat /\ End(i) - Start(i) < BYTE * BYTE
    BY StreamShape
  <2> QED
    BY <2>1, QuotientAndRemainder
<1> QED
  BY <1>1, <1>2 DEF Byte

-----------------------------------------------------------------------------
(* The types. *)
LEMMA FrontType ==
    ASSUME TypeOK, NEW end
    PROVE  Front(end) \in [1..2 -> Bytes]
  BY ByteType DEF Front, TypeOK, Bytes

LEMMA LengthType == ASSUME TypeOK, NEW length \in Lengths PROVE length \in Nat
<1>1. ByteValues(1) \subseteq Bytes /\ ByteValues(2) \subseteq Bytes
  BY ByteType DEF ByteValues, TypeOK, Bytes
<1>2. PICK hi \in Bytes, lo \in Bytes : length = hi * BYTE + lo
  BY <1>1 DEF Lengths
<1>3. BYTE \in Nat /\ hi \in Nat /\ lo \in Nat
  BY FramingAssumption DEF Bytes
<1> QED
  BY <1>2, <1>3

LEMMA TypeInit == Init => TypeOK
<1> SUFFICES ASSUME Init PROVE TypeOK
  OBVIOUS
<1>1. Total \in Nat /\ Packets \in Nat
  BY StreamShape DEF Init
<1>2. old \in [1..2 -> 0..(BYTE - 1)]
  BY FramingAssumption DEF Init
<1>3. received \in 0..Total /\ consumed \in 0..received /\ base \in 0..consumed
      /\ processed \in 0..Packets
  BY <1>1 DEF Init
<1> QED
  BY <1>2, <1>3 DEF Init, TypeOK

LEMMA TypeStep == TypeOK /\ [Next]_vars => TypeOK'
<1> SUFFICES ASSUME TypeOK, [Next]_vars PROVE TypeOK'
  OBVIOUS
<1>0. /\ Total \in Nat /\ Packets \in Nat /\ stream \in Streams
      /\ received \in 0..Total /\ consumed \in 0..received /\ base \in 0..consumed
  BY StreamShape DEF TypeOK
<1>1. CASE UNCHANGED vars
  BY <1>1 DEF vars, TypeOK, Total, Packets
<1>2. CASE Close
  BY <1>2 DEF Close, TypeOK, Total, Packets
<1>3. CASE RecvError
  <2>1. received' \in 0..Total /\ consumed' = consumed /\ consumed \in 0..received'
    BY <1>0, <1>3 DEF RecvError, paIntSize
  <2>2. old' \in [1..2 -> 0..(BYTE - 1)]
    BY <1>3, FrontType DEF RecvError, Bytes
  <2> QED
    BY <1>0, <1>3, <2>1, <2>2 DEF RecvError, FirstSize, TypeOK, Total, Packets
<1>4. ASSUME NEW n \in 0..(Total - received), Recv(n)
      PROVE  TypeOK'
  <2>1. received' \in 0..Total /\ consumed \in 0..received'
    BY <1>0, <1>4 DEF Recv
  <2>2. old' \in [1..2 -> 0..(BYTE - 1)]
    BY <1>4, FrontType DEF Recv, Bytes
  <2> QED
    BY <1>0, <1>4, <2>1, <2>2 DEF Recv, FirstSize, TypeOK, Total, Packets
<1>5. ASSUME NEW length \in Lengths, ProcessPacket(length)
      PROVE  TypeOK'
  <2>1. length \in Nat
    BY LengthType
  <2>2. consumed' \in 0..received /\ base \in 0..consumed'
    BY <1>0, <1>5, <2>1 DEF ProcessPacket, Arrived, paIntSize
  <2>3. processed' \in 0..Packets /\ inOrder' \in BOOLEAN
    BY <1>0, <1>5 DEF ProcessPacket, TypeOK
  <2> QED
    BY <1>0, <1>5, <2>1, <2>2, <2>3 DEF ProcessPacket, TypeOK, Total, Packets
<1>6. ASSUME NEW length \in Lengths, Fragment(length)
      PROVE  TypeOK'
  <2>1. length \in Nat
    BY LengthType
  <2> QED
    BY <1>6, <2>1 DEF Fragment, TypeOK, Total, Packets
<1>7. CASE EndOfBuffer
  BY <1>7 DEF EndOfBuffer, TypeOK, Total, Packets
<1> QED
  BY <1>1, <1>2, <1>3, <1>4, <1>5, <1>6, <1>7 DEF Next, Thread, Idle

(* Types of all variables; process_buffer_in never takes more out of buf than *)
(* was received, whatever it takes for lengths.                               *)
THEOREM TypeCorrect == Spec => []TypeOK
  BY TypeInit, TypeStep, PTL DEF Spec

-----------------------------------------------------------------------------
(* The framing. *)
LEMMA FrameInit == Init => FrameInv
<1> SUFFICES ASSUME Init PROVE FrameInv
  OBVIOUS
<1>1. \A i \in 1..Packets : Start(i) \in Nat
  BY StreamShape DEF Init
<1>2. HeadersWhole(received)
  BY <1>1 DEF Init, HeadersWhole, HEADER
<1>3. Start(1) = 0 /\ processed + 1 = 1
  BY StreamShape DEF Init
<1> QED
  BY <1>2, <1>3 DEF Init, FrameInv, CutIsClosed, InSync

(* Once its header has arrived, the length read is the packet's own.          *)
LEMMA ArrivedLength ==
    ASSUME TypeOK, consumed = Start(processed + 1), processed < Packets,
           consumed + HEADER <= received, NEW length \in Lengths
    PROVE  length = End(processed + 1) - consumed
<1> DEFINE i == processed + 1
<1>1. /\ Packets \in Nat /\ processed \in 0..Packets /\ Total \in Nat
      /\ received \in 0..Total /\ consumed \in 0..received /\ consumed = Start(i)
  BY StreamShape DEF TypeOK
<1>2. i \in 1..Packets
  BY <1>1
<1> HIDE DEF i
<1>3. consumed + 1 + 1 < received /\ consumed + 2 + 1 < received
  BY <1>1 DEF HEADER
<1>4. ByteValues(1) = {Byte(Start(i) + 2)} /\ ByteValues(2) = {Byte(Start(i) + 3)}
  <2>1. consumed + 1 + 1 = Start(i) + 2 /\ consumed + 2 + 1 = Start(i) + 3
    BY <1>1
  <2> QED
    BY <1>3, <2>1 DEF ByteValues
<1>5. length = Byte(Start(i) + 2) * BYTE + Byte(Start(i) + 3)
  BY <1>4 DEF Lengths
<1>6. End(i) - Start(i) \in Nat /\ End(i) - Start(i) < BYTE * BYTE
  BY <1>2, StreamShape DEF TypeOK
<1>7. length = End(i) - Start(i)
  <2> DEFINE own == End(i) - Start(i)
  <2>1. Byte(Start(i) + 2) = own \div BYTE /\ Byte(Start(i) + 3) = own % BYTE
    BY <1>2, LengthBytes DEF TypeOK
  <2>2. (own \div BYTE) * BYTE + (own % BYTE) = own
    BY <1>6, QuotientAndRemainder
  <2> HIDE DEF own
  <2>3. length = own
    BY <1>5, <2>1, <2>2
  <2> QED
    BY <2>3 DEF own
<1> QED
  BY <1>1, <1>7 DEF i

\* What is not consumed belongs to a packet not yet processed.
LEMMA MoreToProcess ==
    ASSUME TypeOK, consumed = Start(processed + 1), MayContinue
    PROVE  processed < Packets /\ consumed < received
<1>1. /\ Packets \in Nat /\ processed \in 0..Packets /\ Total \in Nat
      /\ received \in 0..Total /\ consumed \in 0..received
  BY StreamShape DEF TypeOK
<1>2. consumed < received
  BY <1>1 DEF MayContinue, paIntSize
<1>3. processed = Packets => consumed = Total
  BY <1>1, StreamShape DEF TypeOK
<1> QED
  BY <1>1, <1>2, <1>3

(* Where the loop goes on, the header of the next packet has arrived, and the *)
(* length read is the packet's own.                                           *)
LEMMA OwnLength ==
    ASSUME TypeOK, InSync, HeadersWhole(received), MayContinue, NEW length \in Lengths
    PROVE  /\ processed < Packets
           /\ length = End(processed + 1) - consumed
<1>1. /\ Packets \in Nat /\ processed \in 0..Packets /\ Total \in Nat
      /\ received \in 0..Total /\ consumed \in 0..received /\ consumed = Start(processed + 1)
  BY StreamShape DEF TypeOK, InSync
<1>2. processed < Packets /\ consumed < received
  BY <1>1, MoreToProcess
<1>3. received \notin (consumed + 1)..(consumed + 3)
  <2>1. processed + 1 \in 1..Packets
    BY <1>1, <1>2
  <2> QED
    BY <1>1, <2>1 DEF HeadersWhole, HEADER
<1>4. consumed + HEADER <= received
  BY <1>1, <1>2, <1>3 DEF HEADER
<1> QED
  BY <1>1, <1>2, <1>4, ArrivedLength

LEMMA FrameStep ==
    ASSUME ~SplitHeaders, TypeOK, FrameInv, [Next]_vars
    PROVE  FrameInv'
<1>0. /\ Total \in Nat /\ Packets \in Nat /\ stream \in Streams
      /\ received \in 0..Total /\ consumed \in 0..received /\ processed \in 0..Packets
  BY StreamShape DEF TypeOK
<1>1. ASSUME UNCHANGED <<stream, received, consumed, processed, inOrder>>, closed => closed'
      PROVE  FrameInv'
  BY <1>1 DEF FrameInv, CutIsClosed, InSync, HeadersWhole, Packets, Start
<1>2. CASE UNCHANGED vars \/ Close \/ EndOfBuffer \/ \E length \in Lengths : Fragment(length)
  BY <1>1, <1>2 DEF vars, Close, EndOfBuffer, Fragment
<1>3. CASE RecvError
  <2>1. closed' /\ ~closed /\ UNCHANGED <<stream, consumed, processed, inOrder>>
    BY <1>3 DEF RecvError
  <2>2. HeadersWhole(received)
    BY <2>1 DEF FrameInv, CutIsClosed
  <2>3. inOrder /\ consumed = Start(processed + 1)
    BY <2>2 DEF FrameInv, InSync
  <2> QED
    BY <2>1, <2>3 DEF FrameInv, CutIsClosed, InSync, Start
<1>4. ASSUME NEW n \in 0..(Total - received), Recv(n)
      PROVE  FrameInv'
  <2>1. /\ UNCHANGED <<stream, closed, consumed, processed, inOrder>>
        /\ received' = received + n
        /\ closed => n = 0
        /\ closed \/ HeadersWhole(received + n)
    BY <1>4 DEF Recv
  <2>2. CASE closed
    <3>1. received' = received
      BY <1>0, <2>1, <2>2
    <3> QED
      BY <1>1, <2>1, <3>1
  <2>3. CASE ~closed
    <3>1. HeadersWhole(received) /\ inOrder /\ consumed = Start(processed + 1)
      BY <2>3 DEF FrameInv, CutIsClosed, InSync
    <3>2. HeadersWhole(received)'
      BY <2>1, <2>3 DEF HeadersWhole, Packets, Start
    <3> QED
      BY <2>1, <3>1, <3>2 DEF FrameInv, CutIsClosed, InSync, Start
  <2> QED
    BY <2>2, <2>3
<1>5. ASSUME NEW length \in Lengths, ProcessPacket(length)
      PROVE  FrameInv'
  <2>1. /\ UNCHANGED <<stream, closed, received>> /\ MayContinue
        /\ consumed' = consumed + length
        /\ processed' = IF inOrder' THEN processed + 1 ELSE processed
    BY <1>5 DEF ProcessPacket
  <2>2. HeadersWhole(received)' <=> HeadersWhole(received)
    BY <2>1 DEF HeadersWhole, Packets, Start
  <2>3. CASE ~HeadersWhole(received)
    BY <2>1, <2>2, <2>3 DEF FrameInv, CutIsClosed, InSync
  <2>4. CASE HeadersWhole(received)
    <3>1. /\ processed < Packets /\ length = End(processed + 1) - consumed
          /\ inOrder /\ consumed = Start(processed + 1)
      BY <2>1, <2>4, OwnLength DEF FrameInv, InSync
    <3>2. inOrder'
      BY <1>5, <3>1 DEF ProcessPacket
    <3>3. End(processed + 1) = Start(processed + 1 + 1) /\ End(processed + 1) \in Nat
      BY <1>0, <3>1, StreamShape
    <3>4. consumed' = Start(processed' + 1)
      BY <1>0, <2>1, <3>1, <3>2, <3>3
    <3>5. consumed' = Start(processed + 1)'
      BY <2>1, <3>4 DEF Start
    <3> QED
      BY <2>1, <2>2, <2>4, <3>2, <3>5 DEF FrameInv, CutIsClosed, InSync
  <2> QED
    BY <2>3, <2>4
<1> QED
  BY <1>2, <1>3, <1>4, <1>5 DEF Next, Thread, Idle

(* However TCP cuts the stream outside of headers, process_packet gets the    *)
(* packets of the stream, whole, in order and once, up to the moment a recv   *)
(* error takes away a byte of a header.                                       *)
THEOREM PacketsInOrder == ASSUME ~SplitHeaders PROVE Spec => []InSync
<1>1. TypeOK /\ FrameInv /\ [Next]_vars => FrameInv'
  BY FrameStep
<1>2. FrameInv => InSync
  BY DEF FrameInv
<1> QED
  BY <1>1, <1>2, FrameInit, TypeCorrect, PTL DEF Spec

-----------------------------------------------------------------------------
(* What is kept in the buffer.  As long as the packets were in order buf      *)
(* begins with the next one; they can get out of order only where a header    *)
(* was cut by an error, and then nothing behind that header has arrived.      *)
KeptInv ==
    /\ inOrder => consumed = Start(processed + 1)
    /\ ~inOrder =>
         closed /\ (processed < Packets => received < Start(processed + 1) + HEADER)
    /\ inOrder /\ pc = "loop" => ofpSize > 0
    /\ KeptIsShort

LEMMA KeptInit == Init => KeptInv
<1> SUFFICES ASSUME Init PROVE KeptInv
  OBVIOUS
<1>1. Start(1) = 0 /\ processed + 1 = 1 /\ Packets \in Nat
  BY StreamShape DEF Init
<1>2. processed < Packets => End(1) \in Nat /\ 4 <= End(1)
  <2> SUFFICES ASSUME processed < Packets PROVE End(1) \in Nat /\ 4 <= End(1)
    OBVIOUS
  <2>1. 1 \in 1..Packets
    BY <1>1 DEF Init
  <2> QED
    BY <1>1, <2>1, StreamShape DEF Init
<1> QED
  BY <1>1, <1>2 DEF Init, KeptInv, KeptIsShort

LEMMA KeptStep ==
    ASSUME ~SplitHeaders, TypeOK, FrameInv, KeptInv, [Next]_vars
    PROVE  KeptInv'
<1> DEFINE i == processed + 1
<1>0. /\ Total \in Nat /\ Packets \in Nat /\ stream \in Streams
      /\ received \in 0..Total /\ consumed \in 0..received /\ processed \in 0..Packets
      /\ ofpSize \in Nat
  BY StreamShape DEF TypeOK
<1>1. processed < Packets => /\ Start(i) \in Nat /\ End(i) \in Nat /\ Start(i) + 4 <= End(i)
                             /\ End(i) = Start(i + 1) /\ i \in 1..Packets
  <2> SUFFICES ASSUME processed < Packets
               PROVE  /\ Start(i) \in Nat /\ End(i) \in Nat /\ Start(i) + 4 <= End(i)
                      /\ End(i) = Start(i + 1) /\ i \in 1..Packets
    OBVIOUS
  <2>1. i \in 1..Packets /\ i \in 1..(Packets + 1)
    BY <1>0
  <2> HIDE DEF i
  <2> QED
    BY <1>0, <2>1, StreamShape
<1>2. CASE UNCHANGED vars \/ Close
  BY <1>2 DEF vars, Close, KeptInv, KeptIsShort, Packets, Start, End, paIntSize
<1>3. CASE RecvError
  <2>1. /\ UNCHANGED <<stream, consumed, processed, inOrder>> /\ inOrder
        /\ pc' = "loop" /\ ofpSize' = 1
    BY <1>3 DEF RecvError, KeptInv, FirstSize
  <2> QED
    BY <2>1 DEF KeptInv, KeptIsShort, Start
<1>4. ASSUME NEW n \in 0..(Total - received), Recv(n)
      PROVE  KeptInv'
  <2>1. /\ UNCHANGED <<stream, closed, consumed, processed, inOrder>>
        /\ pc' = "loop" /\ ofpSize' = 1
        /\ received' = received + n /\ (closed => n = 0)
    BY <1>4 DEF Recv, FirstSize
  <2>2. closed => received' = received
    BY <1>0, <2>1
  <2> QED
    BY <2>1, <2>2 DEF KeptInv, KeptIsShort, Start, Packets
<1>5. ASSUME NEW length \in Lengths, ProcessPacket(length)
      PROVE  KeptInv'
  <2>1. /\ UNCHANGED <<stream, closed, received, pc>> /\ pc = "loop" /\ MayContinue
        /\ consumed' = consumed + length /\ ofpSize' = length
        /\ inOrder' = (inOrder /\ processed < Packets /\ consumed = Start(i)
                       /\ length = End(i) - consumed)
        /\ processed' = IF inOrder' THEN processed + 1 ELSE processed
    BY <1>5 DEF ProcessPacket
  <2>2. CASE inOrder'
    <3>1. processed < Packets /\ consumed = Start(i) /\ length = End(i) - consumed
      BY <2>1, <2>2
    <3>2. /\ consumed' = Start(i + 1) /\ processed' = i /\ ofpSize' > 0
      BY <1>0, <1>1, <2>1, <2>2, <3>1
    <3> QED
      BY <2>1, <2>2, <3>2 DEF KeptInv, KeptIsShort, Start
  <2>3. CASE ~inOrder'
    <3>1. processed' = processed
      BY <2>1, <2>3
    <3>2. closed /\ (processed < Packets => received < Start(i) + HEADER)
      <4>1. CASE ~inOrder
        BY <4>1 DEF KeptInv
      <4>2. CASE inOrder
        <5>1. consumed = Start(i) /\ processed < Packets
          BY <2>1, <4>2, MoreToProcess DEF KeptInv
        <5>2. ~(consumed + HEADER <= received)
          BY <2>1, <2>3, <4>2, <5>1, ArrivedLength
        <5>3. closed
          <6>1. HeadersWhole(received) => length = End(i) - consumed
            BY <2>1, OwnLength DEF FrameInv
          <6> QED
            BY <2>1, <2>3, <4>2, <5>1, <6>1 DEF FrameInv, CutIsClosed
        <5> QED
          BY <1>0, <5>1, <5>2, <5>3 DEF HEADER
      <4> QED
        BY <4>1, <4>2
    <3>3. Packets' = Packets /\ (Start(processed + 1))' = Start(i)
      BY <2>1, <3>1 DEF Packets, Start
    <3> QED
      BY <2>1, <2>3, <3>1, <3>2, <3>3 DEF KeptInv, KeptIsShort
  <2> QED
    BY <2>2, <2>3
<1>6. ASSUME NEW length \in Lengths, Fragment(length)
      PROVE  KeptInv'
  <2>1. /\ UNCHANGED <<stream, closed, received, consumed, processed, inOrder>>
        /\ pc' = "recv" /\ ~(length <= received - consumed)
    BY <1>6 DEF Fragment, Arrived, paIntSize
  <2>2. processed < Packets => received < End(i)
    <3> SUFFICES ASSUME processed < Packets, End(i) <= received PROVE FALSE
      BY <1>0, <1>1
    <3>1. inOrder /\ consumed = Start(i) /\ consumed + HEADER <= received
      BY <1>0, <1>1 DEF KeptInv, HEADER
    <3>2. length = End(i) - consumed
      BY <3>1, ArrivedLength
    <3> QED
      BY <1>0, <1>1, <2>1, <3>1, <3>2
  <2>3. KeptIsShort'
    <3>1. Packets' = Packets /\ (End(processed + 1))' = End(i)
      BY <2>1 DEF Packets, End
    <3> QED
      BY <1>0, <1>1, <2>1, <2>2, <3>1 DEF KeptIsShort
  <2> QED
    BY <2>1, <2>3 DEF KeptInv, Packets, Start
<1>7. CASE EndOfBuffer
  <2>1. /\ UNCHANGED <<stream, closed, received, consumed, processed, inOrder, ofpSize>>
        /\ pc = "loop" /\ pc' = "recv" /\ ~MayContinue
    BY <1>7 DEF EndOfBuffer
  <2>2. processed < Packets /\ End(i) <= received => received - consumed < ofpSize
    <3> SUFFICES ASSUME processed < Packets, End(i) <= received
                 PROVE  received - consumed < ofpSize
      OBVIOUS
    <3>1. inOrder /\ consumed = Start(i) /\ ofpSize > 0
      BY <1>0, <1>1, <2>1 DEF KeptInv, HEADER
    <3>2. received - consumed > 0
      BY <1>0, <1>1, <3>1
    <3> QED
      BY <1>0, <2>1, <3>1, <3>2 DEF MayContinue, paIntSize
  <2>3. KeptIsShort'
    <3>1. Packets' = Packets /\ (End(processed + 1))' = End(i)
      BY <2>1 DEF Packets, End
    <3> QED
      BY <1>0, <1>1, <2>1, <2>2, <3>1 DEF KeptIsShort, paIntSize
  <2> QED
    BY <2>1, <2>3 DEF KeptInv, Packets, Start
<1> QED
  BY <1>2, <1>3, <1>4, <1>5, <1>6, <1>7 DEF Next, Thread, Idle

(* A whole packet stays in the buffer only behind a longer one: what was      *)
(* received last is shorter than the packet processed last.  This holds after *)
(* a recv error, too.                                                         *)
THEOREM KeptShort == ASSUME ~SplitHeaders PROVE Spec => []KeptIsShort
<1>1. TypeOK /\ FrameInv /\ [Next]_vars => FrameInv'
  BY FrameStep
<1>2. TypeOK /\ FrameInv /\ KeptInv /\ [Next]_vars => KeptInv'
  BY KeptStep
<1>3. KeptInv => KeptIsShort
  BY DEF KeptInv
<1> QED
  BY <1>1, <1>2, <1>3, FrameInit, KeptInit, TypeCorrect, PTL DEF Spec
=============================================================================
