--------------------------- MODULE StreamFraming ---------------------------
(***************************************************************************)
(* How the communication thread cuts the controller's byte stream into      *)
(* packets: the receive loop of controller_communication (switch.hpp) and   *)
(* process_buffer_in (packets.hpp).                                         *)
(*                                                                         *)
(* buf always holds a contiguous piece of the stream, so the received part  *)
(* of it is given by two positions of the stream: `consumed`, where paBuf   *)
(* (processingEnd) points, and `received`.  What matters of the rest of buf *)
(* are the bytes 2 and 3, where the length of the packet at the front is    *)
(* read even if they have not arrived: `old` keeps what they held before.   *)
(***************************************************************************)
EXTENDS Integers, Sequences

CONSTANTS
    BYTE,          \* values of a byte (256)
    Streams,       \* streams the controller may send: each the sequence of the
                   \* positions where its packets begin, and its length
    Junk,          \* what the bytes 2 and 3 of buf may hold before the first recv
    SplitHeaders   \* environment: TCP may cut within the first four bytes of a packet

HEADER == 4        \* version, type and the two bytes of length

ASSUME FramingAssumption ==
    /\ BYTE \in Nat \ {0, 1}
    /\ SplitHeaders \in BOOLEAN
    /\ Junk \subseteq [1..2 -> 0..(BYTE - 1)]
    /\ \A s \in Streams :
         /\ s \in Seq(Nat) /\ s # << >> /\ s[1] = 0
         /\ \A i \in 1..(Len(s) - 1) : s[i + 1] - s[i] \in HEADER..(BYTE * BYTE - 1)

VARIABLES
    stream,        \* the controller's stream, a member of Streams
    closed,        \* the connection is no more: recv returns 0
    reset,         \* it was reset: recv has returned -1
    pc,            \* "recv" or in process_buffer_in's "loop"
    received, consumed,
    base,          \* consumed when recv returned: the position at buf[0]
    old,           \* buf[2] and buf[3], stale ones included
    ofpSize,       \* length of the last packet looked at
    processed,     \* history: packets given to process_packet
    inOrder        \* history: they were the stream's packets, whole, in order, once
vars == <<stream, closed, reset, pc, received, consumed, base, old, ofpSize, processed, inOrder>>

Packets == Len(stream) - 1
Start(i) == stream[i]
End(i) == stream[i + 1]
Total == stream[Len(stream)]

(* The byte at position p: the high and low byte of a length, or 0.  *)
Byte(p) ==
    IF \E i \in 1..Packets : p = Start(i) + 2
    THEN LET i == CHOOSE i \in 1..Packets : p = Start(i) + 2
         IN  (End(i) - Start(i)) \div BYTE
    ELSE IF \E i \in 1..Packets : p = Start(i) + 3
    THEN LET i == CHOOSE i \in 1..Packets : p = Start(i) + 3
         IN  (End(i) - Start(i)) % BYTE
    ELSE 0

Init ==
    /\ stream \in Streams
    /\ closed = FALSE /\ reset = FALSE
    /\ pc = "recv"
    /\ received = 0 /\ consumed = 0 /\ base = 0
    /\ old \in Junk
    /\ ofpSize = 1
    /\ processed = 0
    /\ inOrder = TRUE

\* What was received up to `end` does not end within a header.
HeadersWhole(end) ==
    \A i \in 1..Packets : end \notin (Start(i) + 1)..(Start(i) + HEADER - 1)

(* The controller closes the connection after its last byte was received. *)
Close ==
    /\ ~closed /\ received = Total
    /\ closed' = TRUE
    /\ UNCHANGED <<stream, reset, pc, received, consumed, base, old, ofpSize, processed, inOrder>>

\* Mutant: ofpSize keeps its value from one buffer to the next.
FirstSizeKept == ofpSize

(* "int ofpSize = 1": the first round needs one byte only. *)
FirstSize == 1

(* buf[2] and buf[3] once the stream is in buf up to `end`.                   *)
Front(end) == [k \in 1..2 |-> IF consumed + k + 1 < end THEN Byte(consumed + k + 1) ELSE old[k]]

(* recv() appends n bytes to what was moved to the front of buf; on a closed  *)
(* connection it returns 0 and the loop goes on.                              *)
Recv(n) ==
    /\ pc = "recv"
    /\ received + n <= Total
    /\ (n = 0) = closed
    /\ SplitHeaders \/ closed \/ HeadersWhole(received + n)
    /\ received' = received + n
    /\ base' = consumed
    /\ old' = Front(received + n)
    /\ ofpSize' = FirstSize
    /\ pc' = "loop"
    /\ UNCHANGED <<stream, closed, reset, consumed, processed, inOrder>>

paIntSize == received - consumed

(* The connection is reset, now or with a part of the stream on its way:      *)
(* recv() returns -1, which is added to the size of what was kept, and from   *)
(* then on 0.                                                                 *)
RecvError ==
    /\ pc = "recv" /\ ~closed
    /\ closed' = TRUE /\ reset' = TRUE
    /\ received' = IF paIntSize > 0 THEN received - 1 ELSE received
    /\ base' = consumed
    /\ old' = Front(received)
    /\ ofpSize' = FirstSize
    /\ pc' = "loop"
    /\ UNCHANGED <<stream, consumed, processed, inOrder>>

(* The values ntohs(ofpHeader->length) may have: bytes that have not arrived  *)
(* are what is left in buf at the front, and anything further on.             *)
ByteValues(k) ==
    IF consumed + k + 1 < received THEN {Byte(consumed + k + 1)}
    ELSE IF consumed = base THEN {old[k]}
    ELSE 0..(BYTE - 1)
Lengths == {hi * BYTE + lo : hi \in ByteValues(1), lo \in ByteValues(2)}

\* Mutant: more than the last packet's length must be left.
MayContinueMore == paIntSize > 0 /\ ofpSize > 0 /\ paIntSize > ofpSize

(* The condition of the while loop; ofpSize is the last packet's length. *)
MayContinue == paIntSize > 0 /\ ofpSize > 0 /\ paIntSize >= ofpSize

\* Mutant: process_packet whatever has arrived of the packet.
ArrivedOrNot(length) == paIntSize > 0

Arrived(length) == length <= paIntSize

(* One round of the loop: the packet at paBuf is processed if all of it       *)
(* has been received.                                                         *)
ProcessPacket(length) ==
    /\ pc = "loop"
    /\ MayContinue
    /\ Arrived(length)
    /\ inOrder' = /\ inOrder
                  /\ processed < Packets
                  /\ consumed = Start(processed + 1)
                  /\ length = End(processed + 1) - consumed
    /\ processed' = IF inOrder' THEN processed + 1 ELSE processed
    /\ consumed' = consumed + length
    /\ ofpSize' = length
    /\ UNCHANGED <<stream, closed, reset, pc, received, base, old>>

(* "Ofp packet fragment sliced by buffer": break. *)
Fragment(length) ==
    /\ pc = "loop"
    /\ MayContinue
    /\ ~Arrived(length)
    /\ ofpSize' = length
    /\ pc' = "recv"
    /\ UNCHANGED <<stream, closed, reset, received, consumed, base, old, processed, inOrder>>

\* Mutant: every recv starts at the front of buf, as before 2012.05.19.
EndOfBufferDropping ==
    /\ pc = "loop"
    /\ ~MayContinue
    /\ pc' = "recv"
    /\ consumed' = received
    /\ UNCHANGED <<stream, closed, reset, received, base, old, ofpSize, processed, inOrder>>

(* The loop ends; what is left is moved to the front of buf ("Broken packet    *)
(* recovery"), or buf is empty again.                                         *)
EndOfBuffer ==
    /\ pc = "loop"
    /\ ~MayContinue
    /\ pc' = "recv"
    /\ UNCHANGED <<stream, closed, reset, received, consumed, base, old, ofpSize, processed, inOrder>>

\* The controller keeps the connection open and silent.
Idle == pc = "recv" /\ received = Total /\ ~closed /\ UNCHANGED vars

Thread == \/ \E n \in 0..(Total - received) : Recv(n)
          \/ \E length \in Lengths : ProcessPacket(length) \/ Fragment(length)
          \/ EndOfBuffer

Next == Thread \/ RecvError \/ Close \/ Idle

Spec == Init /\ [][Next]_vars

FairSpec == Spec /\ WF_vars(Thread)

-----------------------------------------------------------------------------
(* Types of all variables; nothing is consumed that was not received. *)
TypeOK ==
    /\ stream \in Streams
    /\ closed \in BOOLEAN /\ reset \in BOOLEAN
    /\ pc \in {"recv", "loop"}
    /\ received \in 0..Total /\ consumed \in 0..received /\ base \in 0..consumed
    /\ old \in [1..2 -> 0..(BYTE - 1)]
    /\ ofpSize \in Nat
    /\ processed \in 0..Packets
    /\ inOrder \in BOOLEAN

(* Every packet given to process_packet is the next one of the stream, whole, *)
(* and no byte is lost or read twice between two packets, unless and until    *)
(* what was received ends within the first four bytes of a packet.  No recv   *)
(* may do that here; but the -1 of a connection reset takes a byte away from  *)
(* what was kept, and where that was a bare header the length read once the   *)
(* packet is moved to the front of buf is anything.                           *)
InSync == HeadersWhole(received) => inOrder /\ consumed = Start(processed + 1)

(* After process_buffer_in the buffer keeps a whole packet ("if there is half *)
(* packet, copy to begin") only if all that is left is shorter than the last  *)
(* packet it processed.                                                       *)
KeptIsShort ==
    pc = "recv" /\ processed < Packets /\ received >= End(processed + 1)
        => paIntSize < ofpSize

(* Whole packets that were kept are not lost: when the peer hangs up, recv    *)
(* returns 0 over and over and process_buffer_in gets to all of them.         *)
AllProcessed == (closed /\ ~reset) ~> (processed = Packets)
=============================================================================
