--------------------------- MODULE ProtocolProofs ---------------------------
(***************************************************************************)
(* Theorems about Protocol, for any room on the way, any number of requests *)
(* and packet-ins, and controllers that read always or not: the types, that *)
(* mutxSemaphoreControllerSocket keeps the messages whole, and that answers *)
(* come in the order of the requests.                                       *)
(***************************************************************************)
EXTENDS Protocol, TLAPS

\* A thread that is not idle has a message to send.
HasMessage == \A t \in Threads : pc[t] # "idle" => msg[t] \in Message

TypeInv == TypeOK /\ HasMessage

-----------------------------------------------------------------------------
LEMMA AnswerTypes ==
    ASSUME NEW type \in RequestTypes, AnswerType(type) # None
    PROVE  AnswerType(type) \in Answers /\ AnswerXid(type) \in Nat
  BY DEF Answers, AnswerXid

LEMMA PacketInIsAnswer == "PACKET_IN" \in Answers
  BY DEF Answers, AnswerType, RequestTypes, None

LEMMA NoneIsNoPart ==
    /\ NoMessage \notin Part
    /\ NoMessage \notin Message
    /\ NoMessage \notin Request
<1>1. NoMessage.type = None
  BY DEF NoMessage
<1>2. None \notin Answers /\ None \notin RequestTypes
  BY DEF Answers, None, RequestTypes
<1> QED
  BY <1>1, <1>2 DEF Part, Message, Request

LEMMA TypeInit == Init => TypeInv
<1> SUFFICES ASSUME Init PROVE TypeInv
  OBVIOUS
<1>1. TypeOK
  BY ProtocolAssumption DEF Init, TypeOK, ProtocolAssumption, Generators, Threads
<1>2. HasMessage
  BY DEF Init, HasMessage
<1> QED
  BY <1>1, <1>2 DEF TypeInv

-----------------------------------------------------------------------------
(* The types: one step per action. *)
LEMMA AskType == ASSUME TypeInv, NEW type \in RequestTypes, Ask(type) PROVE TypeInv'
<1>1. UNCHANGED <<inbox, pc, msg, mutxSemaphoreControllerSocket, outbox, partial, generated, answers>>
  BY DEF Ask, threadVars
<1>2. writing' \in Request
  BY ProtocolAssumption DEF Ask, Request, TypeInv, TypeOK
<1>3. asked' \in Seq(Request) /\ Len(asked') <= MaxRequests
  BY <1>2, ProtocolAssumption DEF Ask, TypeInv, TypeOK
<1> QED
  BY <1>1, <1>2, <1>3 DEF TypeInv, TypeOK, HasMessage

LEMMA WriteType == ASSUME TypeInv, Write PROVE TypeInv'
<1>1. UNCHANGED <<pc, msg, mutxSemaphoreControllerSocket, outbox, partial, generated, asked, answers>>
  BY DEF Write, threadVars
<1>2. inbox' \in Seq(Request) /\ Len(inbox') <= InRoom /\ writing' = NoMessage
  BY ProtocolAssumption DEF Write, TypeInv, TypeOK
<1> QED
  BY <1>1, <1>2 DEF TypeInv, TypeOK, HasMessage

LEMMA ReadType == ASSUME TypeInv, Read PROVE TypeInv'
<1>1. UNCHANGED <<writing, inbox, pc, msg, mutxSemaphoreControllerSocket, generated, asked>>
  BY DEF Read, threadVars
<1>2. outbox \in Seq(Part) /\ outbox # << >> /\ Len(outbox) <= OutRoom
  BY DEF Read, TypeInv, TypeOK
<1>3. Head(outbox) \in Part /\ Tail(outbox) \in Seq(Part) /\ Len(Tail(outbox)) <= OutRoom
  BY <1>2, ProtocolAssumption
<1>4. outbox' \in Seq(Part) /\ Len(outbox') <= OutRoom
  BY <1>3 DEF Read
<1>5. partial' \in Part \cup {NoMessage}
  BY <1>3 DEF Read
<1>6. answers' \in Seq(Part)
  <2>1. answers' = answers \/ answers' = Append(answers, Head(outbox))
    BY DEF Read
  <2>2. answers \in Seq(Part)
    BY DEF TypeInv, TypeOK
  <2> QED
    BY <1>3, <2>1, <2>2
<1> QED
  BY <1>1, <1>4, <1>5, <1>6 DEF TypeInv, TypeOK, HasMessage

LEMMA ProcessPacketType == ASSUME TypeInv, ProcessPacket PROVE TypeInv'
<1> DEFINE r == Head(inbox)
<1>1. UNCHANGED <<writing, mutxSemaphoreControllerSocket, outbox, partial, generated, asked, answers>>
  BY DEF ProcessPacket
<1>2. r \in Request /\ inbox' \in Seq(Request) /\ Len(inbox') <= InRoom
  BY ProtocolAssumption DEF ProcessPacket, TypeInv, TypeOK
<1>3. CASE AnswerType(r.type) = None
  <2>1. UNCHANGED <<pc, msg>>
    BY <1>3 DEF ProcessPacket
  <2> QED
    BY <1>1, <1>2, <2>1 DEF TypeInv, TypeOK, HasMessage
<1>4. CASE AnswerType(r.type) # None
  <2> DEFINE m == [type |-> AnswerType(r.type), xid |-> AnswerXid(r.type), to |-> r]
  <2>1. m \in Message
    BY <1>2, <1>4, AnswerTypes DEF Message, Request
  <2>2. pc' = [pc EXCEPT !["com"] = "lock"] /\ msg' = [msg EXCEPT !["com"] = m]
    BY <1>4 DEF ProcessPacket
  <2> HIDE DEF m
  <2>3. /\ pc' \in [Threads -> {"idle", "lock", "send1", "send2", "unlock"}]
        /\ msg' \in [Threads -> Message \cup {NoMessage}]
        /\ HasMessage'
    BY <2>1, <2>2 DEF TypeInv, TypeOK, HasMessage, Threads
  <2> QED
    BY <1>1, <1>2, <2>3 DEF TypeInv, TypeOK
<1> QED
  BY <1>3, <1>4

LEMMA CreatePacketInType ==
    ASSUME TypeInv, NEW t \in Generators, CreatePacketIn(t) PROVE TypeInv'
<1>1. UNCHANGED <<writing, inbox, mutxSemaphoreControllerSocket, outbox, partial, asked, answers>>
  BY DEF CreatePacketIn
<1>2. generated' \in [Generators -> 0..MaxPackets] /\ generated'[t] \in Nat
  BY ProtocolAssumption DEF CreatePacketIn, TypeInv, TypeOK
<1> DEFINE m == [type |-> "PACKET_IN", xid |-> generated'[t], to |-> NoMessage]
<1>3. m \in Message
  BY <1>2, PacketInIsAnswer DEF Message
<1>4. pc' = [pc EXCEPT ![t] = "lock"] /\ msg' = [msg EXCEPT ![t] = m]
  BY DEF CreatePacketIn
<1> HIDE DEF m
<1>5. /\ pc' \in [Threads -> {"idle", "lock", "send1", "send2", "unlock"}]
      /\ msg' \in [Threads -> Message \cup {NoMessage}]
      /\ HasMessage'
  BY <1>3, <1>4 DEF TypeInv, TypeOK, HasMessage, Threads
<1> QED
  BY <1>1, <1>2, <1>5 DEF TypeInv, TypeOK

\* What SendPart appends is a part of the thread's message.
PartOf(t, part) == [type |-> msg[t].type, xid |-> msg[t].xid, to |-> msg[t].to,
                    from |-> t, part |-> part]

LEMMA PartOfType ==
    ASSUME TypeInv, NEW t \in Threads, pc[t] # "idle", NEW part \in 1..2
    PROVE  PartOf(t, part) \in Part
<1>1. msg[t] \in Message
  BY DEF TypeInv, HasMessage
<1> QED
  BY <1>1 DEF PartOf, Part, Message

LEMMA SendPartType ==
    ASSUME TypeInv, NEW t \in Threads, NEW from \in {"send1", "send2"}, NEW part \in 1..2,
           NEW to \in {"send2", "unlock"}, SendPart(t, from, part, to)
    PROVE  TypeInv'
<1>1. /\ UNCHANGED <<writing, inbox, msg, mutxSemaphoreControllerSocket, partial, generated,
                     asked, answers>>
      /\ pc' = [pc EXCEPT ![t] = to] /\ pc[t] # "idle"
      /\ outbox' = Append(outbox, PartOf(t, part)) /\ Len(outbox) < OutRoom
  BY DEF SendPart, PartOf
<1>2. outbox' \in Seq(Part) /\ Len(outbox') <= OutRoom
  BY <1>1, PartOfType, ProtocolAssumption DEF TypeInv, TypeOK
<1>3. pc' \in [Threads -> {"idle", "lock", "send1", "send2", "unlock"}] /\ HasMessage'
  BY <1>1 DEF TypeInv, TypeOK, HasMessage
<1> QED
  BY <1>1, <1>2, <1>3 DEF TypeInv, TypeOK

LEMMA SendMessageType == ASSUME TypeInv, NEW t \in Threads, SendMessage(t) PROVE TypeInv'
<1>1. CASE LockSocket(t)
  <2>1. /\ UNCHANGED <<writing, inbox, msg, outbox, partial, generated, asked, answers>>
        /\ pc' = [pc EXCEPT ![t] = "send1"] /\ pc[t] # "idle"
        /\ mutxSemaphoreControllerSocket' = t
    BY <1>1 DEF LockSocket
  <2>2. pc' \in [Threads -> {"idle", "lock", "send1", "send2", "unlock"}] /\ HasMessage'
    BY <2>1 DEF TypeInv, TypeOK, HasMessage
  <2> QED
    BY <2>1, <2>2 DEF TypeInv, TypeOK
<1>2. CASE Send(t)
  BY <1>2, SendPartType DEF Send
<1>3. CASE UnlockSocket(t)
  <2>1. /\ UNCHANGED <<writing, inbox, outbox, partial, generated, asked, answers>>
        /\ pc' = [pc EXCEPT ![t] = "idle"] /\ msg' = [msg EXCEPT ![t] = NoMessage]
        /\ mutxSemaphoreControllerSocket' = None
    BY <1>3 DEF UnlockSocket
  <2>2. /\ pc' \in [Threads -> {"idle", "lock", "send1", "send2", "unlock"}]
        /\ msg' \in [Threads -> Message \cup {NoMessage}]
        /\ HasMessage'
    BY <2>1 DEF TypeInv, TypeOK, HasMessage
  <2> QED
    BY <2>1, <2>2 DEF TypeInv, TypeOK
<1> QED
  BY <1>1, <1>2, <1>3 DEF SendMessage

LEMMA TypeStep == TypeInv /\ [Next]_vars => TypeInv'
<1> SUFFICES ASSUME TypeInv, [Next]_vars PROVE TypeInv'
  OBVIOUS
<1>1. CASE UNCHANGED vars
  BY <1>1 DEF vars, threadVars, TypeInv, TypeOK, HasMessage
<1> QED
  BY <1>1, AskType, WriteType, ReadType, ProcessPacketType, CreatePacketInType,
     SendMessageType DEF Next, Done

(* Types of all variables; no thread puts more into the socket than it has    *)
(* room for, and no request or packet-in is begun beyond its bound.           *)
THEOREM TypeCorrect == Spec => []TypeOK
<1>1. TypeInv => TypeOK
  BY DEF TypeInv
<1> QED
  BY <1>1, TypeInit, TypeStep, PTL DEF Spec

-----------------------------------------------------------------------------
(* What has been sent and not been read as a whole, and what keeps it whole:  *)
(* a thread sends only as the owner of the mutex, and the stream ends in the  *)
(* first part of a message exactly while its sender is between the two.       *)
Stream == (IF partial = NoMessage THEN << >> ELSE <<partial>>) \o outbox

FirstPart(x) == [x EXCEPT !.part = 1]

Whole(s) ==
    \A k \in DOMAIN s :
      /\ s[k].part = 2 => k > 1 /\ s[k - 1] = FirstPart(s[k])
      /\ s[k].part = 1 /\ k < Len(s) => s[k + 1].part = 2

Exclusion ==
    \A t \in Threads : pc[t] \in {"send1", "send2", "unlock"} => mutxSemaphoreControllerSocket = t

StreamInv ==
    /\ partial # NoMessage => partial.part = 1
    /\ Whole(Stream)
    /\ \A t \in Threads :
         pc[t] = "send2" => Stream # << >> /\ Stream[Len(Stream)] = PartOf(t, 1)
    /\ (\A t \in Threads : pc[t] # "send2") =>
         Stream = << >> \/ Stream[Len(Stream)].part = 2

WholeInv == Exclusion /\ StreamInv

LEMMA StreamType == TypeOK => Stream \in Seq(Part)
<1> SUFFICES ASSUME TypeOK PROVE Stream \in Seq(Part)
  OBVIOUS
<1>1. outbox \in Seq(Part) /\ partial \in Part \cup {NoMessage}
  BY DEF TypeOK
<1>2. << >> \in Seq(Part) /\ (partial # NoMessage => <<partial>> \in Seq(Part))
  BY <1>1
<1> QED
  BY <1>1, <1>2 DEF Stream

LEMMA AppendToConcat ==
    ASSUME NEW S, NEW a \in Seq(S), NEW b \in Seq(S), NEW x \in S
    PROVE  a \o Append(b, x) = Append(a \o b, x)
  OBVIOUS

LEMMA EmptyConcat ==
    ASSUME NEW S, NEW b \in Seq(S)
    PROVE  << >> \o b = b
  OBVIOUS

LEMMA HeadConcat ==
    ASSUME NEW S, NEW b \in Seq(S), b # << >>
    PROVE  <<Head(b)>> \o Tail(b) = b
  OBVIOUS

\* One more part behind a whole stream.
LEMMA WholeAppend ==
    ASSUME NEW s \in Seq(Part), NEW x \in Part, Whole(s),
           \/ x.part = 1 /\ (s = << >> \/ s[Len(s)].part = 2)
           \/ x.part = 2 /\ s # << >> /\ s[Len(s)] = FirstPart(x)
    PROVE  Whole(Append(s, x))
<1> DEFINE u == Append(s, x)
           n == Len(s)
<1>1. /\ n \in Nat /\ (s = << >> <=> n = 0) /\ DOMAIN s = 1..n
      /\ DOMAIN u = 1..(n + 1) /\ Len(u) = n + 1
      /\ u[n + 1] = x /\ \A k \in 1..n : u[k] = s[k]
  OBVIOUS
<1>2. \A k \in 1..n : /\ s[k].part = 2 => k > 1 /\ s[k - 1] = FirstPart(s[k])
                      /\ s[k].part = 1 /\ k < n => s[k + 1].part = 2
  BY <1>1 DEF Whole
<1>3. n > 0 => \/ x.part = 1 /\ u[n].part = 2
               \/ x.part = 2 /\ u[n] = FirstPart(x) /\ u[n].part = 1
  <2>1. FirstPart(x).part = 1
    BY DEF Part, FirstPart
  <2>2. s[Len(s)] = s[n]
    OBVIOUS
  <2> HIDE DEF u, n
  <2>3. n > 0 => u[n] = s[n] /\ s # << >>
    BY <1>1
  <2> QED
    BY <2>1, <2>2, <2>3
<1> HIDE DEF u, n
<1>4. ASSUME NEW k \in 1..(n + 1)
      PROVE  /\ u[k].part = 2 => k > 1 /\ u[k - 1] = FirstPart(u[k])
             /\ u[k].part = 1 /\ k < n + 1 => u[k + 1].part = 2
  <2>1. CASE k = n + 1
    <3>1. u[k] = x /\ k - 1 = n
      BY <1>1, <2>1
    <3>2. n = 0 => x.part = 1
      BY <1>1 DEF n
    <3> QED
      BY <1>1, <1>3, <2>1, <3>1, <3>2
  <2>2. CASE k = n
    <3>1. n > 0 /\ u[k] = s[k] /\ u[k + 1] = x
      BY <1>1, <2>2
    <3>2. u[k].part = 2 => k > 1 /\ u[k - 1] = FirstPart(u[k])
      BY <1>1, <1>2, <2>2, <3>1
    <3>3. u[k].part = 1 => u[k + 1].part = 2
      BY <1>3, <2>2, <3>1
    <3> QED
      BY <3>2, <3>3
  <2>3. CASE k \in 1..n /\ k + 1 \in 1..n
    <3>1. u[k] = s[k] /\ u[k + 1] = s[k + 1] /\ (k > 1 => u[k - 1] = s[k - 1])
      BY <1>1, <2>3
    <3> QED
      BY <1>1, <1>2, <2>3, <3>1
  <2> QED
    BY <1>1, <2>1, <2>2, <2>3
<1> QED
  BY <1>1, <1>4 DEF Whole, u

\* A message less in front of one.
LEMMA WholeBehind ==
    ASSUME NEW s \in Seq(Part), NEW u \in Seq(Part), Whole(s), Len(s) >= 2, s[2].part = 2,
           Len(u) = Len(s) - 2, \A k \in 1..Len(u) : u[k] = s[k + 2]
    PROVE  Whole(u)
<1>1. /\ Len(s) \in Nat /\ Len(u) \in Nat
      /\ DOMAIN s = 1..Len(s) /\ DOMAIN u = 1..Len(u)
  OBVIOUS
<1>2. \A k \in 1..Len(s) :
        /\ s[k].part = 2 => k > 1 /\ s[k - 1] = FirstPart(s[k])
        /\ s[k].part = 1 /\ k < Len(s) => s[k + 1].part = 2
  BY <1>1 DEF Whole
<1>3. ASSUME NEW k \in 1..Len(u)
      PROVE  /\ u[k].part = 2 => k > 1 /\ u[k - 1] = FirstPart(u[k])
             /\ u[k].part = 1 /\ k < Len(u) => u[k + 1].part = 2
  <2>1. u[k] = s[k + 2] /\ k + 2 \in 1..Len(s) /\ s[k + 2] \in Part
    BY <1>1
  <2>2. u[k].part = 1 /\ k < Len(u) => u[k + 1].part = 2
    BY <1>1, <1>2, <2>1
  <2>3. u[k].part = 2 => s[k + 1] = FirstPart(u[k])
    BY <1>1, <1>2, <2>1
  <2>4. u[k].part = 2 => s[k + 1].part = 1
    BY <2>1, <2>3 DEF Part, FirstPart
  <2>5. u[k].part = 2 => k > 1
    BY <1>1, <2>4
  <2>6. k > 1 => s[k + 1] = u[k - 1]
    BY <1>1
  <2> QED
    BY <2>2, <2>3, <2>5, <2>6
<1> QED
  BY <1>1, <1>3 DEF Whole

LEMMA WholeInit == Init => WholeInv
<1> SUFFICES ASSUME Init PROVE WholeInv
  OBVIOUS
<1>1. Stream = << >>
  BY EmptyConcat DEF Init, Stream
<1>2. Whole(Stream)
  BY <1>1 DEF Whole
<1> QED
  BY <1>1, <1>2 DEF Init, WholeInv, Exclusion, StreamInv

\* A step that leaves the socket alone and no thread between two parts.
LEMMA StreamFrame ==
    ASSUME StreamInv, UNCHANGED <<outbox, partial>>,
           \A t \in Threads : (pc'[t] = "send2" <=> pc[t] = "send2")
                             /\ (pc[t] = "send2" => msg'[t] = msg[t])
    PROVE  StreamInv'
<1>1. Stream' = Stream
  BY DEF Stream
<1>2. \A t \in Threads : pc[t] = "send2" => PartOf(t, 1)' = PartOf(t, 1)
  BY DEF PartOf
<1> QED
  BY <1>1, <1>2 DEF StreamInv, Whole

LEMMA AppendPart ==
    ASSUME TypeOK, TypeOK', NEW x \in Part, UNCHANGED partial, outbox' = Append(outbox, x)
    PROVE  Stream' = Append(Stream, x)
<1>1. outbox \in Seq(Part) /\ (partial # NoMessage => <<partial>> \in Seq(Part)) /\ << >> \in Seq(Part)
  BY DEF TypeOK
<1>2. CASE partial = NoMessage
  BY <1>1, <1>2, AppendToConcat DEF Stream
<1>3. CASE partial # NoMessage
  BY <1>1, <1>3, AppendToConcat DEF Stream
<1> QED
  BY <1>2, <1>3

LEMMA WholeSendFirst ==
    ASSUME TypeInv, TypeInv', WholeInv, NEW t \in Threads, SendPart(t, "send1", 1, "send2")
    PROVE  StreamInv'
<1> DEFINE x == PartOf(t, 1)
<1>1. /\ UNCHANGED <<msg, partial>> /\ outbox' = Append(outbox, x)
      /\ pc[t] = "send1" /\ pc' = [pc EXCEPT ![t] = "send2"]
  BY DEF SendPart, PartOf
<1>2. x \in Part /\ x.part = 1
  <2>1. x.part = 1
    BY DEF PartOf
  <2> QED
    BY <1>1, <2>1, PartOfType
<1> HIDE DEF x
<1>3. \A u \in Threads : pc[u] # "send2" /\ (u # t => pc'[u] # "send2")
  BY <1>1 DEF WholeInv, Exclusion, TypeInv, TypeOK
<1>4. Stream \in Seq(Part) /\ (Stream = << >> \/ Stream[Len(Stream)].part = 2)
  BY <1>3, StreamType DEF TypeInv, WholeInv, StreamInv
<1>5. Stream' = Append(Stream, x)
  BY <1>1, <1>2, AppendPart DEF TypeInv
<1>6. Whole(Stream')
  <2>1. Whole(Stream)
    BY DEF WholeInv, StreamInv
  <2> QED
    BY <1>2, <1>4, <1>5, <2>1, WholeAppend
<1>7. Stream' # << >> /\ Stream'[Len(Stream')] = x
  BY <1>2, <1>4, <1>5
<1>8. partial' # NoMessage => partial'.part = 1
  BY <1>1 DEF WholeInv, StreamInv
<1>9. pc'[t] = "send2" /\ x = PartOf(t, 1)'
  BY <1>1 DEF TypeInv, TypeOK, x, PartOf
<1> QED
  BY <1>2, <1>3, <1>6, <1>7, <1>8, <1>9 DEF StreamInv, Whole

LEMMA WholeSendSecond ==
    ASSUME TypeInv, TypeInv', WholeInv, NEW t \in Threads, SendPart(t, "send2", 2, "unlock")
    PROVE  StreamInv'
<1> DEFINE x == PartOf(t, 2)
<1>1. /\ UNCHANGED <<msg, partial>> /\ outbox' = Append(outbox, x)
      /\ pc[t] = "send2" /\ pc' = [pc EXCEPT ![t] = "unlock"]
  BY DEF SendPart, PartOf
<1>2. x \in Part /\ x.part = 2 /\ FirstPart(x) = PartOf(t, 1)
  BY <1>1, PartOfType DEF PartOf, FirstPart
<1> HIDE DEF x
<1>3. \A u \in Threads : pc'[u] # "send2"
  BY <1>1 DEF WholeInv, Exclusion, TypeInv, TypeOK
<1>4. Stream \in Seq(Part) /\ Stream # << >> /\ Stream[Len(Stream)] = PartOf(t, 1)
  BY <1>1, StreamType DEF TypeInv, WholeInv, StreamInv
<1>5. Stream' = Append(Stream, x)
  BY <1>1, <1>2, AppendPart DEF TypeInv
<1>6. Whole(Stream')
  <2>1. Whole(Stream)
    BY DEF WholeInv, StreamInv
  <2> QED
    BY <1>2, <1>4, <1>5, <2>1, WholeAppend
<1>7. Stream'[Len(Stream')].part = 2
  BY <1>2, <1>4, <1>5
<1>8. partial' # NoMessage => partial'.part = 1
  BY <1>1 DEF WholeInv, StreamInv
<1> QED
  BY <1>3, <1>6, <1>7, <1>8 DEF StreamInv, Whole

LEMMA WholeRead == ASSUME TypeInv, TypeInv', WholeInv, Read PROVE StreamInv'
<1> DEFINE p == Head(outbox)
<1>1. /\ outbox \in Seq(Part) /\ outbox # << >> /\ p \in Part /\ p # NoMessage
      /\ outbox' = Tail(outbox) /\ UNCHANGED <<pc, msg>>
  BY NoneIsNoPart DEF Read, TypeInv, TypeOK, threadVars
<1>2. Stream \in Seq(Part) /\ Whole(Stream)
  BY StreamType DEF TypeInv, WholeInv, StreamInv
<1>3. \A t \in Threads : PartOf(t, 1)' = PartOf(t, 1)
  BY <1>1 DEF PartOf
<1>4. CASE partial = NoMessage
  <2>1. Stream = outbox
    BY <1>1, <1>4, EmptyConcat DEF Stream
  <2>2. p.part = 1
    <3>1. 1 \in DOMAIN outbox /\ p = outbox[1] /\ p.part \in 1..2
      BY <1>1 DEF Part
    <3>2. p.part = 2 => 1 > 1
      BY <1>2, <2>1, <3>1 DEF Whole
    <3> QED
      BY <3>1, <3>2
  <2>3. partial' = p
    BY <2>2 DEF Read
  <2>4. Stream' = outbox
    BY <1>1, <2>3, HeadConcat DEF Stream
  <2> QED
    BY <1>1, <1>2, <1>3, <2>1, <2>2, <2>3, <2>4 DEF StreamInv, WholeInv, Whole
<1>5. CASE partial # NoMessage
  <2>1. /\ Stream = <<partial>> \o outbox /\ partial \in Part /\ partial.part = 1
    BY <1>5 DEF Stream, TypeInv, TypeOK, WholeInv, StreamInv
  <2>2. Len(Stream) = Len(outbox) + 1 /\ \A k \in 1..Len(outbox) : Stream[k + 1] = outbox[k]
    BY <1>1, <2>1
  <2>3. Stream[1] = partial
    BY <1>1, <2>1
  <2>4. p.part = 2 /\ Len(Stream) >= 2 /\ Stream[2] = p
    <3>1. Len(outbox) >= 1 /\ p = outbox[1] /\ Len(outbox) \in Nat
      BY <1>1
    <3>2. Len(Stream) >= 2 /\ Stream[2] = p /\ 1 \in DOMAIN Stream
      BY <1>2, <2>2, <3>1
    <3>3. Stream[1].part = 1 /\ 1 < Len(Stream) => Stream[1 + 1].part = 2
      BY <1>2, <3>2 DEF Whole
    <3> QED
      BY <2>1, <2>3, <3>2, <3>3
  <2>5. partial' = NoMessage
    BY <2>4 DEF Read
  <2>6. Stream' = Tail(outbox)
    BY <1>1, <2>5, EmptyConcat DEF Stream
  <2>7. /\ Len(Stream') = Len(Stream) - 2 /\ Len(Stream') \in Nat
        /\ \A k \in 1..Len(Stream') : Stream'[k] = Stream[k + 2]
    BY <1>1, <2>2, <2>6
  <2>8. Stream[2].part = 2
    BY <2>4
  <2>9. Whole(Stream')
    <3>1. Stream' \in Seq(Part)
      BY <1>1, <2>6
    <3> QED
      BY <1>2, <2>4, <2>7, <2>8, <3>1, WholeBehind
  <2>10. Stream' = << >> \/ Stream'[Len(Stream')] = Stream[Len(Stream)]
    BY <1>2, <2>7
  <2>11. \A t \in Threads : pc[t] = "send2" => Stream' # << >>
    <3>1. \A t \in Threads : PartOf(t, 1).part = 1
      BY DEF PartOf
    <3>2. Stream' = << >> => Len(Stream) = 2
      <4>1. Stream' = << >> => Len(Stream') = 0
        OBVIOUS
      <4>2. Len(Stream) \in Nat
        BY <1>2
      <4> QED
        BY <2>7, <4>1, <4>2
    <3> QED
      BY <2>8, <3>1, <3>2 DEF WholeInv, StreamInv
  <2>12. \A t \in Threads :
           pc'[t] = "send2" => Stream' # << >> /\ Stream'[Len(Stream')] = PartOf(t, 1)'
    BY <1>1, <1>3, <2>10, <2>11 DEF StreamInv, WholeInv
  <2>13. (\A t \in Threads : pc'[t] # "send2") =>
            Stream' = << >> \/ Stream'[Len(Stream')].part = 2
    <3>1. Stream # << >>
      BY <2>4
    <3> QED
      BY <1>1, <2>10, <3>1 DEF StreamInv, WholeInv
  <2> QED
    BY <2>5, <2>9, <2>12, <2>13 DEF StreamInv, Whole
<1> QED
  BY <1>4, <1>5

LEMMA WholeStep == TypeInv /\ TypeInv' /\ WholeInv /\ [Next]_vars => WholeInv'
<1> SUFFICES ASSUME TypeInv, TypeInv', WholeInv, [Next]_vars PROVE WholeInv'
  OBVIOUS
<1>0. pc \in [Threads -> {"idle", "lock", "send1", "send2", "unlock"}]
      /\ msg \in [Threads -> Message \cup {NoMessage}]
  BY DEF TypeInv, TypeOK
<1>1. ASSUME UNCHANGED <<threadVars, outbox, partial>>
      PROVE  WholeInv'
  BY <1>1, StreamFrame DEF threadVars, WholeInv, Exclusion
<1>2. CASE Read
  BY <1>2, WholeRead DEF Read, threadVars, WholeInv, Exclusion
<1>3. CASE ProcessPacket
  <2>1. UNCHANGED <<outbox, partial, mutxSemaphoreControllerSocket>> /\ pc["com"] = "idle"
    BY <1>3 DEF ProcessPacket
  <2>2. /\ \A t \in Threads \ {"com"} : pc'[t] = pc[t] /\ msg'[t] = msg[t]
        /\ pc'["com"] \in {"idle", "lock"}
    BY <1>0, <1>3 DEF ProcessPacket, Threads
  <2> QED
    BY <2>1, <2>2, StreamFrame DEF WholeInv, Exclusion
<1>4. ASSUME NEW t \in Generators, CreatePacketIn(t)
      PROVE  WholeInv'
  <2>1. UNCHANGED <<outbox, partial, mutxSemaphoreControllerSocket>> /\ pc[t] = "idle"
    BY <1>4 DEF CreatePacketIn
  <2>2. /\ \A u \in Threads \ {t} : pc'[u] = pc[u] /\ msg'[u] = msg[u]
        /\ pc'[t] = "lock"
    BY <1>0, <1>4 DEF CreatePacketIn, Threads
  <2> QED
    BY <2>1, <2>2, StreamFrame DEF WholeInv, Exclusion
<1>5. ASSUME NEW t \in Threads, LockSocket(t)
      PROVE  WholeInv'
  <2>1. /\ UNCHANGED <<outbox, partial, msg>> /\ pc[t] = "lock"
        /\ mutxSemaphoreControllerSocket = None /\ mutxSemaphoreControllerSocket' = t
        /\ pc'[t] = "send1" /\ \A u \in Threads \ {t} : pc'[u] = pc[u]
    BY <1>0, <1>5 DEF LockSocket
  <2>2. None \notin Threads
    BY DEF None, Threads, Generators
  <2> QED
    BY <2>1, <2>2, StreamFrame DEF WholeInv, Exclusion
<1>6. ASSUME NEW t \in Threads, Send(t)
      PROVE  WholeInv'
  <2>1. StreamInv'
    BY <1>6, WholeSendFirst, WholeSendSecond DEF Send
  <2>2. /\ UNCHANGED mutxSemaphoreControllerSocket /\ pc[t] \in {"send1", "send2"}
        /\ \A u \in Threads \ {t} : pc'[u] = pc[u]
    BY <1>0, <1>6 DEF Send, SendPart
  <2> QED
    BY <2>1, <2>2 DEF WholeInv, Exclusion
<1>7. ASSUME NEW t \in Threads, UnlockSocket(t)
      PROVE  WholeInv'
  <2>1. /\ UNCHANGED <<outbox, partial>> /\ pc[t] = "unlock" /\ pc'[t] = "idle"
        /\ \A u \in Threads \ {t} : pc'[u] = pc[u] /\ msg'[u] = msg[u]
    BY <1>0, <1>7 DEF UnlockSocket
  <2>2. \A u \in Threads \ {t} : pc[u] \notin {"send1", "send2", "unlock"}
    BY <2>1 DEF WholeInv, Exclusion
  <2> QED
    BY <2>1, <2>2, StreamFrame DEF WholeInv, Exclusion
<1> QED
  BY <1>1, <1>2, <1>3, <1>4, <1>5, <1>6, <1>7
  DEF Next, Ask, Write, Done, vars, threadVars, SendMessage

(* Whoever sends through a switch's socket, the controller reads its messages *)
(* whole: mutxSemaphoreControllerSocket is enough, and no thread forgets it.  *)
THEOREM MessagesStayWhole == Spec => []WholeMessages
<1>1. WholeInv => WholeMessages
  BY DEF WholeInv, StreamInv, Stream, Whole, WholeMessages, FirstPart
<1>2. Init /\ [][Next]_vars => []TypeInv
  BY TypeInit, TypeStep, PTL
<1> QED
  BY <1>1, <1>2, WholeInit, WholeStep, PTL DEF Spec
-----------------------------------------------------------------------------
(* Answers and requests in order.  A request that calls for an answer has its *)
(* own place among those asked for its xid; on its way it, or its answer, is  *)
(* in the outbox, with the communication thread, in the inbox or being        *)
(* written.  At every time each of these holds the numbers from one cut to    *)
(* the next, in order: none is missing and none is overtaken.                 *)
InNo(r) == IF Calls(r.type) THEN r.xid ELSE 0
OutNo(p) == IF p.part = 2 /\ p.to # NoMessage THEN p.to.xid ELSE 0

InNos == [k \in DOMAIN inbox |-> InNo(inbox[k])]
OutNos == [k \in DOMAIN outbox |-> OutNo(outbox[k])]

Answering == pc["com"] \in {"lock", "send1", "send2"}

\* The numbers in s, apart from zeros, are those above a up to b, in order.
Holds(s, a, b) ==
    /\ a <= b
    /\ \A n \in Nat \ {0} : (\E k \in 1..Len(s) : s[k] = n) <=> a < n /\ n <= b
    /\ \A k, l \in 1..Len(s) : k < l /\ s[k] # 0 /\ s[l] # 0 => s[k] < s[l]

Cuts(o, m, i) ==
    /\ Holds(OutNos, Len(answers), o)
    /\ IF Answering THEN m = o + 1 /\ msg["com"].to.xid = m ELSE m = o
    /\ Holds(InNos, m, i)
    /\ IF writing # NoMessage /\ Calls(writing.type)
         THEN Len(asked) = i + 1 /\ writing.xid = Len(asked)
         ELSE Len(asked) = i

Known(r) == r.xid \in DOMAIN asked /\ asked[r.xid] = r

AskedInv ==
    /\ \A k \in DOMAIN outbox : OutNo(outbox[k]) # 0 => Known(outbox[k].to)
    /\ pc["com"] # "idle" => msg["com"].to \in Request /\ Known(msg["com"].to)
    /\ \A k \in DOMAIN inbox : InNo(inbox[k]) # 0 => Known(inbox[k])
    /\ writing # NoMessage /\ Calls(writing.type) => Known(writing)

RelayInv == \A t \in Generators : pc[t] # "idle" => msg[t].to = NoMessage

AnswersInv == \A n \in DOMAIN answers : answers[n].to = asked[n]

PairInv ==
    AskedInv /\ RelayInv /\ AnswersInv /\ (\E o, m, i \in Nat : Cuts(o, m, i))

LEMMA HoldsEmpty == ASSUME NEW a \in Nat PROVE Holds(<< >>, a, a)
  BY DEF Holds

LEMMA HoldsAppend ==
    ASSUME NEW s \in Seq(Nat), NEW a \in Nat, NEW b \in Nat, Holds(s, a, b),
           NEW x \in Nat, x = 0 \/ x = b + 1
    PROVE  Holds(Append(s, x), a, IF x = 0 THEN b ELSE b + 1)
<1> DEFINE u == Append(s, x)
           c == IF x = 0 THEN b ELSE b + 1
<1>1. /\ Len(s) \in Nat /\ Len(u) = Len(s) + 1 /\ u[Len(s) + 1] = x
      /\ \A k \in 1..Len(s) : u[k] = s[k] /\ s[k] \in Nat
  OBVIOUS
<1> HIDE DEF u
<1>2. c \in Nat /\ a <= c
  BY DEF Holds
<1>3. ASSUME NEW n \in Nat \ {0}
      PROVE  (\E k \in 1..Len(u) : u[k] = n) <=> a < n /\ n <= c
  <2>1. (\E k \in 1..Len(u) : u[k] = n) <=> (\E k \in 1..Len(s) : s[k] = n) \/ x = n
    BY <1>1
  <2>2. (\E k \in 1..Len(s) : s[k] = n) <=> a < n /\ n <= b
    BY DEF Holds
  <2> QED
    BY <2>1, <2>2 DEF Holds
<1>4. ASSUME NEW k \in 1..Len(u), NEW l \in 1..Len(u), k < l, u[k] # 0, u[l] # 0
      PROVE  u[k] < u[l]
  <2>1. k \in 1..Len(s) /\ u[k] = s[k] /\ s[k] \in Nat \ {0}
    BY <1>1, <1>4
  <2>2. s[k] <= b
    BY <2>1 DEF Holds
  <2>3. CASE l \in 1..Len(s)
    BY <1>1, <1>4, <2>1, <2>3 DEF Holds
  <2>4. CASE l = Len(s) + 1
    BY <1>1, <1>4, <2>1, <2>2, <2>4
  <2> QED
    BY <1>1, <2>3, <2>4
<1> QED
  BY <1>2, <1>3, <1>4 DEF Holds, u

LEMMA HoldsTail ==
    ASSUME NEW s \in Seq(Nat), NEW a \in Nat, NEW b \in Nat, Holds(s, a, b), s # << >>
    PROVE  /\ Head(s) # 0 => Head(s) = a + 1
           /\ Holds(Tail(s), IF Head(s) = 0 THEN a ELSE a + 1, b)
<1> DEFINE u == Tail(s)
           h == Head(s)
           c == IF h = 0 THEN a ELSE a + 1
<1>1. /\ Len(s) \in Nat \ {0} /\ Len(u) = Len(s) - 1 /\ h = s[1] /\ h \in Nat
      /\ \A k \in 1..Len(u) : u[k] = s[k + 1] /\ k + 1 \in 1..Len(s)
      /\ \A k \in 1..Len(s) : s[k] \in Nat
      /\ \A k \in 1..Len(s) : k = 1 \/ (k - 1 \in 1..Len(u) /\ u[k - 1] = s[k])
      /\ 1 \in 1..Len(s)
  OBVIOUS
<1> HIDE DEF u, h
<1>a. \A k \in 1..Len(s) : 1 < k /\ h # 0 /\ s[k] # 0 => h < s[k]
  BY <1>1 DEF Holds
<1>2. ASSUME h # 0 PROVE h = a + 1 /\ a < b
  <2>1. a < h /\ h <= b
    BY <1>1, <1>2 DEF Holds
  <2>2. a + 1 \in Nat \ {0} /\ a < a + 1 /\ a + 1 <= b
    BY <1>1, <2>1
  <2>3. PICK k \in 1..Len(s) : s[k] = a + 1
    BY <2>2 DEF Holds
  <2>4. k = 1 \/ h < s[k]
    BY <1>1, <1>2, <1>a, <2>2, <2>3
  <2> QED
    BY <1>1, <2>1, <2>3, <2>4
<1>3. ASSUME NEW n \in Nat \ {0}
      PROVE  (\E k \in 1..Len(u) : u[k] = n) <=> c < n /\ n <= b
  <2>1. (\E k \in 1..Len(s) : s[k] = n) <=> (\E k \in 1..Len(u) : u[k] = n) \/ h = n
    <3>1. ASSUME NEW k \in 1..Len(s), s[k] = n PROVE (\E l \in 1..Len(u) : u[l] = n) \/ h = n
      <4>1. CASE k = 1
        BY <1>1, <3>1, <4>1
      <4>2. CASE k # 1
        <5>1. k - 1 \in 1..Len(u) /\ u[k - 1] = n
          BY <1>1, <3>1, <4>2
        <5> QED
          BY <5>1
      <4> QED
        BY <4>1, <4>2
    <3>2. ASSUME NEW k \in 1..Len(u), u[k] = n PROVE \E l \in 1..Len(s) : s[l] = n
      <4>1. k + 1 \in 1..Len(s) /\ s[k + 1] = n
        BY <1>1, <3>2
      <4> QED
        BY <4>1
    <3>3. h = n => \E l \in 1..Len(s) : s[l] = n
      BY <1>1
    <3> QED
      BY <3>1, <3>2, <3>3
  <2>2. (\E k \in 1..Len(s) : s[k] = n) <=> a < n /\ n <= b
    BY DEF Holds
  <2>3. CASE h = 0
    BY <2>1, <2>2, <2>3
  <2>4. CASE h # 0
    <3>1. ASSUME NEW k \in 1..Len(u), u[k] = n PROVE n > h
      <4>1. k + 1 \in 1..Len(s) /\ 1 < k + 1 /\ s[k + 1] = n
        BY <1>1, <3>1
      <4> QED
        BY <1>1, <1>a, <2>4, <4>1
    <3> QED
      BY <1>1, <1>2, <2>1, <2>2, <2>4, <3>1
  <2> QED
    BY <2>3, <2>4
<1>4. ASSUME NEW k \in 1..Len(u), NEW l \in 1..Len(u), k < l, u[k] # 0, u[l] # 0
      PROVE  u[k] < u[l]
  BY <1>1, <1>4 DEF Holds
<1>5. c <= b
  BY <1>2 DEF Holds
<1> QED
  BY <1>2, <1>3, <1>4, <1>5 DEF Holds, u, h

LEMMA NosType ==
    ASSUME TypeOK
    PROVE  /\ InNos \in Seq(Nat) /\ Len(InNos) = Len(inbox)
           /\ OutNos \in Seq(Nat) /\ Len(OutNos) = Len(outbox)
<1>1. inbox \in Seq(Request) /\ outbox \in Seq(Part)
  BY DEF TypeOK
<1>2. \A r \in Request : InNo(r) \in Nat
  BY ProtocolAssumption DEF InNo, Request
<1>3. \A p \in Part : OutNo(p) \in Nat
  BY ProtocolAssumption DEF OutNo, Part, Request
<1> QED
  BY <1>1, <1>2, <1>3 DEF InNos, OutNos

LEMMA PairInit == Init => PairInv
<1> SUFFICES ASSUME Init PROVE PairInv
  OBVIOUS
<1>1. InNos = << >> /\ OutNos = << >>
  BY DEF Init, InNos, OutNos
<1>2. Len(answers) = 0 /\ Len(asked) = 0 /\ ~Answering /\ writing = NoMessage
  BY DEF Init, Answering, Threads
<1>3. Cuts(0, 0, 0)
  BY <1>1, <1>2, HoldsEmpty DEF Cuts
<1>4. \E o, m, i \in Nat : Cuts(o, m, i)
  BY <1>3
<1> QED
  BY <1>4 DEF Init, PairInv, AskedInv, RelayInv, AnswersInv, Threads, Generators

LEMMA InAppend ==
    ASSUME TypeOK, NEW r \in Request, inbox' = Append(inbox, r)
    PROVE  InNos' = Append(InNos, InNo(r))
<1>1. inbox \in Seq(Request)
  BY DEF TypeOK
<1> QED
  BY <1>1 DEF InNos

LEMMA OutAppend ==
    ASSUME TypeOK, NEW p \in Part, outbox' = Append(outbox, p)
    PROVE  OutNos' = Append(OutNos, OutNo(p))
<1>1. outbox \in Seq(Part)
  BY DEF TypeOK
<1> QED
  BY <1>1 DEF OutNos

LEMMA InTail ==
    ASSUME TypeOK, inbox # << >>, inbox' = Tail(inbox)
    PROVE  InNos' = Tail(InNos) /\ Head(InNos) = InNo(Head(inbox)) /\ InNos # << >>
<1>1. inbox \in Seq(Request)
  BY DEF TypeOK
<1> QED
  BY <1>1 DEF InNos

LEMMA OutTail ==
    ASSUME TypeOK, outbox # << >>, outbox' = Tail(outbox)
    PROVE  OutNos' = Tail(OutNos) /\ Head(OutNos) = OutNo(Head(outbox)) /\ OutNos # << >>
<1>1. outbox \in Seq(Part)
  BY DEF TypeOK
<1> QED
  BY <1>1 DEF OutNos

LEMMA AnswersLag ==
    ASSUME TypeOK, NEW o \in Nat, NEW m \in Nat, NEW i \in Nat, Cuts(o, m, i)
    PROVE  Len(answers) <= Len(asked) /\ i <= Len(asked) /\ Len(asked) \in Nat
           /\ Len(answers) \in Nat /\ Len(answers) <= o
<1>1. Len(answers) \in Nat /\ Len(asked) \in Nat
  BY DEF TypeOK
<1>2. Len(answers) <= o /\ o <= m /\ m <= i /\ i <= Len(asked)
  BY <1>1 DEF Cuts, Holds
<1> QED
  BY <1>1, <1>2

LEMMA CallsAreAnswered ==
    ASSUME NEW type \in RequestTypes
    PROVE  AnswerType(type) = None <=> ~Calls(type)
  BY DEF RequestTypes, AnswerType, None, Calls

LEMMA PairAsk == ASSUME TypeInv, PairInv, NEW type \in RequestTypes, Ask(type) PROVE PairInv'
<1>0. UNCHANGED <<inbox, pc, msg, outbox, answers>> /\ InNos' = InNos /\ OutNos' = OutNos
      /\ (Answering' <=> Answering)
  BY DEF Ask, threadVars, InNos, OutNos, Answering
<1>1. PICK o \in Nat, m \in Nat, i \in Nat : Cuts(o, m, i)
  BY DEF PairInv
<1>2. /\ asked \in Seq(Request) /\ Len(asked) \in Nat /\ Len(answers) \in Nat
      /\ Len(answers) <= Len(asked) /\ answers \in Seq(Part)
  BY <1>1, AnswersLag DEF TypeInv, TypeOK
<1>3. /\ writing = NoMessage /\ writing'.type = type /\ writing'.xid = Len(asked) + 1
      /\ writing' \in Request /\ writing' # NoMessage
  BY <1>2, NoneIsNoPart, ProtocolAssumption DEF Ask, Request
<1>4. Len(asked) = i
  BY <1>1, <1>3 DEF Cuts
<1>5. CASE Calls(type)
  <2>1. asked' = Append(asked, writing')
    BY <1>5 DEF Ask
  <2>2. /\ Len(asked') = Len(asked) + 1 /\ asked'[Len(asked) + 1] = writing'
        /\ \A k \in 1..Len(asked) : asked'[k] = asked[k]
        /\ DOMAIN asked' = 1..(Len(asked) + 1) /\ DOMAIN asked = 1..Len(asked)
    BY <1>2, <1>3, <2>1
  <2>3. Cuts(o, m, i)'
    BY <1>0, <1>1, <1>3, <1>4, <1>5, <2>2 DEF Cuts
  <2>4. \A r : Known(r) => r.xid \in 1..(Len(asked) + 1) /\ asked'[r.xid] = r
    BY <1>2, <2>2 DEF Known
  <2>5. writing'.xid \in DOMAIN asked' /\ asked'[writing'.xid] = writing'
    BY <1>2, <1>3, <2>2
  <2>6. AskedInv'
    BY <1>0, <2>2, <2>4, <2>5 DEF PairInv, AskedInv, Known
  <2>7. AnswersInv'
    BY <1>0, <1>2, <2>2 DEF PairInv, AnswersInv
  <2> QED
    BY <1>0, <2>3, <2>6, <2>7 DEF PairInv, RelayInv
<1>6. CASE ~Calls(type)
  <2>1. asked' = asked
    BY <1>6 DEF Ask
  <2>2. Cuts(o, m, i)'
    BY <1>0, <1>1, <1>3, <1>4, <1>6, <2>1 DEF Cuts
  <2>3. AskedInv'
    BY <1>0, <1>3, <1>6, <2>1 DEF PairInv, AskedInv, Known
  <2> QED
    BY <1>0, <2>1, <2>2, <2>3 DEF PairInv, RelayInv, AnswersInv
<1> QED
  BY <1>5, <1>6

LEMMA PairWrite == ASSUME TypeInv, PairInv, Write PROVE PairInv'
<1>0. /\ UNCHANGED <<pc, msg, outbox, asked, answers>> /\ OutNos' = OutNos
      /\ (Answering' <=> Answering)
      /\ writing' = NoMessage /\ writing \in Request /\ inbox' = Append(inbox, writing)
  BY DEF Write, threadVars, OutNos, Answering, TypeInv, TypeOK
<1>1. PICK o \in Nat, m \in Nat, i \in Nat : Cuts(o, m, i)
  BY DEF PairInv
<1>2. InNos' = Append(InNos, InNo(writing)) /\ InNos \in Seq(Nat) /\ InNo(writing) \in Nat
  BY <1>0, InAppend, NosType, ProtocolAssumption DEF TypeInv, InNo, Request
<1>3. InNo(writing) = IF Calls(writing.type) THEN i + 1 ELSE 0
  BY <1>0, <1>1, NoneIsNoPart DEF Cuts, InNo
<1>4. Holds(InNos, m, i)
  BY <1>1 DEF Cuts
<1>5. Holds(InNos', m, IF Calls(writing.type) THEN i + 1 ELSE i)
  BY <1>2, <1>3, <1>4, HoldsAppend
<1>6. Len(asked) = IF Calls(writing.type) THEN i + 1 ELSE i
  BY <1>0, <1>1, NoneIsNoPart DEF Cuts
<1>7. \E a, b, c \in Nat : Cuts(a, b, c)'
  <2>1. CASE Calls(writing.type)
    <3>1. Cuts(o, m, i + 1)'
      BY <1>0, <1>1, <1>5, <1>6, <2>1 DEF Cuts
    <3> QED
      BY <3>1
  <2>2. CASE ~Calls(writing.type)
    <3>1. Cuts(o, m, i)'
      BY <1>0, <1>1, <1>5, <1>6, <2>2 DEF Cuts
    <3> QED
      BY <3>1
  <2> QED
    BY <2>1, <2>2
<1>8. AskedInv'
  <2>1. \A k \in DOMAIN inbox' : inbox'[k] = writing \/ (k \in DOMAIN inbox /\ inbox'[k] = inbox[k])
    BY <1>0 DEF TypeInv, TypeOK
  <2>2. InNo(writing) # 0 => Known(writing)
    BY <1>0, NoneIsNoPart DEF PairInv, AskedInv, InNo
  <2>3. \A k \in DOMAIN inbox' : InNo(inbox'[k]) # 0 => Known(inbox'[k])
    BY <2>1, <2>2 DEF PairInv, AskedInv
  <2> QED
    BY <1>0, <2>3 DEF PairInv, AskedInv, Known
<1> QED
  BY <1>0, <1>7, <1>8 DEF PairInv, RelayInv, AnswersInv

LEMMA PairRead == ASSUME TypeInv, PairInv, Read PROVE PairInv'
<1> DEFINE p == Head(outbox)
<1>0. /\ UNCHANGED <<writing, inbox, pc, msg, asked>> /\ InNos' = InNos
      /\ (Answering' <=> Answering)
      /\ outbox # << >> /\ outbox' = Tail(outbox) /\ p \in Part
  BY DEF Read, threadVars, InNos, Answering, TypeInv, TypeOK
<1>1. PICK o \in Nat, m \in Nat, i \in Nat : Cuts(o, m, i)
  BY DEF PairInv
<1>2. /\ OutNos' = Tail(OutNos) /\ Head(OutNos) = OutNo(p) /\ OutNos # << >>
      /\ OutNos \in Seq(Nat)
  BY <1>0, OutTail, NosType DEF TypeInv
<1>3. Holds(OutNos, Len(answers), o) /\ Len(answers) \in Nat /\ answers \in Seq(Part)
  BY <1>1, AnswersLag DEF Cuts, TypeInv, TypeOK
<1>4. /\ OutNo(p) # 0 => OutNo(p) = Len(answers) + 1
      /\ Holds(OutNos', IF OutNo(p) = 0 THEN Len(answers) ELSE Len(answers) + 1, o)
  BY <1>2, <1>3, HoldsTail
<1>5. \A k \in DOMAIN outbox' : k + 1 \in DOMAIN outbox /\ outbox'[k] = outbox[k + 1]
  BY <1>0 DEF TypeInv, TypeOK
<1>6. AskedInv'
  BY <1>0, <1>5 DEF PairInv, AskedInv, Known
<1>7. OutNo(p) # 0 => Known(p.to)
  <2>1. 1 \in DOMAIN outbox /\ outbox[1] = p
    BY <1>0 DEF TypeInv, TypeOK
  <2> QED
    BY <2>1 DEF PairInv, AskedInv
<1>8. CASE OutNo(p) = 0
  <2>1. answers' = answers
    <3>1. p.part # 1 => p.to = NoMessage
      <4>1. p.part \in 1..2 /\ p.to \in Request \cup {NoMessage}
        BY <1>0 DEF Part
      <4>2. p.to \in Request => p.to.xid # 0
        BY ProtocolAssumption DEF Request
      <4> QED
        BY <1>8, <4>1, <4>2 DEF OutNo
    <3> QED
      BY <3>1 DEF Read
  <2>2. Cuts(o, m, i)'
    BY <1>0, <1>1, <1>4, <1>8, <2>1 DEF Cuts
  <2> QED
    BY <1>0, <1>6, <2>1, <2>2 DEF PairInv, RelayInv, AnswersInv
<1>9. CASE OutNo(p) # 0
  <2>1. p.part = 2 /\ p.to # NoMessage /\ p.to.xid = Len(answers) + 1
    BY <1>4, <1>9 DEF OutNo
  <2>2. answers' = Append(answers, p)
    BY <2>1 DEF Read
  <2>3. /\ Len(answers') = Len(answers) + 1 /\ answers'[Len(answers) + 1] = p
        /\ \A n \in DOMAIN answers : answers'[n] = answers[n]
        /\ \A n \in DOMAIN answers' : n = Len(answers) + 1 \/ n \in DOMAIN answers
    BY <1>0, <1>3, <2>2
  <2>4. Cuts(o, m, i)'
    BY <1>0, <1>1, <1>4, <1>9, <2>3 DEF Cuts
  <2>5. asked[Len(answers) + 1] = p.to
    BY <1>7, <1>9, <2>1 DEF Known
  <2>6. AnswersInv'
    BY <1>0, <2>3, <2>5 DEF PairInv, AnswersInv
  <2> QED
    BY <1>0, <1>6, <2>4, <2>6 DEF PairInv, RelayInv
<1> QED
  BY <1>8, <1>9

LEMMA PairProcess == ASSUME TypeInv, PairInv, ProcessPacket PROVE PairInv'
<1> DEFINE r == Head(inbox)
<1>0. /\ UNCHANGED <<writing, outbox, answers, asked>> /\ OutNos' = OutNos
      /\ ~Answering /\ pc["com"] = "idle"
      /\ inbox # << >> /\ inbox' = Tail(inbox) /\ r \in Request
  BY DEF ProcessPacket, OutNos, Answering, TypeInv, TypeOK
<1>1. PICK o \in Nat, m \in Nat, i \in Nat : Cuts(o, m, i)
  BY DEF PairInv
<1>2. /\ InNos' = Tail(InNos) /\ Head(InNos) = InNo(r) /\ InNos # << >>
      /\ InNos \in Seq(Nat)
  BY <1>0, InTail, NosType DEF TypeInv
<1>3. Holds(InNos, m, i) /\ m = o
  BY <1>0, <1>1 DEF Cuts
<1>4. /\ InNo(r) # 0 => InNo(r) = m + 1
      /\ Holds(InNos', IF InNo(r) = 0 THEN m ELSE m + 1, i)
  BY <1>2, <1>3, HoldsTail
<1>5. \A k \in DOMAIN inbox' : k + 1 \in DOMAIN inbox /\ inbox'[k] = inbox[k + 1]
  BY <1>0 DEF TypeInv, TypeOK
<1>6. InNo(r) # 0 => Known(r)
  <2>1. 1 \in DOMAIN inbox /\ inbox[1] = r
    BY <1>0 DEF TypeInv, TypeOK
  <2> QED
    BY <2>1 DEF PairInv, AskedInv
<1>7. InNo(r) = 0 <=> AnswerType(r.type) = None
  BY <1>0, CallsAreAnswered, ProtocolAssumption DEF InNo, Request
<1>8. pc \in [Threads -> {"idle", "lock", "send1", "send2", "unlock"}]
      /\ msg \in [Threads -> Message \cup {NoMessage}]
      /\ "com" \in Threads /\ Generators \subseteq Threads /\ "com" \notin Generators
  BY DEF TypeInv, TypeOK, Threads, Generators
<1>9. CASE InNo(r) = 0
  <2>1. UNCHANGED <<pc, msg>> /\ ~Answering'
    BY <1>0, <1>7, <1>9 DEF ProcessPacket, Answering
  <2>2. Cuts(o, m, i)'
    BY <1>0, <1>1, <1>4, <1>9, <2>1 DEF Cuts
  <2>3. AskedInv'
    BY <1>0, <1>5, <2>1 DEF PairInv, AskedInv, Known
  <2> QED
    BY <1>0, <2>1, <2>2, <2>3 DEF PairInv, RelayInv, AnswersInv
<1>10. CASE InNo(r) # 0
  <2> DEFINE a == [type |-> AnswerType(r.type), xid |-> AnswerXid(r.type), to |-> r]
  <2>1. pc' = [pc EXCEPT !["com"] = "lock"] /\ msg' = [msg EXCEPT !["com"] = a]
    BY <1>7, <1>10 DEF ProcessPacket
  <2>2. a.to = r
    OBVIOUS
  <2> HIDE DEF a
  <2>3. /\ pc'["com"] = "lock" /\ msg'["com"].to = r
        /\ \A t \in Generators : pc'[t] = pc[t] /\ msg'[t] = msg[t]
    BY <1>8, <2>1, <2>2
  <2>4. r.xid = m + 1 /\ Known(r)
    BY <1>4, <1>6, <1>10 DEF InNo
  <2>5. Cuts(o, m + 1, i)'
    BY <1>0, <1>1, <1>3, <1>4, <1>10, <2>3, <2>4 DEF Cuts, Answering
  <2>6. AskedInv'
    BY <1>0, <1>5, <2>3, <2>4 DEF PairInv, AskedInv, Known
  <2>7. \E x, y, z \in Nat : Cuts(x, y, z)'
    BY <2>5
  <2> QED
    BY <1>0, <2>3, <2>6, <2>7 DEF PairInv, RelayInv, AnswersInv
<1> QED
  BY <1>9, <1>10

\* A step of a thread that leaves what the controller sees alone.
LEMMA PairFrame ==
    ASSUME PairInv, UNCHANGED <<writing, inbox, outbox, asked, answers>>,
           Answering' <=> Answering,
           pc["com"] # "idle" => msg'["com"] = msg["com"],
           pc'["com"] # "idle" => pc["com"] # "idle",
           \A t \in Generators : pc'[t] # "idle" => msg'[t].to = NoMessage
    PROVE  PairInv'
<1>1. PICK o \in Nat, m \in Nat, i \in Nat : Cuts(o, m, i)
  BY DEF PairInv
<1>2. InNos' = InNos /\ OutNos' = OutNos
  BY DEF InNos, OutNos
<1>3. Answering => pc["com"] # "idle"
  BY DEF Answering
<1>4. Cuts(o, m, i)'
  BY <1>1, <1>2, <1>3 DEF Cuts
<1>5. AskedInv'
  BY DEF PairInv, AskedInv, Known
<1> QED
  BY <1>4, <1>5 DEF PairInv, RelayInv, AnswersInv

LEMMA PairSend ==
    ASSUME TypeInv, PairInv, NEW t \in Threads, NEW from, NEW part \in 1..2, NEW to,
           \/ from = "send1" /\ part = 1 /\ to = "send2"
           \/ from = "send2" /\ part = 2 /\ to = "unlock",
           SendPart(t, from, part, to)
    PROVE  PairInv'
<1> DEFINE x == PartOf(t, part)
<1>0. /\ UNCHANGED <<writing, inbox, msg, asked, answers>> /\ InNos' = InNos
      /\ outbox' = Append(outbox, x) /\ pc[t] = from
      /\ pc' = [pc EXCEPT ![t] = to]
  BY DEF SendPart, PartOf, InNos
<1>1. PICK o \in Nat, m \in Nat, i \in Nat : Cuts(o, m, i)
  BY DEF PairInv
<1>2. x \in Part /\ x.part = part /\ x.to = msg[t].to
  BY <1>0, PartOfType DEF PartOf
<1> HIDE DEF x
<1>3. OutNos' = Append(OutNos, OutNo(x)) /\ OutNos \in Seq(Nat) /\ OutNo(x) \in Nat
  BY <1>0, <1>2, OutAppend, NosType, ProtocolAssumption DEF TypeInv, OutNo, Part, Request
<1>4. pc \in [Threads -> {"idle", "lock", "send1", "send2", "unlock"}]
      /\ "com" \in Threads /\ Threads = Generators \cup {"com"} /\ "com" \notin Generators
  BY DEF TypeInv, TypeOK, Threads, Generators
<1>5. t # "com" => msg[t].to = NoMessage
  BY <1>0, <1>4 DEF PairInv, RelayInv
<1>6. t = "com" => msg["com"].to \in Request /\ Known(msg["com"].to) /\ m = o + 1
                   /\ msg["com"].to.xid = m /\ Answering
  BY <1>0, <1>1 DEF PairInv, AskedInv, Cuts, Answering
<1>7. OutNo(x) = IF t = "com" /\ part = 2 THEN o + 1 ELSE 0
  BY <1>2, <1>5, <1>6, NoneIsNoPart DEF OutNo
<1>8. Holds(OutNos, Len(answers), o) /\ Len(answers) \in Nat
  BY <1>1, AnswersLag DEF Cuts, TypeInv
<1>9. Holds(OutNos', Len(answers), IF OutNo(x) = 0 THEN o ELSE o + 1)
  BY <1>3, <1>7, <1>8, HoldsAppend
<1>10. AskedInv'
  <2>1. \A k \in DOMAIN outbox' : outbox'[k] = x \/ (k \in DOMAIN outbox /\ outbox'[k] = outbox[k])
    BY <1>0, <1>2 DEF TypeInv, TypeOK
  <2>2. OutNo(x) # 0 => Known(x.to)
    BY <1>2, <1>6, <1>7
  <2>3. \A k \in DOMAIN outbox' : OutNo(outbox'[k]) # 0 => Known(outbox'[k].to)
    BY <2>1, <2>2 DEF PairInv, AskedInv
  <2>4. pc'["com"] # "idle" => pc["com"] # "idle"
    BY <1>0, <1>4
  <2> QED
    BY <1>0, <2>3, <2>4 DEF PairInv, AskedInv, Known
<1>11. RelayInv'
  BY <1>0, <1>4 DEF PairInv, RelayInv
<1>12. CASE t = "com" /\ part = 2
  <2>1. ~Answering'
    BY <1>0, <1>4, <1>12 DEF Answering
  <2>2. Cuts(o + 1, m, i)'
    BY <1>0, <1>1, <1>6, <1>7, <1>9, <1>12, <2>1 DEF Cuts
  <2>3. \E a, b, c \in Nat : Cuts(a, b, c)'
    BY <2>2
  <2> QED
    BY <1>0, <1>10, <1>11, <2>3 DEF PairInv, AnswersInv
<1>13. CASE ~(t = "com" /\ part = 2)
  <2>1. Answering' <=> Answering
    BY <1>0, <1>4, <1>13 DEF Answering
  <2>2. Cuts(o, m, i)'
    BY <1>0, <1>1, <1>7, <1>9, <1>13, <2>1 DEF Cuts
  <2> QED
    BY <1>0, <1>10, <1>11, <2>2 DEF PairInv, AnswersInv
<1> QED
  BY <1>12, <1>13

LEMMA PairThread ==
    ASSUME TypeInv, PairInv, NEW t \in Threads,
           (t \in Generators /\ CreatePacketIn(t)) \/ LockSocket(t) \/ UnlockSocket(t)
    PROVE  PairInv'
<1>0. pc \in [Threads -> {"idle", "lock", "send1", "send2", "unlock"}]
      /\ msg \in [Threads -> Message \cup {NoMessage}]
      /\ "com" \in Threads /\ Generators \subseteq Threads /\ "com" \notin Generators
  BY DEF TypeInv, TypeOK, Threads, Generators
<1>1. UNCHANGED <<writing, inbox, outbox, asked, answers>>
  BY DEF CreatePacketIn, LockSocket, UnlockSocket
<1>2. CASE t \in Generators /\ CreatePacketIn(t)
  <2> DEFINE a == [type |-> "PACKET_IN", xid |-> generated'[t], to |-> NoMessage]
  <2>1. pc' = [pc EXCEPT ![t] = "lock"] /\ msg' = [msg EXCEPT ![t] = a]
    BY <1>2 DEF CreatePacketIn
  <2>2. a.to = NoMessage
    OBVIOUS
  <2> HIDE DEF a
  <2>3. /\ pc'["com"] = pc["com"] /\ msg'["com"] = msg["com"]
        /\ \A u \in Generators : pc'[u] # "idle" => msg'[u].to = NoMessage
    BY <1>0, <1>2, <2>1, <2>2 DEF PairInv, RelayInv
  <2> QED
    BY <1>1, <2>3, PairFrame DEF Answering
<1>3. CASE LockSocket(t)
  <2>1. pc[t] = "lock" /\ pc' = [pc EXCEPT ![t] = "send1"] /\ msg' = msg
    BY <1>3 DEF LockSocket
  <2>2. /\ Answering' <=> Answering
        /\ pc'["com"] # "idle" => pc["com"] # "idle"
        /\ \A u \in Generators : pc'[u] # "idle" => msg'[u].to = NoMessage
    BY <1>0, <2>1 DEF Answering, PairInv, RelayInv
  <2> QED
    BY <1>1, <2>1, <2>2, PairFrame
<1>4. CASE UnlockSocket(t)
  <2>1. /\ pc[t] = "unlock" /\ pc' = [pc EXCEPT ![t] = "idle"]
        /\ msg' = [msg EXCEPT ![t] = NoMessage]
    BY <1>4 DEF UnlockSocket
  <2>2. /\ \A u \in Threads : u # t => pc'[u] = pc[u] /\ msg'[u] = msg[u]
        /\ pc'[t] = "idle"
    BY <1>0, <2>1
  <2>3. CASE t = "com"
    <3>1. PICK o \in Nat, m \in Nat, i \in Nat : Cuts(o, m, i)
      BY DEF PairInv
    <3>2. InNos' = InNos /\ OutNos' = OutNos /\ ~Answering' /\ ~Answering
      BY <1>1, <2>1, <2>2, <2>3 DEF InNos, OutNos, Answering
    <3>3. Cuts(o, m, i)'
      BY <1>1, <3>1, <3>2 DEF Cuts
    <3>4. AskedInv'
      BY <1>1, <2>2, <2>3 DEF PairInv, AskedInv, Known
    <3>5. RelayInv'
      BY <1>0, <2>2, <2>3 DEF PairInv, RelayInv
    <3> QED
      BY <1>1, <3>3, <3>4, <3>5 DEF PairInv, AnswersInv
  <2>4. CASE t # "com"
    <3>1. /\ pc'["com"] = pc["com"] /\ msg'["com"] = msg["com"]
          /\ \A u \in Generators : pc'[u] # "idle" => msg'[u].to = NoMessage
      BY <1>0, <2>2, <2>4 DEF PairInv, RelayInv
    <3> QED
      BY <1>1, <3>1, PairFrame DEF Answering
  <2> QED
    BY <2>3, <2>4
<1> QED
  BY <1>2, <1>3, <1>4

LEMMA PairStep == TypeInv /\ PairInv /\ [Next]_vars => PairInv'
<1> SUFFICES ASSUME TypeInv, PairInv, [Next]_vars PROVE PairInv'
  OBVIOUS
<1>1. CASE UNCHANGED vars
  BY <1>1, PairFrame DEF vars, threadVars, Answering, PairInv, RelayInv
<1>2. ASSUME NEW t \in Threads, SendMessage(t) PROVE PairInv'
  <2>1. CASE LockSocket(t) \/ UnlockSocket(t)
    BY <2>1, PairThread
  <2>2. CASE SendPart(t, "send1", 1, "send2")
    BY <2>2, PairSend
  <2>3. CASE SendPart(t, "send2", 2, "unlock")
    BY <2>3, PairSend
  <2> QED
    BY <1>2, <2>1, <2>2, <2>3 DEF SendMessage, Send
<1>3. ASSUME NEW t \in Generators, CreatePacketIn(t) PROVE PairInv'
  BY <1>3, PairThread DEF Threads
<1> QED
  BY <1>1, <1>2, <1>3, PairAsk, PairWrite, PairRead, PairProcess DEF Next, Done

(* Whatever the room in the socket and the number of threads that send, and   *)
(* although no answer repeats the xid of its request: process_packet answers  *)
(* in the order of the requests, every one that calls for an answer and no    *)
(* other, so that the controller can pair the n-th with the n-th.            *)
THEOREM AnswersArePaired == Spec => []PairedByOrder
<1>1. TypeInv /\ PairInv => PairedByOrder
  BY AnswersLag DEF TypeInv, PairInv, AnswersInv, PairedByOrder
<1>2. Init /\ [][Next]_vars => []TypeInv
  BY TypeInit, TypeStep, PTL
<1> QED
  BY <1>1, <1>2, PairInit, PairStep, PTL DEF Spec
=============================================================================
