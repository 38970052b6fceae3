------------------------------ MODULE Protocol ------------------------------
(***************************************************************************)
(* The OpenFlow conversation of one switch over its only socket.  The       *)
(* communication thread answers the controller's requests (process_packet,  *)
(* packets.hpp); the batch thread sends packet-ins, and the communication   *)
(* threads of other switches send OFDP packet-ins through this switch       *)
(* (send_packet_through_switch).  All of them hold                          *)
(* mutxSemaphoreControllerSocket while send() runs, and send() blocks when  *)
(* the socket is full.  The switch is the first one: every OFDP packet-in   *)
(* leaves through it, its own included.                                     *)
(*                                                                         *)
(* A message is two parts, enough to see whether two senders mix them.      *)
(***************************************************************************)
EXTENDS Integers, Sequences

CONSTANTS
    InRoom,          \* requests on their way to the switch
    OutRoom,         \* parts of messages on their way to the controller
    MaxRequests,     \* bound: requests of the controller
    MaxPackets,      \* bound: packet-ins of the batch thread and of the relays,
                     \* each; stop_() ends the former
    ReadsAlways      \* environment: the controller reads also while its own
                     \* write is blocked

ASSUME ProtocolAssumption ==
    /\ InRoom \in Nat \ {0} /\ OutRoom \in Nat \ {0}
    /\ MaxRequests \in Nat /\ MaxPackets \in Nat
    /\ ReadsAlways \in BOOLEAN

\* OTHER: requests process_packet only logs or stores, BARRIER_REQUEST,
\* STATS_REQUEST and GET_CONFIG_REQUEST among them.
RequestTypes == {"HELLO", "ECHO_REQUEST", "FEATURES_REQUEST", "VENDOR", "OFDP", "OTHER"}
Request == [type : RequestTypes, xid : 1..MaxRequests]

Generators == {"batch", "relay"}
Threads == Generators \cup {"com"}

None == "none"
NoMessage == [type |-> None]

VARIABLES
    writing,       \* the request the controller is writing, if any
    inbox,         \* requests on their way
    pc, msg,       \* of every thread: where it is, the message it sends, if any
    mutxSemaphoreControllerSocket,   \* its owner, or None
    outbox,        \* parts on their way
    partial,       \* first part of the message the controller is reading, if any
    generated,     \* packet-ins begun, of each generator
    asked,         \* history: requests that call for an answer, in order
    answers        \* history: answers the controller has read, in order
threadVars == <<pc, msg, mutxSemaphoreControllerSocket>>
vars == <<writing, inbox, threadVars, outbox, partial, generated, asked, answers>>

\* Mutant: the case OFPT_VENDOR falls out of the switch without a reply.
AnswerTypeNoError(type) ==
    CASE type = "HELLO" -> "HELLO"
      [] type = "ECHO_REQUEST" -> "ECHO_REPLY"
      [] type = "FEATURES_REQUEST" -> "FEATURES_REPLY"
      [] type = "OFDP" -> "PACKET_IN"
      [] OTHER -> None

(* What process_packet sends for a request; an OFDP probe of a port with a    *)
(* neighbour comes back as a packet-in.                                       *)
AnswerType(type) ==
    CASE type = "HELLO" -> "HELLO"
      [] type = "ECHO_REQUEST" -> "ECHO_REPLY"
      [] type = "FEATURES_REQUEST" -> "FEATURES_REPLY"
      [] type = "VENDOR" -> "ERROR"
      [] type = "OFDP" -> "PACKET_IN"
      [] OTHER -> None

(* packet_create() and the OFDP packet-in set the transaction id. *)
AnswerXid(type) == IF type \in {"HELLO", "OFDP"} THEN 0 ELSE 1

(* A request calls for an answer, here, if process_packet has a case that     *)
(* answers it.  Requests OpenFlow wants answered but process_packet only logs *)
(* (barrier, statistics, configuration) are of the type OTHER and call for    *)
(* none.                                                                      *)
Calls(type) == type # "OTHER"

Init ==
    /\ writing = NoMessage
    /\ inbox = << >>
    /\ pc = [t \in Threads |-> "idle"]
    /\ msg = [t \in Threads |-> NoMessage]
    /\ mutxSemaphoreControllerSocket = None
    /\ outbox = << >>
    /\ partial = NoMessage
    /\ generated = [t \in Generators |-> 0]
    /\ asked = << >>
    /\ answers = << >>

-----------------------------------------------------------------------------
(* The controller: it writes requests and reads what the switch sends. *)
Ask(type) ==
    /\ writing = NoMessage
    /\ Len(asked) < MaxRequests
    /\ writing' = [type |-> type, xid |-> Len(asked) + 1]
    /\ asked' = IF Calls(type) THEN Append(asked, writing') ELSE asked
    /\ UNCHANGED <<inbox, threadVars, outbox, partial, generated, answers>>

Write ==
    /\ writing # NoMessage /\ Len(inbox) < InRoom
    /\ inbox' = Append(inbox, writing)
    /\ writing' = NoMessage
    /\ UNCHANGED <<threadVars, outbox, partial, generated, asked, answers>>

Read ==
    /\ outbox # << >>
    /\ ReadsAlways \/ writing = NoMessage
    /\ outbox' = Tail(outbox)
    /\ LET p == Head(outbox)
       IN  IF p.part = 1
             THEN partial' = p /\ UNCHANGED answers
             ELSE /\ partial' = NoMessage
                  /\ answers' = IF p.to = NoMessage THEN answers ELSE Append(answers, p)
    /\ UNCHANGED <<writing, inbox, threadVars, generated, asked>>

-----------------------------------------------------------------------------
(* process_packet: an answer is created, or the request is done with. *)
ProcessPacket ==
    /\ pc["com"] = "idle" /\ inbox # << >>
    /\ inbox' = Tail(inbox)
    /\ LET r == Head(inbox)
       IN  IF AnswerType(r.type) = None
             THEN UNCHANGED <<pc, msg>>
             ELSE /\ pc' = [pc EXCEPT !["com"] = "lock"]
                  /\ msg' = [msg EXCEPT !["com"] =
                               [type |-> AnswerType(r.type), xid |-> AnswerXid(r.type), to |-> r]]
    /\ UNCHANGED <<writing, mutxSemaphoreControllerSocket, outbox, partial, generated,
                   asked, answers>>

(* The batch thread's next packet-in, or one relayed for another switch. *)
CreatePacketIn(t) ==
    /\ pc[t] = "idle" /\ generated[t] < MaxPackets
    /\ generated' = [generated EXCEPT ![t] = @ + 1]
    /\ pc' = [pc EXCEPT ![t] = "lock"]
    /\ msg' = [msg EXCEPT ![t] = [type |-> "PACKET_IN", xid |-> generated'[t], to |-> NoMessage]]
    /\ UNCHANGED <<writing, inbox, mutxSemaphoreControllerSocket, outbox, partial, asked, answers>>

\* Mutant: send() without the mutex around it.
LockSocketNot(t) ==
    /\ pc[t] = "lock"
    /\ pc' = [pc EXCEPT ![t] = "send1"]
    /\ UNCHANGED <<writing, inbox, msg, mutxSemaphoreControllerSocket, outbox, partial,
                   generated, asked, answers>>

LockSocket(t) ==
    /\ pc[t] = "lock"
    /\ mutxSemaphoreControllerSocket = None
    /\ mutxSemaphoreControllerSocket' = t
    /\ pc' = [pc EXCEPT ![t] = "send1"]
    /\ UNCHANGED <<writing, inbox, msg, outbox, partial, generated, asked, answers>>

\* Mutant: a socket without blocking, and nobody looks at what send() returns.
SendPartNoWait(t, from, part, to) ==
    /\ pc[t] = from
    /\ outbox' = Append(outbox, [type |-> msg[t].type, xid |-> msg[t].xid, to |-> msg[t].to,
                                 from |-> t, part |-> part])
    /\ pc' = [pc EXCEPT ![t] = to]
    /\ UNCHANGED <<writing, inbox, msg, mutxSemaphoreControllerSocket, partial, generated,
                   asked, answers>>

SendPart(t, from, part, to) ==
    /\ pc[t] = from
    /\ Len(outbox) < OutRoom
    /\ outbox' = Append(outbox, [type |-> msg[t].type, xid |-> msg[t].xid, to |-> msg[t].to,
                                 from |-> t, part |-> part])
    /\ pc' = [pc EXCEPT ![t] = to]
    /\ UNCHANGED <<writing, inbox, msg, mutxSemaphoreControllerSocket, partial, generated,
                   asked, answers>>

Send(t) == SendPart(t, "send1", 1, "send2") \/ SendPart(t, "send2", 2, "unlock")

\* Mutant: an early return between lock() and unlock().
UnlockSocketNot(t) ==
    /\ pc[t] = "unlock"
    /\ pc' = [pc EXCEPT ![t] = "idle"]
    /\ msg' = [msg EXCEPT ![t] = NoMessage]
    /\ UNCHANGED <<writing, inbox, mutxSemaphoreControllerSocket, outbox, partial, generated,
                   asked, answers>>

UnlockSocket(t) ==
    /\ pc[t] = "unlock"
    /\ mutxSemaphoreControllerSocket' = None
    /\ pc' = [pc EXCEPT ![t] = "idle"]
    /\ msg' = [msg EXCEPT ![t] = NoMessage]
    /\ UNCHANGED <<writing, inbox, outbox, partial, generated, asked, answers>>

SendMessage(t) == LockSocket(t) \/ Send(t) \/ UnlockSocket(t)

\* All is said and sent.
Done ==
    /\ writing = NoMessage /\ inbox = << >> /\ outbox = << >>
    /\ \A t \in Threads : pc[t] = "idle"
    /\ UNCHANGED vars

Next == \/ \E type \in RequestTypes : Ask(type)
        \/ Write
        \/ Read
        \/ ProcessPacket
        \/ \E t \in Generators : CreatePacketIn(t)
        \/ \E t \in Threads : SendMessage(t)
        \/ Done

Spec == Init /\ [][Next]_vars

Fairness ==
    /\ WF_vars(Write) /\ WF_vars(Read)
    /\ WF_vars(ProcessPacket)
    /\ \A t \in Threads : WF_vars(SendMessage(t))

FairSpec == Spec /\ Fairness

-----------------------------------------------------------------------------
Answers == {AnswerType(type) : type \in RequestTypes} \ {None}
Message == [type : Answers, xid : Nat, to : Request \cup {NoMessage}]
Part == [type : Answers, xid : Nat, to : Request \cup {NoMessage}, from : Threads, part : 1..2]

(* Types of all variables, and room is respected. *)
TypeOK ==
    /\ writing \in Request \cup {NoMessage}
    /\ inbox \in Seq(Request) /\ Len(inbox) <= InRoom
    /\ pc \in [Threads -> {"idle", "lock", "send1", "send2", "unlock"}]
    /\ msg \in [Threads -> Message \cup {NoMessage}]
    /\ mutxSemaphoreControllerSocket \in Threads \cup {None}
    /\ outbox \in Seq(Part) /\ Len(outbox) <= OutRoom
    /\ partial \in Part \cup {NoMessage}
    /\ generated \in [Generators -> 0..MaxPackets]
    /\ asked \in Seq(Request) /\ Len(asked) <= MaxRequests
    /\ answers \in Seq(Part)

(* The stream the controller reads is a sequence of whole messages: the parts *)
(* of one are never separated by those of another thread, the communication   *)
(* threads of other switches included.                                        *)
WholeMessages ==
    LET stream == (IF partial = NoMessage THEN << >> ELSE <<partial>>) \o outbox
    IN  \A k \in DOMAIN stream :
          /\ stream[k].part = 2 => /\ k > 1
                                   /\ stream[k - 1] = [stream[k] EXCEPT !.part = 1]
          /\ stream[k].part = 1 /\ k < Len(stream) => stream[k + 1].part = 2

(* The n-th answer belongs to the n-th request that calls for one: order is   *)
(* all the controller has to pair them, for packet_create() puts the same     *)
(* transaction id into every reply.                                           *)
PairedByOrder ==
    /\ Len(answers) <= Len(asked)
    /\ \A n \in DOMAIN answers : answers[n].to = asked[n]

(* Every request that calls for an answer, in the sense of Calls, is answered: *)
(* socket and mutex do not block each other for ever.  Needs a controller     *)
(* that keeps reading; with one that does not while its own write is blocked, *)
(* the batch thread and the communication thread all wait for each other.     *)
AllAnswered == \A n \in 1..MaxRequests : Len(asked) >= n ~> Len(answers) >= n
=============================================================================
