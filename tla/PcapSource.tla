----------------------------- MODULE PcapSource -----------------------------
(***************************************************************************)
(* What the batch thread expects of a pcap file: its packets, one per      *)
(* round, in the order of the file; once, or round and round when the file *)
(* is looped.  A round may also bring nothing.                             *)
(*                                                                         *)
(* A record without data ends a looped file for good, unless it is the     *)
(* first: what lies behind it is never sent.  A file with a length that    *)
(* cannot be read is promised nothing.                                     *)
(***************************************************************************)
EXTENDS Integers, Sequences

VARIABLES
    records,   \* the file: its records' lengths, and whether the file has all of it
    loop,      \* the file is looped
    opened,
    next,      \* the record to be sent next, a position in the file
    last       \* the record sent in the last round; 0: none

vars == <<records, loop, opened, next, last>>

HasData(r) == r.len > 0 /\ r.complete

\* A length that two bytes hold.
Sound(r) == r.len <= 65535

WellFormed == \A i \in DOMAIN records : Sound(records[i])

(* The records that are sent at all.                                         *)
Usable(i) ==
    /\ i \in DOMAIN records
    /\ HasData(records[i])
    /\ \A j \in 1..i : records[j].complete
    /\ loop => \A j \in 2..i : HasData(records[j])

Init == ~opened /\ next = 1 /\ last = 0

Open == ~opened /\ opened' /\ loop' \in BOOLEAN /\ UNCHANGED <<records, next, last>>

\* i is the first usable record at or behind position p.
Following(p, i) == i >= p /\ Usable(i) /\ \A j \in p..(i - 1) : ~Usable(j)

\* All usable records have been sent, and it starts over.
Over == loop /\ \A j \in DOMAIN records : j >= next => ~Usable(j)

Deliver(i) ==
    /\ opened
    /\ Following(next, i) \/ (Over /\ Following(1, i))
    /\ last' = i /\ next' = i + 1
    /\ UNCHANGED <<records, loop, opened>>

(* Nothing is sent; no packet is passed over by that.                        *)
Pause ==
    /\ opened
    /\ last' = 0
    /\ \/ next' >= next /\ \A j \in next..(next' - 1) : ~Usable(j)
       \/ Over /\ next' = 2 /\ ~Usable(1)
    /\ UNCHANGED <<records, loop, opened>>

Anything == ~WellFormed /\ opened /\ UNCHANGED <<records, loop, opened>>

Next == Open \/ (\E i \in DOMAIN records : Deliver(i)) \/ Pause \/ Anything

Spec == Init /\ [][Next]_vars
=============================================================================
