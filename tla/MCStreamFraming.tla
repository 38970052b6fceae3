-------------------------- MODULE MCStreamFraming --------------------------
(* StreamFraming on streams of three short packets.  With bytes of eight      *)
(* values packets of 8 and 17 bytes have lengths whose low byte is smaller    *)
(* than the header, as those of 256 and 513 bytes have in the code, and the   *)
(* last is long enough to have a packet and a bare header kept behind it.     *)
EXTENDS StreamFraming

PacketLengths == {4, 5, 8, 17}

MCStreams == {<<0, a, a + b, a + b + c>> : a, b, c \in PacketLengths}

\* A stack that happened to hold large values.
MCJunk == {<<7, 7>>}
=============================================================================
