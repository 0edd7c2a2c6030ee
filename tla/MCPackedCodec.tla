--------------------------- MODULE MCPackedCodec ---------------------------
(* Inputs of PackedCodec at the boundaries of the format, for TLC. *)
EXTENDS PackedCodec

MCSigned   == {-128, 65535}
MCUnsigned == {-1}
\* No character, the bytes of an element's start and of its end, and 130 bytes,
\* whose number takes two raw bytes.
MCStrings  == {<<>>, <<64 + 11, 128 + 11>>, [i \in 1..130 |-> 192]}
=============================================================================
