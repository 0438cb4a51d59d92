---------------------------- MODULE MCDecodeRound ----------------------------
EXTENDS DecodeRoundSerial

MCByte  == {"a", "e", "A", "E", "I", "O", "U", "NUL"}
MCChunk == {[i \in Slot |-> IF i = 0 THEN "a" ELSE "e"]}
=============================================================================
