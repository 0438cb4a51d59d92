----------------------------- MODULE MCChatPipeline -----------------------------
EXTENDS ChatPipeline

CONSTANTS c1, c2

MCByte     == {"a", "e", "b", "A", "E", "I", "O", "U", "NUL", "SP", "NL"}
MCClient   == {c1, c2}
MCStream   == [c \in Client |-> IF c = c1 THEN <<"b", "e", "NL", "NL">>
                                          ELSE <<"b", "b", "b", "a">>]
MCNameSize == [c \in Client |-> IF c = c1 THEN 1 ELSE 3]
MCMessage  == UNION {{SubSeq(Stream[c], i, j) : i, j \in 1 .. Len(Stream[c])} : c \in Client}
                \ {<<>>}
=============================================================================
