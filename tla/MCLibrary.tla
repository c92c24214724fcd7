----------------------------- MODULE MCLibrary -----------------------------
EXTENDS Library

\* All bytes different, none 0; short strings in a block of zeros,
\* of a byte that is positive as an int8_t and one that is negative.
Different == [a \in Addr |-> a + 1]
MCMemories == {Different}
MCStrings == {[a \in Addr |-> IF a < 4 THEN s[a] ELSE 0] :
                   s \in [0 .. 3 -> {0, 2, 200}]}

MCFormats == SeqOf(Directives \ {"h"}, 2)
=============================================================================
