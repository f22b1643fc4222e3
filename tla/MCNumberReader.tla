--------------------------- MODULE MCNumberReader ---------------------------
EXTENDS NumberReader
\* Eight bits, with and without a sign.
EightBits == {[low |-> -128, high |-> 127], [low |-> 0, high |-> 255]}
=============================================================================
