------------------------------- MODULE MCDbpHash -------------------------------
EXTENDS DbpHash

\* '.', 'A', 0xE9 (a Latin-1 letter) and 0x20AC (a code unit above 255).
MCChars == {46, 65, 233, 8364}
\* 1000, 0x20000005 (past 2^29: << 3 wraps) and 0xFFFFFFFF.
MCSizes == {<<0, 1000>>, <<8192, 5>>, <<65535, 65535>>}
=============================================================================
