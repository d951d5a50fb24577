---------------------------- MODULE MCBinaryCString ----------------------------
EXTENDS BinaryCString

\* 0 (the terminator case), 1 and 200 (octal escapes), 8 and 34 and 92
\* (letter escapes), the digits '1' and '8', '?', '(' (a trigraph's third
\* character) and 'A'.
Alphabet == {0, 1, 8, 34, 49, 56, 63, 40, 65, 92, 200}
\* Every buffer of up to three bytes, and one over the length limit.
MCBufs == UNION {[1..n -> Alphabet] : n \in 0..3} \cup {<<65, 65, 65, 65>>}
=============================================================================
