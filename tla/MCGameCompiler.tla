--------------------------- MODULE MCGameCompiler ---------------------------
(***************************************************************************)
(* Model values for GameCompiler: 2 buckets of 3 slots, 16-bit offsets     *)
(* scaled down to 4 and the 255-mapping limit to 2, so that every error   *)
(* of the loop (map data or title data too large, too many mappings,      *)
(* duplicate, table full, bad year) is reachable within 4 games.          *)
(***************************************************************************)
EXTENDS GameCompiler

CONSTANTS i0, i1, i2, i3   \* identifiers (file name + size)

\* Mapping buffers as the normalizer stores them (line 115).
R1 == <<8, 30>>                        \* a = z
R2 == <<40, 70, 0, 31>>                \* a = x, action "F"
R3 == <<48, 77, 1, 82, 0, 21, 23>>     \* lstick = a/d, action "M\x01R"

M1 == <<R1>>
M2 == <<R2, R3>>
M3 == <<R1, R2, R3>>                   \* more mappings than MaxMapCount
M4 == <<R3>>

\* "F", and a 130-byte text that pushes later action indices past 127
\* (two-byte BER indices).
MCCommon == << <<70>>, [k \in 1..130 |-> 65] >>

\* Fingerprints: i1 and i2 collide on slot 1, i3 wraps from slot 5.
FPPass == (i1 :> 7) @@ (i2 :> 13) @@ (i3 :> 11)

Game(n, y, ms, ids) == [name |-> n, year |-> y, maps |-> ms, ids |-> ids]

GamesPass ==
  { Game(<<97>>, 1990, M1, <<i1>>),
    Game(<<97>>, 1995, M4, <<i1, i1>>),  \* same name and file, other year
    Game(<<98>>, 1991, M2, <<i2, i3>>),
    Game(<<99>>, 1969, M1, <<i3>>),      \* year below 1970
    Game(<<100>>, 1992, M3, <<i1>>),
    Game(<<101>>, 0, M1, <<i2>>),        \* no year line
    Game(<<102>>, 1993, M4, <<>>) }      \* no identifier lines

\* i1 has the fingerprint 0, the value map_keys uses for an empty slot;
\* i3 hashes to the same slot 0.
FPZero == (i1 :> 0) @@ (i2 :> 13) @@ (i3 :> 6)

\* A name with a non-ASCII character: "a" followed by U+00E9.
GamesUtf8 ==
  { Game(<<97, 233>>, 1990, M1, <<i1>>),
    Game(<<98>>, 1991, M2, <<i2, i3>>) }

=============================================================================
