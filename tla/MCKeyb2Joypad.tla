---------------------------- MODULE MCKeyb2Joypad ----------------------------
(***************************************************************************)
(* Model values for the whole pipeline: every file of up to five lines     *)
(* over the lines of MCYmlReader, and every catalogue of one to three     *)
(* titles built from five title records that share names, titles and     *)
(* identifiers.  2 buckets of 2 slots: identifiers 1 and 2 land in bucket *)
(* 1 (slots 1 and 3), so a title is reused there with other mappings, and *)
(* identifier 3 starts probing at slot 1 too and moves on to slot 2.      *)
(***************************************************************************)
EXTENDS Keyb2Joypad

L(k, n, y, i, b) == [kind |-> k, name |-> n, year |-> y, id |-> i, bind |-> b]

MCBindings ==
  << [wheel |-> FALSE, pad |-> <<"a", "">>, num |-> 0, keys |-> <<21>>,
      action |-> <<>>],
     [wheel |-> TRUE, pad |-> <<"wheel", "">>, num |-> 1, keys |-> <<22>>,
      action |-> <<>>] >>

Dash == L("dash", <<>>, 0, 0, 0)
NameA == L("name", <<65>>, 0, 0, 0)
NameB == L("name", <<66>>, 0, 0, 0)
Year == L("year", <<>>, 1990, 0, 0)
Ident(i) == L("ident", <<>>, 0, i, 0)
BindL(b) == L("bind", <<>>, 0, 0, b)
MCLines ==
  {Dash, NameA, Year, Ident(1), L("blank", <<>>, 0, 0, 0),
   L("junk", <<>>, 0, 0, 0), BindL(1), BindL(2)}

\* Title records: A and B with identifier 1, 2 or 3 and either binding;
\* one has no binding line.
Titles ==
  { <<Dash, NameA, Year, Ident(1), BindL(1)>>,
    <<Dash, NameB, Year, Ident(2), BindL(2)>>,
    <<Dash, NameA, Year, Ident(2), BindL(2)>>,
    <<Dash, NameB, Year, Ident(1)>>,
    <<Dash, NameA, Year, Ident(3), BindL(1)>> }

MCFiles ==
  UNION {[1..n -> MCLines] : n \in 1..5}
  \cup Titles
  \cup {t1 \o t2 : t1, t2 \in Titles}
  \cup {t1 \o t2 \o t3 : t1, t2, t3 \in Titles}

MCFP == (1 :> 5) @@ (2 :> 7) @@ (3 :> 9)

\* Every file of up to five lines with name: "" added, the falsy name of
\* line 71.
MCEdgeFiles ==
  UNION {[1..n -> MCLines \cup {L("name", <<>>, 0, 0, 0)}] : n \in 1..5}

\* "F": a common action no binding here uses.
MCCommon == << <<70>> >>
=============================================================================
