----------------------------- MODULE MCYmlReader -----------------------------
EXTENDS YmlReader

\* A line of the given kind with its captured fields.
L(k, n, y, i, b) == [kind |-> k, name |-> n, year |-> y, id |-> i, bind |-> b]

\* Button a and wheel entry 1, each with one key (the analog paths are
\* checked in MCMappingNormalizer).
MCBindings ==
  << [wheel |-> FALSE, pad |-> <<"a", "">>, num |-> 0, keys |-> <<21>>,
      action |-> <<>>],
     [wheel |-> TRUE, pad |-> <<"wheel", "">>, num |-> 1, keys |-> <<22>>,
      action |-> <<>>] >>

\* '-', name: "A", year: 1990, one identifier, the two
\* bindings, a blank or comment line and a line no branch matches.
MCLines ==
  {L("dash", <<>>, 0, 0, 0), L("name", <<65>>, 0, 0, 0),
   L("year", <<>>, 1990, 0, 0),
   L("ident", <<>>, 0, 1, 0), L("blank", <<>>, 0, 0, 0),
   L("junk", <<>>, 0, 0, 0)}
  \cup {L("bind", <<>>, 0, 0, b) : b \in 1..2}

MCMaxFileLen == 5

\* Files of up to four lines: enough for the counterexamples.
MCShortFiles == UNION {[1..n -> MCLines] : n \in 1..(MCMaxFileLen - 1)}
=============================================================================
