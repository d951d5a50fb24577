------------------------- MODULE MCMappingNormalizer -------------------------
EXTENDS MappingNormalizer

\* A digital button, both halves of one axis and a name YMLBtnIds lacks.
MCPadNames == {<<"a", "">>, <<"lstick", "left">>, <<"lstick", "right">>,
               <<"lstick", "x">>}
\* Key lists of one, two, three and four keys, and an unknown key name.
MCKeySeqs == {<<21>>, <<22, 23>>, <<24, 25, 26>>, <<21, 22, 23, 24>>, <<-1>>}
\* No text, two texts sharing the verb "M", and one without a verb.
MCActions == {<<>>, <<77, 32, 76>>, <<77, 32, 82>>, <<70>>}
=============================================================================
