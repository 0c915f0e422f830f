-------------------------- MODULE MCKeyAttributes --------------------------
EXTENDS KeyAttributes, TLC

CONSTANTS t1, o1, o2

Symmetry == Permutations({o1, o2})

\* Private keys, session objects and token objects.
MCPlaces == {<<FALSE, TRUE>>, <<TRUE, TRUE>>}

MCEntries ==
  {<<"SENSITIVE", TRUE>>, <<"SENSITIVE", FALSE>>,
   <<"EXTRACTABLE", TRUE>>, <<"EXTRACTABLE", FALSE>>, <<"MODIFIABLE", FALSE>>}
=============================================================================
