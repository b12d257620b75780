---------------------------- MODULE MCMappingScope ----------------------------
EXTENDS MappingScope

\* One call in a request of four elements; two calls in one of three; two
\* requests of three elements with a call each.
MCBounds ==
  {<<[elements |-> 4, calls |-> 1]>>,
   <<[elements |-> 3, calls |-> 2]>>,
   <<[elements |-> 3, calls |-> 1], [elements |-> 3, calls |-> 1]>>}

\* Two calls only.
MCBoundsTwoCalls == {<<[elements |-> 3, calls |-> 2]>>}

=============================================================================
