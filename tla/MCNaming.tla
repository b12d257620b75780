------------------------------- MODULE MCNaming -------------------------------
EXTENDS Naming

MCWants == {[under |-> u, stem |-> "m"] : u \in 0 .. 1}
MCLocalWants ==
  [under : 0 .. 1, stem : {"a", "object"}] \cup {[under |-> 0, stem |-> s] : s \in {"", "v"}}
MCWords == {"", "a", "m", "v", "object", "A", "B", "X", "0", "1"}
MCDigits == <<"0", "1">>

\* Names of one or two words, some of which look like another with its package
\* or a number.
MCFqNames ==
  [pkg : {<<>>, <<"A">>, <<"B">>, <<"B", "A">>},
   name : {<<"X">>, <<"A", "X">>, <<"X", "0">>, <<"X", "1">>}]

=============================================================================
