------------------------------ MODULE MCParsing ------------------------------
EXTENDS Parsing

\* Bound: map has no element for at most one declaration.
OneHidden == Cardinality(program.hidden) <= 1
=============================================================================
