------------------------------- MODULE MCOutput -------------------------------
EXTENDS Output

\* Bound: a run has one fault.  A writer throws at one thing, or one file loses
\* text when it is closed, or one stays when it is removed.
OneFault ==
  LET ignored == {f \in Files \ {Library} : dir[f] \in {Kept, Cut}}
  IN  Cardinality(ignored) + (IF fault = NoFault THEN 0 ELSE 1) <= 1
===============================================================================
