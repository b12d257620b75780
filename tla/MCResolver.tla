------------------------------ MODULE MCResolver ------------------------------
EXTENDS Resolver, TLC

Symmetry == Permutations(Names)

\* All classes are selected, or, when the others can be included, one (two
\* where one included class is enough to look at).
MCWanted == [IGNORE_MISSING |-> {3}, INCLUDE_MISSING |-> {1}]

MCWantedIncluding == [INCLUDE_MISSING |-> {2}]

MCWantedOfTwo == [p \in AllPolicies |-> {1, 2}]

=============================================================================
