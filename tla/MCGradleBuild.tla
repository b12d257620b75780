---------------------------- MODULE MCGradleBuild ----------------------------
EXTENDS GradleBuild

\* Two tasks of one project; the first has a mapping.
MCHomeOf == [t \in Tasks |-> "home"]
MCMappings == [t \in Tasks |-> IF t = "a" THEN 1 ELSE 0]

=============================================================================
