---------------------------- MODULE MCCoreRules -----------------------------
EXTENDS CoreRules

\* A reversible change of production, one that cannot be undone, a credit above
\* the limit outside production, a repeated attempt, and one outside the task.
Plain == [inScope |-> TRUE, forbidden |-> FALSE, production |-> TRUE, reversible |-> TRUE,
          impact |-> 0, records |-> 1, minutes |-> 8, retries |-> 0]

MCActions ==
    { Plain,
      [Plain EXCEPT !.reversible = FALSE],
      [Plain EXCEPT !.production = FALSE, !.impact = 350],
      [Plain EXCEPT !.retries = 2],
      [Plain EXCEPT !.inScope = FALSE] }

\* One observation more than each cap needs.
MCMost == [c \in Counters |->
             CASE c = "outOfScope" -> 3 [] c = "noImprovement" -> 3 [] c = "retryLoop" -> 5
               [] c = "contradiction" -> 3 [] c = "rejected" -> 4 [] c = "highRisk" -> 4]
=============================================================================
