--------------------------- MODULE MCEventStream ----------------------------
EXTENDS EventStream

\* Agents 1, 2, ... have a team each, as in a demo session.
MCTeamOf == [a \in Agents |-> a]

\* The dashboards follow one team, the native clients all of them.
MCScope == [c \in Clients |-> IF c \in Dashboards THEN 1 ELSE All]
=============================================================================
