------------------------------- MODULE MCServing -------------------------------
EXTENDS Serving

\* A request whose client may leave takes up to two steps, the others one.
MCSteps == [r \in Requests |-> IF r \in Plain THEN 1 ELSE 2]
=============================================================================
