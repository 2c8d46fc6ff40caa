------------------------------- MODULE MCWPool -------------------------------
\* The worker pool on a small instance; the queue is shorter than the number of
\* jobs, so that it fills up and its indices wrap around.
EXTENDS WPool
=============================================================================
